------------------------- MODULE ReplayTimerProofs -------------------------
(* Theorems about ReplayTimer, for every stream of messages a manager may  *)
(* send and every clock.                                                   *)
EXTENDS ReplayTimer, FiniteSetTheorems, TLAPS

(* What is not printed in the statistics: a timer belongs to one query     *)
(* that was taken and not sent, a message that was not taken was not sent, *)
(* and the counters are those of the sets.  Unlike Accounting this holds   *)
(* of an aborted worker, too, which has taken a query it does not send.    *)
TimersInv ==
  /\ \A t \in timers : t.q \in Queries /\ issued[t.q] = -1
  /\ \A t, u \in timers : t.q = u.q => t = u
  /\ \A i \in Msgs : i > pos => issued[i] = -1
  /\ status = "running" =>
       \A i \in Queries : issued[i] = -1 => \E t \in timers : t.q = i
CountsInv ==
  /\ IsFiniteSet(timers) /\ num_pending_event = Cardinality(timers)
  /\ num_pending_event <= num_pending_event_max
  /\ IsFiniteSet(Queries) /\ (status = "running" => num_query = Cardinality(Queries))
  /\ num_query = num_timer + num_notimer
  /\ tv_cache <= now

AccountInv == TypeOK /\ TimersInv /\ CountsInv

(* The time of a timer, and that the origins are set when there is one.    *)
EarlyInv ==
  /\ EarlyOnlyByLag
  /\ \A t \in timers : t.due - start_real_ts >= (incoming[t.q].ts - start_trace_ts) - lag[t.q]
  /\ timers # {} \/ Issued # {} => start_trace_ts # 0

(* The sync messages that set the origins: the first of them.              *)
Sets(i)     == incoming[i].sync /\ incoming[i].ts # 0
FirstSet(n) == {i \in 1 .. n : Sets(i) /\ ~\E k \in 1 .. i - 1 : Sets(k)}
AbortInv ==
  /\ AbortsExactly
  /\ status = "running" => IF start_trace_ts = 0 THEN \A i \in 1 .. pos : ~Sets(i)
                                                 ELSE FirstSet(pos) # {}
-----------------------------------------------------------------------------
USE TimerAssumption

LEMMA StreamFacts ==
  ASSUME TypeOK
  PROVE  /\ Len(incoming) \in Nat /\ pos \in Nat
         /\ \A i \in Msgs : incoming[i].sync \in BOOLEAN /\ incoming[i].ts \in Nat
<1>1. incoming \in Seq(Message)  BY DEF TypeOK
<1>2. \A i \in Msgs : incoming[i] \in Message  BY <1>1 DEF Msgs
<1> QED BY <1>1, <1>2 DEF TypeOK, Message

(* What every message that is taken does to the set of queries.            *)
LEMMA TakeFacts ==
  ASSUME TypeOK, InCallback, pos' = pos + 1, incoming' = incoming
  PROVE  /\ pos + 1 \in Msgs /\ pos' \in 0 .. Len(incoming) /\ pos + 1 \notin Queries
         /\ Queries' = IF Msg.sync THEN Queries ELSE Queries \cup {pos + 1}
         /\ Queries \subseteq Msgs /\ Msg.ts \in Nat /\ Msg.sync \in BOOLEAN
<1>1. pos \in Nat /\ Len(incoming) \in Nat /\ pos < Len(incoming)
  BY StreamFacts DEF InCallback
<1>2. pos + 1 \in Msgs  BY <1>1 DEF Msgs
<1>3. Msg.ts \in Nat /\ Msg.sync \in BOOLEAN  BY <1>2, StreamFacts DEF Msg
<1>4. 1 .. pos + 1 = (1 .. pos) \cup {pos + 1} /\ 1 .. pos \subseteq Msgs
  BY <1>1 DEF Msgs
<1>5. Queries' = IF Msg.sync THEN Queries ELSE Queries \cup {pos + 1}
  BY <1>3, <1>4 DEF Queries, Msg
<1> QED BY <1>1, <1>2, <1>3, <1>4, <1>5 DEF Queries

LEMMA InitAccount == Init => AccountInv
<1> SUFFICES ASSUME Init PROVE AccountInv
  OBVIOUS
<1>1. Len(incoming) \in Nat  BY DEF Init
<1>2. TypeOK  BY <1>1 DEF Init, TypeOK, Msgs
<1>3. Queries = {}  BY DEF Init, Queries
<1>4. TimersInv  BY <1>3 DEF Init, TimersInv
<1>5. CountsInv  BY <1>3, FS_EmptySet DEF Init, CountsInv
<1> QED BY <1>2, <1>4, <1>5 DEF AccountInv

LEMMA SyncAccount ==
  ASSUME AccountInv, SyncTime
  PROVE  AccountInv'
<1> USE DEF AccountInv
<1>1. /\ InCallback /\ Msg.sync /\ pos' = pos + 1 /\ status \in {"running"}
      /\ UNCHANGED <<incoming, timers, counters, issued, tv_cache, now, lag, non_wait>>
  BY DEF SyncTime, InCallback
<1>2. Queries' = Queries /\ pos' \in 0 .. Len(incoming) /\ Msg.ts \in Nat
  BY <1>1, TakeFacts
<1>3. TypeOK'
  BY <1>1, <1>2 DEF SyncTime, TypeOK, counters, Msgs
<1>4. TimersInv'
  BY <1>1, <1>2, StreamFacts DEF TimersInv, Msgs
<1>5. CountsInv'
  BY <1>1, <1>2 DEF CountsInv, counters
<1> QED BY <1>3, <1>4, <1>5

LEMMA NotSyncedAccount ==
  ASSUME AccountInv, QueryNotSynced
  PROVE  AccountInv'
<1> USE DEF AccountInv
<1>1. /\ InCallback /\ ~Msg.sync /\ pos' = pos + 1 /\ status' = "aborted"
      /\ UNCHANGED <<incoming, timers, counters, issued, tv_cache, now, lag, non_wait,
                     start_trace_ts, start_real_ts>>
  BY DEF QueryNotSynced
<1>2. Queries' = Queries \cup {pos + 1} /\ pos' \in 0 .. Len(incoming)
  BY <1>1, TakeFacts
<1>3. TypeOK'
  BY <1>1, <1>2 DEF TypeOK, counters, Msgs
<1>4. TimersInv'
  BY <1>1, <1>2, StreamFacts DEF TimersInv, Msgs
<1>5. IsFiniteSet(Queries')
  BY <1>2, FS_AddElement DEF CountsInv
<1>6. CountsInv'
  BY <1>1, <1>5 DEF CountsInv, counters
<1> QED BY <1>3, <1>4, <1>6

LEMMA SendNowAccount ==
  ASSUME AccountInv, SendNow
  PROVE  AccountInv'
<1> USE DEF AccountInv
<1>1. /\ InCallback /\ ~Msg.sync /\ pos' = pos + 1 /\ status = "running"
      /\ issued' = [issued EXCEPT ![pos + 1] = now]
      /\ num_query' = num_query + 1 /\ num_notimer' = num_notimer + 1
      /\ UNCHANGED <<incoming, timers, num_timer, num_pending_event, num_pending_event_max,
                     tv_cache, now, lag, non_wait, start_trace_ts, start_real_ts, status>>
  BY DEF SendNow, InCallback
<1>2. /\ Queries' = Queries \cup {pos + 1} /\ pos' \in 0 .. Len(incoming)
      /\ pos + 1 \in Msgs /\ pos + 1 \notin Queries /\ Queries \subseteq Msgs
  BY <1>1, TakeFacts
<1>3. TypeOK'
  BY <1>1, <1>2 DEF TypeOK, Msgs
<1>4. \A i \in Msgs : issued'[i] = IF i = pos + 1 THEN now ELSE issued[i]
  BY <1>1 DEF TypeOK
<1>5. now # -1 /\ pos \in Nat /\ Msgs \subseteq Nat  BY StreamFacts DEF TypeOK, Msgs
<1>6. TimersInv'
  BY <1>1, <1>2, <1>4, <1>5 DEF TimersInv, Msgs
<1>7. /\ IsFiniteSet(Queries') /\ Cardinality(Queries') = Cardinality(Queries) + 1
  BY <1>2, FS_AddElement DEF CountsInv
<1>8. CountsInv'
  BY <1>1, <1>7 DEF CountsInv, TypeOK
<1> QED BY <1>3, <1>6, <1>8

LEMMA AddTimerAccount ==
  ASSUME AccountInv, AddTimer
  PROVE  AccountInv'
<1> USE DEF AccountInv
<1>1. PICK d \in Int : timers' = timers \cup {[q |-> pos + 1, due |-> d]}
  <2>1. InCallback /\ pos' = pos + 1 /\ incoming' = incoming  BY DEF AddTimer
  <2>2. Msg.ts \in Nat  BY <2>1, TakeFacts
  <2>3. tv_cache + Delay(Msg.ts) \in Int  BY <2>2 DEF Delay, TypeOK
  <2> QED BY <2>3 DEF AddTimer
<1>2. /\ InCallback /\ ~Msg.sync /\ pos' = pos + 1 /\ status = "running" /\ tv_cache # -1
      /\ lag' = [lag EXCEPT ![pos + 1] = now - tv_cache]
      /\ num_query' = num_query + 1 /\ num_timer' = num_timer + 1
      /\ num_pending_event' = num_pending_event + 1
      /\ num_pending_event_max' = IF num_pending_event' > num_pending_event_max
                                    THEN num_pending_event' ELSE num_pending_event_max
      /\ UNCHANGED <<incoming, issued, num_notimer, tv_cache, now, non_wait, start_trace_ts,
                     start_real_ts, status>>
  BY DEF AddTimer, InCallback
<1>3. /\ Queries' = Queries \cup {pos + 1} /\ pos' \in 0 .. Len(incoming)
      /\ pos + 1 \in Msgs /\ pos + 1 \notin Queries /\ Queries \subseteq Msgs
  BY <1>2, TakeFacts
<1>4. now - tv_cache \in Nat  BY <1>2 DEF CountsInv, TypeOK
<1>5. PICK e \in [q : Msgs, due : Int] : e.q = pos + 1 /\ timers' = timers \cup {e}
  BY <1>1, <1>3
<1>6. TypeOK'
  BY <1>2, <1>3, <1>4, <1>5 DEF TypeOK, Msgs
<1>7. e \notin timers /\ \A t \in timers : t.q # pos + 1
  BY <1>3, <1>5 DEF TimersInv
<1>8. pos \in Nat /\ Msgs \subseteq Nat  BY StreamFacts DEF Msgs
<1>9. TimersInv'
  <2>1. issued[pos + 1] = -1  BY <1>3, <1>8 DEF TimersInv
  <2> QED BY <1>2, <1>3, <1>5, <1>7, <1>8, <2>1 DEF TimersInv, Msgs
<1>10. IsFiniteSet(Queries') /\ Cardinality(Queries') = Cardinality(Queries) + 1
  BY <1>3, FS_AddElement DEF CountsInv
<1>11. IsFiniteSet(timers') /\ Cardinality(timers') = Cardinality(timers) + 1
  BY <1>5, <1>7, FS_AddElement DEF CountsInv
<1>12. CountsInv'
  BY <1>2, <1>10, <1>11 DEF CountsInv, TypeOK
<1> QED BY <1>6, <1>9, <1>12

LEMMA FireAccount ==
  ASSUME AccountInv, NEW e \in timers, SendQueryHelper(e)
  PROVE  AccountInv'
<1> USE DEF AccountInv
<1>1. /\ timers' = timers \ {e} /\ num_pending_event' = num_pending_event - 1
      /\ issued' = [issued EXCEPT ![e.q] = now]
      /\ UNCHANGED <<incoming, pos, num_query, num_timer, num_notimer, num_pending_event_max,
                     tv_cache, now, lag, non_wait, start_trace_ts, start_real_ts, status>>
  BY DEF SendQueryHelper
<1>2. e.q \in Queries /\ Queries' = Queries /\ e.q \in Msgs
  BY <1>1 DEF TimersInv, TypeOK, Queries
<1>3. /\ IsFiniteSet(timers') /\ Cardinality(timers') = Cardinality(timers) - 1
  BY <1>1, FS_RemoveElement DEF CountsInv
<1>4. Cardinality(timers') \in Nat  BY <1>3, FS_CardinalityType
<1>5. num_pending_event' \in Nat  BY <1>1, <1>3, <1>4 DEF CountsInv
<1>6. TypeOK'
  BY <1>1, <1>2, <1>5 DEF TypeOK, Msgs
<1>7. \A i \in Msgs : issued'[i] = IF i = e.q THEN now ELSE issued[i]
  BY <1>1 DEF TypeOK
<1>8. Queries \subseteq Msgs /\ now # -1 /\ Msgs \subseteq Nat /\ pos \in Nat
  BY StreamFacts, SMTT(60) DEF TypeOK, Queries, Msgs
<1>9. e.q <= pos  BY <1>2, <1>8 DEF Queries
<1>10. TimersInv'
  BY <1>1, <1>2, <1>7, <1>8, <1>9 DEF TimersInv, Msgs
<1>11. CountsInv'
  BY <1>1, <1>2, <1>3, <1>5 DEF CountsInv, TypeOK
<1> QED BY <1>6, <1>10, <1>11

LEMMA NextAccount == AccountInv /\ [Next]_vars => AccountInv'
<1> SUFFICES ASSUME AccountInv, [Next]_vars PROVE AccountInv'
  OBVIOUS
<1>1. CASE EnterCallback \/ LeaveCallback \/ Tick \/ UNCHANGED vars
  <2>1. /\ UNCHANGED <<non_wait, incoming, pos, start_trace_ts, start_real_ts, timers, counters,
                       issued, lag, status>>
        /\ now' \in Nat /\ now <= now' /\ tv_cache' \in Nat \cup {-1} /\ tv_cache' <= now'
    BY <1>1, SMTT(60) DEF EnterCallback, LeaveCallback, Tick, vars, AccountInv, TypeOK, CountsInv
  <2>2. Queries' = Queries  BY <2>1 DEF Queries
  <2>3. TypeOK'     BY <2>1 DEF AccountInv, TypeOK, counters, Msgs
  <2>4. TimersInv'  BY <2>1, <2>2 DEF AccountInv, TimersInv, Msgs
  <2>5. CountsInv'  BY <2>1, <2>2 DEF AccountInv, CountsInv, counters
  <2> QED BY <2>3, <2>4, <2>5 DEF AccountInv
<1> QED BY <1>1, SyncAccount, NotSyncedAccount, SendNowAccount, AddTimerAccount, FireAccount
        DEF Next, ManagerReadCb, FireTimer

LEMMA AccountSteps == Spec => []AccountInv
  BY InitAccount, NextAccount, PTL DEF Spec

(* Every query taken from the manager is sent or waits for exactly one     *)
(* timer, and the printed statistics count them, for every stream.         *)
THEOREM AccountingCorrect == Spec => []Accounting
<1>1. AccountInv => Accounting
  <2> SUFFICES ASSUME AccountInv PROVE Accounting
    OBVIOUS
  <2>1. \A i \in Queries : i \in Issued <=> issued[i] # -1  BY DEF Issued
  <2> QED BY <2>1 DEF AccountInv, TimersInv, CountsInv, Accounting
<1> QED BY <1>1, AccountSteps, PTL
-----------------------------------------------------------------------------
LEMMA NextEarly == AccountInv /\ EarlyInv /\ [Next]_vars => EarlyInv'
<1> SUFFICES ASSUME AccountInv, EarlyInv, [Next]_vars PROVE EarlyInv'
  OBVIOUS
<1> USE DEF AccountInv
<1>0. /\ Queries \subseteq Msgs /\ Msgs \subseteq Nat /\ pos \in Nat
      /\ \A i \in Msgs : incoming[i].ts \in Nat
      /\ \A t \in timers : t.q \in Msgs /\ t.q \in Queries /\ t.due \in Int
      /\ \A i \in Msgs : lag[i] \in Nat /\ issued[i] \in Int
      /\ start_real_ts \in Nat /\ start_trace_ts \in Nat /\ now \in Nat
  <2>1. /\ Msgs \subseteq Nat /\ pos \in Nat /\ \A i \in Msgs : incoming[i].ts \in Nat
    BY StreamFacts DEF Msgs
  <2>2. Queries \subseteq Msgs  BY StreamFacts DEF Queries, Msgs, TypeOK
  <2>3. \A t \in timers : t.q \in Msgs /\ t.q \in Queries /\ t.due \in Int
    BY DEF TypeOK, TimersInv
  <2>4. /\ \A i \in Msgs : lag[i] \in Nat /\ issued[i] \in Int
        /\ start_real_ts \in Nat /\ start_trace_ts \in Nat /\ now \in Nat
    BY DEF TypeOK
  <2> QED BY <2>1, <2>2, <2>3, <2>4
<1>1. CASE EnterCallback \/ LeaveCallback \/ Tick \/ UNCHANGED vars
  <2>1. UNCHANGED <<non_wait, incoming, pos, start_trace_ts, start_real_ts, timers, issued, lag>>
    BY <1>1 DEF EnterCallback, LeaveCallback, Tick, vars
  <2>2. Issued' = Issued  BY <2>1 DEF Issued, Queries
  <2> QED BY <2>1, <2>2 DEF EarlyInv, EarlyOnlyByLag
<1>2. CASE SyncTime
  <2>1. /\ InCallback /\ Msg.sync /\ pos' = pos + 1
        /\ UNCHANGED <<non_wait, incoming, timers, issued, lag>>
        /\ start_trace_ts # 0 => UNCHANGED <<start_trace_ts, start_real_ts>>
    BY <1>2 DEF SyncTime
  <2>2. Queries' = Queries  BY <2>1, TakeFacts
  <2>3. Issued' = Issued  BY <2>1, <2>2 DEF Issued
  <2> QED BY <2>1, <2>3 DEF EarlyInv, EarlyOnlyByLag
<1>3. CASE QueryNotSynced
  <2>1. /\ InCallback /\ ~Msg.sync /\ pos' = pos + 1
        /\ UNCHANGED <<non_wait, incoming, timers, issued, lag, start_trace_ts, start_real_ts>>
    BY <1>3 DEF QueryNotSynced
  <2>2. Queries' = Queries \cup {pos + 1} /\ pos + 1 \in Msgs  BY <2>1, TakeFacts
  <2>3. issued[pos + 1] = -1  BY <1>0, <2>2 DEF TimersInv
  <2>4. Issued' = Issued  BY <2>1, <2>2, <2>3 DEF Issued
  <2> QED BY <2>1, <2>4 DEF EarlyInv, EarlyOnlyByLag
<1>4. CASE SendNow
  <2>1. /\ InCallback /\ ~Msg.sync /\ pos' = pos + 1 /\ start_trace_ts # 0
        /\ non_wait \/ Delay(Msg.ts) < 0
        /\ issued' = [issued EXCEPT ![pos + 1] = now]
        /\ UNCHANGED <<non_wait, incoming, timers, lag, start_trace_ts, start_real_ts>>
    BY <1>4 DEF SendNow
  <2>2. /\ Queries' = Queries \cup {pos + 1} /\ pos + 1 \in Msgs /\ pos + 1 \notin Queries
        /\ Msg.ts \in Nat
    BY <2>1, TakeFacts
  <2>3. \A i \in Msgs : issued'[i] = IF i = pos + 1 THEN now ELSE issued[i]
    BY <2>1 DEF TypeOK
  <2>4. Issued' \subseteq Issued \cup {pos + 1}
    BY <1>0, <2>2, <2>3 DEF Issued
  <2>5. EarlyOnlyByLag'
    <3> SUFFICES ASSUME ~non_wait, NEW i \in Issued'
                 PROVE  issued'[i] - start_real_ts >= (incoming[i].ts - start_trace_ts) - lag[i]
      BY <2>1 DEF EarlyOnlyByLag
    <3>1. CASE i = pos + 1
      <4>1. issued'[i] = now /\ lag[i] \in Nat  BY <1>0, <2>2, <2>3, <3>1
      <4>2. (incoming[i].ts - start_trace_ts) - (now - start_real_ts) < 0
        BY <2>1, <3>1 DEF Delay, Msg
      <4>3. incoming[i].ts \in Nat  BY <1>0, <2>2, <3>1
      <4> QED BY <1>0, <4>1, <4>2, <4>3
    <3>2. CASE i # pos + 1
      <4>1. i \in Issued /\ i \in Msgs  BY <1>0, <2>4, <3>2 DEF Issued
      <4> QED BY <2>3, <3>2, <4>1 DEF EarlyInv, EarlyOnlyByLag
    <3> QED BY <3>1, <3>2
  <2> QED BY <2>1, <2>5 DEF EarlyInv
<1>5. CASE AddTimer
  <2>1. /\ InCallback /\ ~Msg.sync /\ pos' = pos + 1 /\ start_trace_ts # 0 /\ tv_cache # -1
        /\ timers' = timers \cup {[q |-> pos + 1, due |-> tv_cache + Delay(Msg.ts)]}
        /\ lag' = [lag EXCEPT ![pos + 1] = now - tv_cache]
        /\ UNCHANGED <<non_wait, incoming, issued, start_trace_ts, start_real_ts>>
    BY <1>5 DEF AddTimer, InCallback
  <2>2. /\ Queries' = Queries \cup {pos + 1} /\ pos + 1 \in Msgs /\ pos + 1 \notin Queries
        /\ Msg.ts \in Nat
    BY <2>1, TakeFacts
  <2>3. issued[pos + 1] = -1  BY <1>0, <2>2 DEF TimersInv
  <2>4. Issued' = Issued  BY <2>1, <2>2, <2>3 DEF Issued
  <2>5. \A i \in Msgs : lag'[i] = IF i = pos + 1 THEN now - tv_cache ELSE lag[i]
    BY <2>1 DEF TypeOK
  <2>6. \A i \in Issued : i \in Msgs /\ i # pos + 1  BY <1>0, <2>2 DEF Issued
  <2>7. EarlyOnlyByLag'
    BY <2>1, <2>4, <2>5, <2>6 DEF EarlyInv, EarlyOnlyByLag
  <2>8. ASSUME NEW t \in timers'
        PROVE  t.due - start_real_ts >= (incoming[t.q].ts - start_trace_ts) - lag'[t.q]
    <3>1. CASE t \in timers
      BY <1>0, <2>2, <2>5, <3>1 DEF EarlyInv
    <3>2. CASE t \notin timers
      <4>1. t.q = pos + 1 /\ t.due = tv_cache + Delay(Msg.ts)  BY <2>1, <3>2
      <4>2. lag'[t.q] = now - tv_cache /\ incoming[t.q].ts = Msg.ts
        BY <2>2, <2>5, <4>1 DEF Msg
      <4>3. t.due = tv_cache + ((Msg.ts - start_trace_ts) - (now - start_real_ts))
        BY <4>1 DEF Delay
      <4>4. tv_cache \in Int  BY DEF TypeOK
      <4> QED BY <1>0, <2>2, <4>2, <4>3, <4>4
    <3> QED BY <3>1, <3>2
  <2> QED BY <2>1, <2>7, <2>8 DEF EarlyInv
<1>6. ASSUME NEW e \in timers, SendQueryHelper(e) PROVE EarlyInv'
  <2>1. /\ timers' = timers \ {e} /\ now >= e.due
        /\ issued' = [issued EXCEPT ![e.q] = now]
        /\ UNCHANGED <<non_wait, incoming, pos, lag, start_trace_ts, start_real_ts>>
    BY <1>6 DEF SendQueryHelper
  <2>2. e.q \in Queries /\ e.q \in Msgs /\ e.due \in Int /\ Queries' = Queries
    BY <1>0, <2>1 DEF Queries
  <2>3. \A i \in Msgs : issued'[i] = IF i = e.q THEN now ELSE issued[i]
    BY <2>1 DEF TypeOK
  <2>4. Issued' \subseteq Issued \cup {e.q}
    BY <1>0, <2>2, <2>3 DEF Issued
  <2>5. EarlyOnlyByLag'
    <3> SUFFICES ASSUME ~non_wait, NEW i \in Issued'
                 PROVE  issued'[i] - start_real_ts >= (incoming[i].ts - start_trace_ts) - lag[i]
      BY <2>1 DEF EarlyOnlyByLag
    <3>1. CASE i = e.q
      <4>1. issued'[i] = now /\ lag[i] \in Nat /\ incoming[i].ts \in Nat
        BY <1>0, <2>2, <2>3, <3>1
      <4>2. e.due - start_real_ts >= (incoming[i].ts - start_trace_ts) - lag[i]
        BY <3>1 DEF EarlyInv
      <4>3. now >= e.due /\ e.due \in Int  BY <2>1, <2>2
      <4>4. start_real_ts \in Nat /\ start_trace_ts \in Nat /\ now \in Nat  BY <1>0
      <4> QED BY <4>1, <4>2, <4>3, <4>4, SMTT(60)
    <3>2. CASE i # e.q
      <4>1. i \in Issued /\ i \in Msgs  BY <1>0, <2>4, <3>2 DEF Issued
      <4> QED BY <2>3, <3>2, <4>1 DEF EarlyInv, EarlyOnlyByLag
    <3> QED BY <3>1, <3>2
  <2>6. start_trace_ts # 0  BY DEF EarlyInv
  <2> QED BY <2>1, <2>5, <2>6 DEF EarlyInv
<1> QED BY <1>1, <1>2, <1>3, <1>4, <1>5, <1>6 DEF Next, ManagerReadCb, FireTimer

(* No query is sent before its offset in the trace, but by the time the    *)
(* callback had run when it added the timer, for every stream and clock.   *)
THEOREM EarlyCorrect == Spec => []EarlyOnlyByLag
<1>1. Init => EarlyInv
  <2> SUFFICES ASSUME Init PROVE EarlyInv
    OBVIOUS
  <2>1. Issued = {}  BY DEF Init, Issued, Queries
  <2> QED BY <2>1 DEF Init, EarlyInv, EarlyOnlyByLag
<1>2. EarlyInv => EarlyOnlyByLag  BY DEF EarlyInv
<1> QED BY <1>1, <1>2, NextEarly, AccountSteps, PTL DEF Spec
-----------------------------------------------------------------------------
(* The first sync message that sets the origins is the only one.           *)
LEMMA WellFormedFacts ==
  ASSUME NEW n \in Nat
  PROVE  WellFormed(n) <=> \A i \in 1 .. n : IF incoming[i].sync THEN \A k \in FirstSet(n) : i <= k
                                                                ELSE \E k \in FirstSet(n) : k < i
  BY DEF WellFormed, FirstSet, Sets

(* A message is taken: what it does to WellFormed and the first of Sets.   *)
LEMMA TakeWellFormed ==
  ASSUME TypeOK, InCallback, AbortInv
  PROVE  /\ WellFormed(pos + 1) <=> (Msg.sync <=> start_trace_ts = 0)
         /\ WellFormed(pos + 1) =>
              IF start_trace_ts = 0 /\ Msg.ts = 0 THEN \A i \in 1 .. pos + 1 : ~Sets(i)
                                                 ELSE FirstSet(pos + 1) # {}
<1>1. pos \in Nat /\ pos + 1 \in Msgs  BY StreamFacts DEF InCallback, Msgs
<1>2. Msg = incoming[pos + 1] /\ Msg.sync \in BOOLEAN  BY <1>1, StreamFacts DEF Msg
<1>3. WellFormed(pos)
  BY DEF InCallback, AbortInv, AbortsExactly
<1>4. 1 .. pos + 1 = (1 .. pos) \cup {pos + 1}  BY <1>1
<1>5. \A i \in 1 .. pos : i < pos + 1 /\ i \in Nat  BY <1>1
<1>6. CASE start_trace_ts = 0
  <2>1. \A i \in 1 .. pos : ~Sets(i)  BY <1>6 DEF InCallback, AbortInv
  <2>2. FirstSet(pos) = {}  BY <2>1 DEF FirstSet
  <2>3. \A i \in 1 .. pos : incoming[i].sync  BY <1>1, <1>3, <2>2, WellFormedFacts
  <2>4. FirstSet(pos + 1) = IF Sets(pos + 1) THEN {pos + 1} ELSE {}
    <3>1. \A i \in 1 .. pos + 1 : Sets(i) => i = pos + 1  BY <1>4, <2>1
    <3>2. 1 .. (pos + 1) - 1 = 1 .. pos  BY <1>1
    <3> QED BY <1>4, <2>1, <3>1, <3>2 DEF FirstSet
  <2>5. CASE Msg.sync
    <3>1. WellFormed(pos + 1)
      BY <1>1, <1>2, <1>4, <1>5, <2>3, <2>4, <2>5, WellFormedFacts
    <3> QED BY <1>2, <1>4, <1>6, <2>1, <2>4, <2>5, <3>1 DEF Sets
  <2>6. CASE ~Msg.sync
    <3>1. FirstSet(pos + 1) = {}  BY <1>2, <2>4, <2>6 DEF Sets
    <3>2. ~WellFormed(pos + 1)
      BY <1>1, <1>2, <1>4, <2>6, <3>1, WellFormedFacts
    <3> QED BY <1>6, <2>6, <3>2
  <2> QED BY <1>2, <2>5, <2>6
<1>7. CASE start_trace_ts # 0
  <2>1. PICK k \in FirstSet(pos) : TRUE  BY <1>7 DEF InCallback, AbortInv
  <2>2. FirstSet(pos + 1) = {k} /\ FirstSet(pos) = {k} /\ k \in 1 .. pos
    <3>1. k \in 1 .. pos /\ Sets(k) /\ \A j \in 1 .. k - 1 : ~Sets(j)
      BY <2>1 DEF FirstSet
    <3>2. ASSUME NEW n \in Nat, NEW j \in FirstSet(n), k <= n PROVE j = k
      <4>1. j \in 1 .. n /\ Sets(j) /\ \A i \in 1 .. j - 1 : ~Sets(i)
        BY DEF FirstSet
      <4>2. ~(j < k)  BY <1>1, <3>1, <4>1
      <4>3. ~(k < j)  BY <1>1, <3>1, <4>1
      <4> QED BY <1>1, <3>1, <4>1, <4>2, <4>3
    <3>3. k \in FirstSet(pos + 1)  BY <1>4, <3>1 DEF FirstSet
    <3>4. k <= pos /\ k <= pos + 1 /\ pos + 1 \in Nat  BY <1>1, <3>1
    <3>5. \A j \in FirstSet(pos) : j = k  BY <1>1, <3>2, <3>4
    <3>6. \A j \in FirstSet(pos + 1) : j = k  BY <3>2, <3>4
    <3> QED BY <2>1, <3>1, <3>3, <3>5, <3>6
  <2>3. CASE Msg.sync
    <3>1. ~(pos + 1 <= k)  BY <1>1, <1>5, <2>2
    <3>2. ~WellFormed(pos + 1)
      BY <1>1, <1>2, <1>4, <2>2, <2>3, <3>1, WellFormedFacts
    <3> QED BY <1>7, <2>3, <3>2
  <2>4. CASE ~Msg.sync
    <3>1. WellFormed(pos + 1)
      BY <1>1, <1>2, <1>3, <1>4, <1>5, <2>2, <2>4, WellFormedFacts
    <3> QED BY <1>7, <2>2, <2>4, <3>1
  <2> QED BY <1>2, <2>3, <2>4
<1> QED BY <1>6, <1>7

LEMMA NextAborts == TypeOK /\ AbortInv /\ [Next]_vars => AbortInv'
<1> SUFFICES ASSUME TypeOK, AbortInv, [Next]_vars PROVE AbortInv'
  OBVIOUS
<1>1. CASE UNCHANGED <<incoming, pos, start_trace_ts, status>>
  <2>1. \A i : Sets(i)' <=> Sets(i)  BY <1>1 DEF Sets
  <2>2. FirstSet(pos)' = FirstSet(pos)  BY <1>1 DEF FirstSet, Sets
  <2>3. WellFormed(pos)' <=> WellFormed(pos)  BY <1>1 DEF WellFormed
  <2> QED BY <1>1, <2>1, <2>2, <2>3 DEF AbortInv, AbortsExactly
<1>2. CASE ManagerReadCb
  <2>1. /\ InCallback /\ pos' = pos + 1 /\ incoming' = incoming
        /\ status' = IF Msg.sync <=> start_trace_ts = 0 THEN "running" ELSE "aborted"
        /\ start_trace_ts' = IF Msg.sync /\ start_trace_ts = 0 THEN Msg.ts ELSE start_trace_ts
    BY <1>2 DEF ManagerReadCb, SyncTime, QueryNotSynced, SendNow, AddTimer, InCallback
  <2>2. WellFormed(pos)' <=> WellFormed(pos + 1)  BY <2>1 DEF WellFormed
  <2>3. FirstSet(pos)' = FirstSet(pos + 1)  BY <2>1 DEF FirstSet, Sets
  <2>4. \A i : Sets(i)' <=> Sets(i)  BY <2>1 DEF Sets
  <2>5. AbortsExactly'
    BY <2>1, <2>2, TakeWellFormed DEF AbortsExactly
  <2>6. ASSUME status' = "running"
        PROVE  IF start_trace_ts' = 0 THEN \A i \in 1 .. pos' : ~Sets(i)' ELSE FirstSet(pos)' # {}
    <3>1. WellFormed(pos + 1) /\ (Msg.sync <=> start_trace_ts = 0)
      BY <2>1, <2>6, TakeWellFormed
    <3>2. (start_trace_ts = 0 /\ Msg.ts = 0) <=> start_trace_ts' = 0
      BY <2>1, <3>1
    <3> QED BY <2>1, <2>3, <2>4, <3>1, <3>2, TakeWellFormed
  <2> QED BY <2>5, <2>6 DEF AbortInv
<1>3. Next => ManagerReadCb \/ UNCHANGED <<incoming, pos, start_trace_ts, status>>
  BY DEF Next, EnterCallback, LeaveCallback, FireTimer, SendQueryHelper, Tick
<1> QED BY <1>1, <1>2, <1>3 DEF vars

(* The worker aborts exactly when a query precedes the sync message or a   *)
(* second one follows it, a sync message of time 0 counting for none.      *)
THEOREM AbortsCorrect == Spec => []AbortsExactly
<1>1. Init => AbortInv
  BY DEF Init, AbortInv, AbortsExactly, WellFormed, Sets
<1>2. AbortInv => AbortsExactly  BY DEF AbortInv
<1>3. AccountInv => TypeOK  BY DEF AccountInv
<1> QED BY <1>1, <1>2, <1>3, NextAborts, AccountSteps, PTL DEF Spec
=============================================================================
