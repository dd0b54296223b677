--------------------------- MODULE ManagerProofs ---------------------------
(* Theorems about the client's manager, started by main, for any input,    *)
(* any number of workers, and any losses of the commander's connection.    *)
EXTENDS ClientMain, SequenceTheorems, FiniteSetTheorems, TLAPS

(* The state of a manager that reads a file is not touched by the code     *)
(* for a commander; a message that was taken is one with a payload, and    *)
(* has its paced time; the count of failures is below the limit while the  *)
(* manager runs.                                                           *)
Taken(n) == {k \in 1 .. n : Incoming[k].raw}
ModeInv ==
  /\ ~dist => /\ com = "connecting" /\ ~in_com_read_cb /\ ~garbled
              /\ stream = <<>> /\ com_msg_buffer = <<>> /\ com_fail_retry = 0
  /\ dist => pos <= sending /\ reader = "done"
  /\ reader = "forward" => pos < Len(Incoming) /\ Next1.raw /\ done_sync_time
  /\ status # "aborted" => com_fail_retry < FAIL_RETRY_LIMIT
PaceInv ==
  ~dist /\ query_pace > 0 =>
    query_pace_ts = 1 + query_pace * Cardinality(Taken(pos))
                      + (IF reader = "forward" THEN query_pace ELSE 0)

(* The units of the commander's messages are in order, with or without     *)
(* gaps, and ahead of what was taken.                                      *)
Rank(u) == 2 * u.n + (IF u.part = "body" THEN 1 ELSE 0)
OrderInv ==
  /\ \A i, j \in DOMAIN com_msg_buffer : i < j => Rank(com_msg_buffer[i]) < Rank(com_msg_buffer[j])
  /\ \A i, j \in DOMAIN stream : i < j => Rank(stream[i]) < Rank(stream[j])
  /\ \A i \in DOMAIN com_msg_buffer, j \in DOMAIN stream : Rank(com_msg_buffer[i]) < Rank(stream[j])
AheadInv ==
  /\ \A i \in DOMAIN com_msg_buffer :
       com_msg_buffer[i].n <= sending /\ (~garbled => com_msg_buffer[i].n > pos)
  /\ \A i \in DOMAIN stream : stream[i].n <= sending /\ (~garbled => stream[i].n > pos)

(* What was written and what is about to be.                               *)
Query(e) == ~e.sync /\ e.n # 0
TodoInv ==
  \A k \in DOMAIN todo :
    ~todo[k][2].sync => /\ k = 1 /\ Len(todo) = 1
                        /\ ~garbled => todo[k][2].n \in 1 .. pos
TakenInv ==
  \A w \in Workers : \A i \in DOMAIN written[w] :
    ~garbled /\ ~written[w][i].sync => written[w][i].n \in 1 .. pos
SortedInv ==
  /\ \A w \in Workers : \A i, j \in DOMAIN written[w] :
       i < j /\ Query(written[w][i]) /\ Query(written[w][j]) => written[w][i].n < written[w][j].n
  /\ \A k \in DOMAIN todo, w \in Workers : \A i \in DOMAIN written[w] :
       Query(todo[k][2]) /\ Query(written[w][i]) => written[w][i].n < todo[k][2].n
ApartInv ==
  \A v, w \in Workers : \A i \in DOMAIN written[v], j \in DOMAIN written[w] :
    v # w /\ Query(written[v][i]) /\ Query(written[w][j]) => written[v][i].n # written[w][j].n
MappedInv ==
  ~disable_mapping =>
    /\ \A w \in Workers : \A i \in DOMAIN written[w] :
         Query(written[w][i]) => client_src2fd[Incoming[written[w][i].n].src] = w
    /\ \A k \in DOMAIN todo :
         Query(todo[k][2]) => client_src2fd[Incoming[todo[k][2].n].src] = todo[k][1]

(* While no connection was lost: the units are all there, ...              *)
NoGapInv ==
  dist /\ com_fail_retry = 0 =>
    /\ ~garbled /\ (done_sync_time <=> pos > 0)
    /\ \A i \in DOMAIN com_msg_buffer : Rank(com_msg_buffer[i]) = 2 * pos + 1 + i
    /\ \A i \in DOMAIN stream : Rank(stream[i]) = 2 * pos + 1 + Len(com_msg_buffer) + i
    /\ 2 * pos + Len(com_msg_buffer) + Len(stream) = 2 * sending

(* ... and the sync message is the first that each worker gets, then or    *)
(* when the handler has come to its write().                               *)
Unsynced(w) == /\ todo # <<>> /\ todo[1][2].sync
               /\ w > num_clients - Len(todo)
SyncInv ==
  com_fail_retry = 0 =>
    \/ ~done_sync_time /\ todo = <<>> /\ \A w \in Workers : written[w] = <<>>
    \/ /\ done_sync_time
       /\ \E e0 \in Entry :
            /\ e0.sync
            /\ \A k \in DOMAIN todo :
                 todo[k][2].sync => todo[k][2] = e0 /\ todo[k][1] = num_clients - Len(todo) + k
            /\ \A w \in Workers : written[w] = <<>> <=> Unsynced(w)
            /\ \A w \in Workers : \A i \in DOMAIN written[w] :
                 /\ i = 1 => written[w][i] = e0
                 /\ i # 1 => ~written[w][i].sync

(* With a limit: the clock of the trace starts with the first query, and   *)
(* each was in time when it was handed over.                               *)
InTime(n) == TimeOf(n) - (now - real_start_ts) <= trace_limit + SLEEP_TIME
ClockInv ==
  trace_limit > 0 /\ ~dist =>
    /\ trace_start_ts = -1 =>
         /\ Taken(pos) = {}
         /\ \A k \in DOMAIN todo : todo[k][2].sync
         /\ \A w \in Workers : \A i \in DOMAIN written[w] : written[w][i].sync
    /\ trace_start_ts # -1 /\ query_pace > 0 => trace_start_ts = 1
    /\ \A k \in DOMAIN todo : ~todo[k][2].sync => InTime(todo[k][2].n)
    /\ \A w \in Workers : \A i \in DOMAIN written[w] : ~written[w][i].sync => InTime(written[w][i].n)

(* What the controller sends: its first message, and no other, is a sync   *)
(* message.                                                                *)
SyncIsFirst ==
  \A s \in Setups : s.dist => \A n \in DOMAIN s.incoming : s.incoming[n].sync <=> n = 1

-----------------------------------------------------------------------------
LEMMA SetupFacts ==
  ASSUME setup \in Setups
  PROVE  /\ Incoming \in Seq(Message) /\ Len(Incoming) \in Nat /\ DOMAIN Incoming = Msgs
         /\ dist \in BOOLEAN /\ disable_mapping \in BOOLEAN
         /\ trace_limit \in Int /\ query_pace \in Int /\ num_clients \in Int
         /\ \A n \in Msgs : /\ n \in Nat /\ n # 0
                            /\ Incoming[n].sync \in BOOLEAN /\ Incoming[n].src \in Srcs
                            /\ Incoming[n].ts \in Nat /\ Incoming[n].raw \in BOOLEAN
         /\ \A w \in Workers : w \in Nat /\ w # 0
<1>1. setup \in Setup  BY ManagerAssumption
<1>2. /\ Incoming \in Seq(Message) /\ dist \in BOOLEAN /\ disable_mapping \in BOOLEAN
      /\ trace_limit \in Int /\ query_pace \in Int /\ num_clients \in Int
  BY <1>1 DEF Setup, Incoming, dist, disable_mapping, trace_limit, query_pace, num_clients
<1>3. Len(Incoming) \in Nat /\ DOMAIN Incoming = Msgs  BY <1>2 DEF Msgs
<1>4. \A n \in Msgs : n \in Nat /\ n # 0 /\ Incoming[n] \in Message  BY <1>2, <1>3 DEF Msgs
<1>5. \A n \in Msgs : /\ Incoming[n].sync \in BOOLEAN /\ Incoming[n].src \in Srcs
                      /\ Incoming[n].ts \in Nat /\ Incoming[n].raw \in BOOLEAN
  BY <1>4 DEF Message
<1>6. \A w \in Workers : w \in Nat /\ w # 0  BY <1>2 DEF Workers
<1> QED BY <1>2, <1>3, <1>4, <1>5, <1>6

(* The options and the input stay as they are.                             *)
LEMMA SetupSame == [MainNext]_allVars => setup' = setup
  BY DEF MainNext, allVars, vars, Next, Write, WriteBlocks, WorkerReads, WorkerRead, WorkerExit,
     WorkerFails, ComConnected, ComSend, ComThread, ComReadCb, ForwardCom, ComReadEnds, ComBevent,
     Reader, SkipInvalid, TakeMessage, Forward, ReadEnds, WriteFails, RandClientFdDies, Tick,
     SignalCb, EventLoop, LoopExit, Join, Parent, CheckOptions, ForkWorker, ForkManager, ForkFails,
     ManagerStarts, IgnoreSigint, WaitEnds, Interrupt

LEMMA SameSetup ==
  ASSUME setup' = setup
  PROVE  /\ Incoming' = Incoming /\ dist' = dist /\ disable_mapping' = disable_mapping
         /\ trace_limit' = trace_limit /\ query_pace' = query_pace /\ num_clients' = num_clients
         /\ Workers' = Workers /\ Msgs' = Msgs /\ Entry' = Entry /\ Unit' = Unit
  BY DEF Incoming, dist, disable_mapping, trace_limit, query_pace, num_clients, Workers, Msgs,
         Entry, Unit

(* The parent forks before there is a manager.                             *)
MainInv == forked \in Nat /\ (main \in {"options", "forking"} => status = "absent")

(* What most steps leave alone.                                            *)
core == <<done_sync_time, client_src2fd, todo, written, pos, com_fail_retry, sending, stream,
          com_msg_buffer, garbled, query_pace_ts, trace_start_ts, real_start_ts>>
Quiet ==
  /\ UNCHANGED core /\ (reader' = reader \/ (Reading /\ reader = "read" /\ reader' = "done"))
  /\ now' \in Nat /\ now' >= now
  /\ com' = com \/ (dist /\ com' = "up")
  /\ in_com_read_cb' => in_com_read_cb
  /\ status = "aborted" => status' = "aborted"

(* The types of the variables outside core.                                *)
PairsType ==
  /\ read \in [Workers -> Nat] /\ \A w \in Workers : read[w] <= Len(written[w])
  /\ alive \subseteq Workers
FlagType ==
  /\ blocked \in BOOLEAN /\ com \in {"connecting", "up"} /\ in_com_read_cb \in BOOLEAN
  /\ reader \in {"read", "forward", "done"} /\ now \in Nat
  /\ signalled \in BOOLEAN /\ loop \in {"dispatch", "done"}
  /\ status \in {"absent", "sleeping", "running", "ended", "aborted"}

LEMMA QuietSteps ==
  ASSUME TypeOK, MainInv, setup' = setup,
         \/ WriteBlocks \/ WorkerReads \/ \E w \in Workers : WorkerExit(w) \/ WorkerFails(w)
         \/ ComConnected \/ ComReadEnds \/ ReadEnds \/ WriteFails \/ RandClientFdDies \/ Tick
         \/ SignalCb \/ EventLoop
         \/ Parent \/ ForkFails \/ ManagerStarts \/ Interrupt \/ UNCHANGED vars
  PROVE  Quiet /\ PairsType' /\ FlagType'
<1>1. /\ Workers' = Workers /\ \A w \in Workers : w \in Nat
      /\ written \in [Workers -> Seq(Entry)] /\ num_clients \in Int
  BY SameSetup, SetupFacts DEF TypeOK
<1>2. PairsType /\ FlagType  BY DEF TypeOK, PairsType, FlagType
<1>3. \A w \in Workers : Len(written[w]) \in Nat  BY <1>1
<1>4. ASSUME UNCHANGED <<written, read, alive>> PROVE PairsType'
  BY <1>1, <1>2, <1>4 DEF PairsType
<1>5. ASSUME UNCHANGED <<blocked, com, in_com_read_cb, reader, now, signalled, loop, status>>
      PROVE  FlagType'
  BY <1>2, <1>5 DEF FlagType
<1>6. ASSUME UNCHANGED core, UNCHANGED <<reader, com, in_com_read_cb, now, status>> PROVE Quiet
  BY <1>2, <1>6 DEF Quiet, FlagType
<1> DEFINE Goal == Quiet /\ PairsType' /\ FlagType'
<1>7. CASE WriteBlocks
  <2>1. UNCHANGED core /\ UNCHANGED <<reader, com, in_com_read_cb, now, status>>
    BY <1>7 DEF WriteBlocks, core, routing, comm, file, end
  <2>2. UNCHANGED <<written, read, alive>>  BY <1>7 DEF WriteBlocks
  <2>3. FlagType'  BY <1>2, <1>7 DEF WriteBlocks, FlagType, comm, file, end
  <2> QED BY <1>4, <1>6, <2>1, <2>2, <2>3
<1>8. ASSUME NEW w \in Workers, WorkerRead(w) PROVE Goal
  <2>1. UNCHANGED core /\ UNCHANGED <<reader, com, in_com_read_cb, now, status>>
    BY <1>8 DEF WorkerRead, core, routing, comm, file, end
  <2>2. UNCHANGED <<blocked, com, in_com_read_cb, reader, now, signalled, loop, status>>
    BY <1>8 DEF WorkerRead, comm, file, end
  <2>3. /\ read' = [read EXCEPT ![w] = @ + 1] /\ read[w] < Len(written[w])
        /\ UNCHANGED <<written, alive>>
    BY <1>8 DEF WorkerRead
  <2>4. read' \in [Workers -> Nat] /\ \A v \in Workers : read'[v] <= Len(written[v])
    BY <1>2, <1>3, <2>3 DEF PairsType
  <2>5. PairsType'  BY <1>1, <1>2, <2>3, <2>4 DEF PairsType
  <2> QED BY <1>5, <1>6, <2>1, <2>2, <2>5
<1>9. ASSUME NEW w \in Workers, WorkerExit(w) \/ WorkerFails(w) PROVE Goal
  <2>1. UNCHANGED core /\ UNCHANGED <<reader, com, in_com_read_cb, now, status>>
    BY <1>9 DEF WorkerExit, WorkerFails, core, routing, comm, file, end
  <2>2. UNCHANGED <<blocked, com, in_com_read_cb, reader, now, signalled, loop, status>>
    BY <1>9 DEF WorkerExit, WorkerFails, comm, file, end
  <2>3. UNCHANGED <<written, read>> /\ alive' = alive \ {w}  BY <1>9 DEF WorkerExit, WorkerFails
  <2>4. PairsType'  BY <1>1, <1>2, <2>3 DEF PairsType
  <2> QED BY <1>5, <1>6, <2>1, <2>2, <2>4
<1>10. CASE \/ ComConnected \/ ComReadEnds \/ ReadEnds \/ WriteFails \/ RandClientFdDies \/ Tick
            \/ SignalCb \/ LoopExit \/ Join \/ ForkManager \/ ManagerStarts \/ Interrupt
  <2>1. UNCHANGED <<core, written, read, alive, blocked>>
    BY <1>10 DEF ComConnected, ComReadEnds, ReadEnds, WriteFails, RandClientFdDies, Tick, SignalCb,
       LoopExit, Join, ForkManager, ManagerStarts, Interrupt, core, routing, pairs, comm, file, end
  <2>2. PairsType'  BY <1>4, <2>1
  <2>3. CASE ComConnected \/ ComReadEnds
    <3>1. /\ UNCHANGED <<blocked, reader, now, signalled, loop, status>>
          /\ com' = com \/ (dist /\ com' = "up")
          /\ in_com_read_cb' \in BOOLEAN /\ (in_com_read_cb' => in_com_read_cb)
      <4>1. CASE ComConnected
        <5>1. /\ UNCHANGED <<blocked, reader, now, signalled, loop, status, in_com_read_cb>>
              /\ dist /\ com' = "up"
          BY <4>1 DEF ComConnected, pairs, file, end
        <5> QED BY <1>2, <5>1 DEF FlagType
      <4>2. CASE ComReadEnds
        <5>1. /\ UNCHANGED <<blocked, reader, now, signalled, loop, status, com>>
              /\ in_com_read_cb' = FALSE
          BY <4>2 DEF ComReadEnds, pairs, file, end
        <5> QED BY <1>2, <5>1 DEF FlagType
      <4> QED BY <2>3, <4>1, <4>2
    <3> QED BY <1>2, <2>1, <2>2, <3>1 DEF Quiet, FlagType
  <2>4. CASE ReadEnds
    <3>1. /\ Reading /\ reader = "read" /\ reader' = "done"
          /\ UNCHANGED <<blocked, com, in_com_read_cb, now, signalled, loop, status>>
      BY <2>4 DEF ReadEnds, pairs, comm, end
    <3> QED BY <1>2, <2>1, <2>2, <3>1 DEF Quiet, FlagType
  <2>5. CASE Tick
    <3>1. now' = now + 1 /\ UNCHANGED <<blocked, com, in_com_read_cb, reader, signalled, loop, status>>
      BY <2>5 DEF Tick, pairs, comm, file, end
    <3> QED BY <1>2, <2>1, <2>2, <3>1 DEF Quiet, FlagType
  <2>6. CASE SignalCb \/ LoopExit
    <3>1. /\ UNCHANGED <<blocked, com, in_com_read_cb, reader, now, status>>
          /\ signalled' \in BOOLEAN /\ loop' \in {"dispatch", "done"}
      BY <1>2, <2>6 DEF SignalCb, LoopExit, FlagType, pairs, comm, file
    <3> QED BY <1>2, <2>1, <2>2, <3>1 DEF Quiet, FlagType
  <2>7. CASE WriteFails \/ RandClientFdDies \/ Join \/ ForkManager \/ ManagerStarts \/ Interrupt
    <3>1. /\ UNCHANGED <<blocked, com, in_com_read_cb, reader, now, loop>>
          /\ signalled' \in BOOLEAN
          /\ status' \in {"absent", "sleeping", "running", "ended", "aborted"}
          /\ status = "aborted" => status' = "aborted"
      BY <1>2, <2>7 DEF WriteFails, RandClientFdDies, Join, ForkManager, ManagerStarts, Interrupt,
         FlagType, MainInv, Running, pairs, comm, file
    <3> QED BY <1>2, <2>1, <2>2, <3>1 DEF Quiet, FlagType
  <2> QED BY <1>10, <2>3, <2>4, <2>5, <2>6, <2>7
<1>11. CASE CheckOptions \/ IgnoreSigint \/ WaitEnds \/ ForkFails \/ UNCHANGED vars
  <2>1. UNCHANGED vars
    BY <1>11 DEF CheckOptions, IgnoreSigint, WaitEnds, ForkFails
  <2>2. UNCHANGED core /\ UNCHANGED <<reader, com, in_com_read_cb, now, status, written, read, alive>>
    BY <2>1 DEF vars, core, routing, pairs, comm, file, end
  <2>3. UNCHANGED <<blocked, com, in_com_read_cb, reader, now, signalled, loop, status>>
    BY <2>1 DEF vars, pairs, comm, file, end
  <2> QED BY <1>4, <1>5, <1>6, <2>2, <2>3
<1>12. CASE ForkWorker
  <2>1. UNCHANGED core /\ UNCHANGED <<reader, com, in_com_read_cb, now, status>>
    BY <1>12 DEF ForkWorker, core, routing, comm, file, end
  <2>2. UNCHANGED <<blocked, com, in_com_read_cb, reader, now, signalled, loop, status>>
    BY <1>12 DEF ForkWorker, comm, file, end
  <2>3. /\ alive' = alive \cup {forked + 1} /\ forked < num_clients
        /\ UNCHANGED <<written, read>>
    BY <1>12 DEF ForkWorker
  <2>4. forked + 1 \in Workers  BY <1>1, <2>3 DEF Workers, MainInv
  <2>5. PairsType'  BY <1>1, <1>2, <2>3, <2>4 DEF PairsType
  <2> QED BY <1>5, <1>6, <2>1, <2>2, <2>5
<1> QED BY <1>7, <1>8, <1>9, <1>10, <1>11, <1>12 DEF WorkerReads, EventLoop, Parent

-----------------------------------------------------------------------------
(* The steps that do something.                                            *)
CoreType ==
  /\ done_sync_time \in BOOLEAN /\ client_src2fd \in [Srcs -> Workers \cup {0}]
  /\ todo \in Seq(Workers \X Entry) /\ written \in [Workers -> Seq(Entry)]
  /\ pos \in 0 .. Len(Incoming)
  /\ com_fail_retry \in 0 .. FAIL_RETRY_LIMIT /\ sending \in 0 .. Len(Incoming)
  /\ stream \in Seq(Unit) /\ com_msg_buffer \in Seq(Unit) /\ garbled \in BOOLEAN
  /\ query_pace_ts \in Nat
  /\ trace_start_ts \in Nat \cup {-1} /\ real_start_ts \in Nat \cup {-1}

LEMMA TypeParts == TypeOK <=> setup \in Setups /\ CoreType /\ PairsType /\ FlagType
  BY DEF TypeOK, CoreType, PairsType, FlagType

LEMMA TakenNext ==
  ASSUME setup \in Setups, NEW n \in Nat, n + 1 \in Msgs
  PROVE  /\ Cardinality(Taken(n)) \in Nat
         /\ Taken(n + 1) = IF Incoming[n + 1].raw THEN Taken(n) \cup {n + 1} ELSE Taken(n)
         /\ Cardinality(Taken(n + 1)) = Cardinality(Taken(n)) + IF Incoming[n + 1].raw THEN 1 ELSE 0
<1>1. IsFiniteSet(1 .. n)  BY FS_Interval
<1>2. IsFiniteSet(Taken(n)) /\ n + 1 \notin Taken(n)  BY <1>1, FS_Subset DEF Taken
<1>3. Cardinality(Taken(n)) \in Nat  BY <1>2, FS_CardinalityType
<1>4. 1 .. n + 1 = (1 .. n) \cup {n + 1}  OBVIOUS
<1>5. Taken(n + 1) = IF Incoming[n + 1].raw THEN Taken(n) \cup {n + 1} ELSE Taken(n)
  BY <1>4 DEF Taken
<1>6. Cardinality(Taken(n) \cup {n + 1}) = Cardinality(Taken(n)) + 1
  BY <1>2, FS_AddElement
<1> QED BY <1>3, <1>5, <1>6

(* write(): the head of todo goes to the end of what its worker was given. *)
LEMMA WriteFacts ==
  ASSUME TypeOK, Write
  PROVE  \E w \in Workers, e \in Entry, m \in Nat :
           /\ m = Len(written[w]) /\ Len(todo) \in Nat /\ 1 \in DOMAIN todo
           /\ w = todo[1][1] /\ e = todo[1][2]
           /\ todo' \in Seq(Workers \X Entry) /\ Len(todo') = Len(todo) - 1
           /\ \A k \in DOMAIN todo' : k \in Nat /\ k >= 1 /\ k + 1 \in DOMAIN todo /\ todo'[k] = todo[k + 1]
           /\ written' \in [Workers -> Seq(Entry)]
           /\ \A v \in Workers : v # w => written'[v] = written[v]
           /\ DOMAIN written[w] = 1 .. m /\ DOMAIN written'[w] = 1 .. m + 1
           /\ Len(written'[w]) = m + 1
           /\ written'[w][m + 1] = e
           /\ \A i \in 1 .. m : written'[w][i] = written[w][i]
           /\ UNCHANGED <<setup, done_sync_time, client_src2fd, read, alive, pos, com, com_fail_retry,
                          sending, stream, com_msg_buffer, in_com_read_cb, garbled, reader,
                          query_pace_ts, trace_start_ts, real_start_ts, now, status>>
<1>1. todo \in Seq(Workers \X Entry) /\ written \in [Workers -> Seq(Entry)] /\ todo # <<>>
  BY DEF TypeOK, Write
<1>2. Len(todo) \in Nat /\ Len(todo) >= 1 /\ 1 \in DOMAIN todo /\ Head(todo) = todo[1]  BY <1>1
<1>3. PICK w \in Workers, e \in Entry : w = todo[1][1] /\ e = todo[1][2]  BY <1>1, <1>2
<1>4. PICK m \in Nat : m = Len(written[w])  BY <1>1
<1>5. /\ todo' \in Seq(Workers \X Entry) /\ Len(todo') = Len(todo) - 1
      /\ \A k \in DOMAIN todo' : k \in Nat /\ k >= 1 /\ k + 1 \in DOMAIN todo /\ todo'[k] = todo[k + 1]
  BY <1>1, <1>2 DEF Write
<1>6. written' = [written EXCEPT ![w] = Append(@, e)]  BY <1>2, <1>3 DEF Write, Target
<1>7. written'[w] = Append(written[w], e) /\ \A v \in Workers : v # w => written'[v] = written[v]
  BY <1>1, <1>6
<1>8. written[w] \in Seq(Entry)  BY <1>1
<1>9. Append(written[w], e) \in Seq(Entry)  BY <1>8
<1>10. written' \in [Workers -> Seq(Entry)]  BY <1>1, <1>6, <1>9
<1>11. /\ DOMAIN written[w] = 1 .. m /\ DOMAIN written'[w] = 1 .. m + 1
       /\ Len(written'[w]) = m + 1
       /\ written'[w][m + 1] = e
       /\ \A i \in 1 .. m : written'[w][i] = written[w][i]
  BY <1>4, <1>7, <1>8
<1>12. UNCHANGED <<setup, done_sync_time, client_src2fd, read, alive, pos, com, com_fail_retry,
                   sending, stream, com_msg_buffer, in_com_read_cb, garbled, reader,
                   query_pace_ts, trace_start_ts, real_start_ts, now, status>>
  BY DEF Write, routing, comm, file, end
<1> QED BY <1>2, <1>3, <1>4, <1>5, <1>7, <1>10, <1>11, <1>12

(* The commander writes a message: two units at the end of the stream.     *)
LEMMA ComSendFacts ==
  ASSUME TypeOK, ComSend
  PROVE  \E m \in Nat : 
           /\ m = Len(stream) /\ DOMAIN stream = 1 .. m /\ DOMAIN stream' = 1 .. m + 2
           /\ sending' = sending + 1 /\ sending + 1 \in Msgs
           /\ stream' \in Seq(Unit) /\ Len(stream') = m + 2
           /\ \A i \in 1 .. m : stream'[i] = stream[i]
           /\ stream'[m + 1] = [part |-> "length", n |-> sending + 1]
           /\ stream'[m + 2] = [part |-> "body", n |-> sending + 1]
<1>1. stream \in Seq(Unit) /\ sending \in 0 .. Len(Incoming) /\ setup \in Setups  BY DEF TypeOK
<1>2. PICK m \in Nat : m = Len(stream)  BY <1>1
<1>3. sending' = sending + 1 /\ sending < Len(Incoming)  BY DEF ComSend
<1>4. sending + 1 \in Msgs  BY <1>1, <1>3, SetupFacts DEF Msgs
<1>5. PICK a \in Unit : a = [part |-> "length", n |-> sending + 1]  BY <1>4 DEF Unit
<1>6. PICK b \in Unit : b = [part |-> "body", n |-> sending + 1]  BY <1>4 DEF Unit
<1>7. stream' = stream \o <<a, b>>  BY <1>5, <1>6 DEF ComSend
<1>8. <<a, b>> \in Seq(Unit) /\ Len(<<a, b>>) = 2 /\ <<a, b>>[1] = a /\ <<a, b>>[2] = b  OBVIOUS
<1>9. PICK t : t = <<a, b>>  OBVIOUS
<1>10. /\ stream' \in Seq(Unit) /\ Len(stream') = m + 2
       /\ \A i \in 1 .. m + 2 : stream'[i] = IF i <= m THEN stream[i] ELSE t[i - m]
  <2>1. t \in Seq(Unit) /\ Len(t) = 2  BY <1>8, <1>9
  <2>2. stream' = stream \o t  BY <1>7, <1>9
  <2> HIDE <1>7, <1>8, <1>9
  <2>3. /\ stream' \in Seq(Unit) /\ Len(stream') = Len(stream) + Len(t)
        /\ \A i \in 1 .. Len(stream) + Len(t) :
             stream'[i] = IF i <= Len(stream) THEN stream[i] ELSE t[i - Len(stream)]
    BY ONLY <1>1, <2>1, <2>2, ConcatProperties
  <2> QED BY <1>2, <2>1, <2>3
<1>11. stream'[m + 1] = a /\ stream'[m + 2] = b
  <2>1. t[1] = a /\ t[2] = b  BY <1>8, <1>9
  <2> HIDE <1>9
  <2>2. stream'[m + 1] = t[1] /\ stream'[m + 2] = t[2]
    <3>1. (m + 1) - m = 1 /\ (m + 2) - m = 2  OBVIOUS
    <3> QED BY <1>10, <3>1
  <2> QED BY <2>1, <2>2
<1>12. DOMAIN stream = 1 .. m /\ DOMAIN stream' = 1 .. m + 2  BY <1>1, <1>2, <1>10
<1> QED BY <1>2, <1>3, <1>4, <1>5, <1>6, <1>10, <1>11, <1>12, SMTT(60)

(* com_read_cb moves k units from the stream to the buffer.                *)
LEMMA ComReadFacts ==
  ASSUME TypeOK, NEW k \in 1 .. Len(stream), ComReadCb(k)
  PROVE  \E b, m \in Nat :
           /\ b = Len(com_msg_buffer) /\ m = Len(stream) /\ k \in 1 .. m
           /\ DOMAIN com_msg_buffer = 1 .. b /\ DOMAIN stream = 1 .. m
           /\ com_msg_buffer' \in Seq(Unit) /\ Len(com_msg_buffer') = b + k
           /\ DOMAIN com_msg_buffer' = 1 .. b + k
           /\ stream' \in Seq(Unit) /\ Len(stream') = m - k /\ DOMAIN stream' = 1 .. m - k
           /\ \A i \in 1 .. b : com_msg_buffer'[i] = com_msg_buffer[i]
           /\ \A i \in b + 1 .. b + k : com_msg_buffer'[i] = stream[i - b]
           /\ \A i \in 1 .. m - k : stream'[i] = stream[i + k]
<1>1. stream \in Seq(Unit) /\ com_msg_buffer \in Seq(Unit)  BY DEF TypeOK
<1>2. PICK b \in Nat : b = Len(com_msg_buffer)  BY <1>1
<1>3. PICK m \in Nat : m = Len(stream)  BY <1>1
<1>4. \A i \in 1 .. m : stream[i] \in Unit  BY <1>1, <1>3
<1>5. k \in 1 .. m /\ k \in Nat  BY <1>3
<1>6. PICK t : t = SubSeq(stream, 1, k)  OBVIOUS
<1>7. t \in Seq(Unit) /\ Len(t) = k /\ \A i \in 1 .. k : t[i] = stream[i]
  <2>1. \A i \in 1 .. k : stream[i] \in Unit  BY <1>4, <1>5
  <2> QED BY <1>5, <1>6, <2>1, SubSeqProperties
<1>8. com_msg_buffer' = com_msg_buffer \o t  BY <1>6 DEF ComReadCb
<1>9. stream' = SubSeq(stream, k + 1, m)  BY <1>3 DEF ComReadCb
<1>10. /\ stream' \in Seq(Unit) /\ Len(stream') = m - k
       /\ \A i \in 1 .. m - k : stream'[i] = stream[i + k]
  <2>1. \A i \in k + 1 .. m : stream[i] \in Unit  BY <1>4, <1>5
  <2>2. /\ stream' \in Seq(Unit) /\ Len(stream') = IF k + 1 <= m THEN m - (k + 1) + 1 ELSE 0
        /\ \A i \in 1 .. m - (k + 1) + 1 : stream'[i] = stream[k + 1 + i - 1]
    BY <1>5, <1>9, <2>1, SubSeqProperties
  <2>3. \A i \in 1 .. m - k : k + 1 + i - 1 = i + k /\ i \in 1 .. m - (k + 1) + 1  BY <1>5
  <2> QED BY <1>5, <2>2, <2>3
<1> HIDE <1>6, <1>9
<1>11. /\ com_msg_buffer' \in Seq(Unit) /\ Len(com_msg_buffer') = b + k
       /\ \A i \in 1 .. b + k : com_msg_buffer'[i] = IF i <= b THEN com_msg_buffer[i] ELSE t[i - b]
  BY <1>1, <1>2, <1>7, <1>8, ConcatProperties, ZenonT(60)
<1> HIDE <1>8
<1>12. \A i \in 1 .. b : com_msg_buffer'[i] = com_msg_buffer[i]  BY <1>5, <1>11
<1>13. \A i \in b + 1 .. b + k : com_msg_buffer'[i] = stream[i - b]
  <2>1. \A i \in b + 1 .. b + k : i - b \in 1 .. k /\ i \in 1 .. b + k /\ ~(i <= b)  BY <1>5
  <2> QED BY <1>7, <1>11, <2>1
<1>14. /\ DOMAIN com_msg_buffer = 1 .. b /\ DOMAIN stream = 1 .. m
       /\ DOMAIN com_msg_buffer' = 1 .. b + k /\ DOMAIN stream' = 1 .. m - k
  BY <1>1, <1>2, <1>3, <1>10, <1>11
<1> QED BY <1>2, <1>3, <1>5, <1>10, <1>11, <1>12, <1>13, <1>14

(* One message of the loop takes two units from the buffer.                *)
LEMMA ForwardComFacts ==
  ASSUME TypeOK, ForwardCom
  PROVE  \E b \in Nat :
           /\ b = Len(com_msg_buffer) /\ b >= 2 /\ DOMAIN com_msg_buffer = 1 .. b
           /\ com_msg_buffer' \in Seq(Unit) /\ Len(com_msg_buffer') = b - 2
           /\ DOMAIN com_msg_buffer' = 1 .. b - 2
           /\ \A i \in 1 .. b - 2 : com_msg_buffer'[i] = com_msg_buffer[i + 2]
           /\ com_msg_buffer[1] \in Unit /\ com_msg_buffer[2] \in Unit /\ Cut \in Msgs
<1>1. com_msg_buffer \in Seq(Unit)  BY DEF TypeOK
<1>2. PICK b \in Nat : b = Len(com_msg_buffer) /\ b >= 2  BY <1>1 DEF ForwardCom
<1>3. \A i \in 1 .. b : com_msg_buffer[i] \in Unit  BY <1>1, <1>2
<1>4. com_msg_buffer' = SubSeq(com_msg_buffer, 3, b)  BY <1>2 DEF ForwardCom
<1>5. \A i \in 3 .. b : com_msg_buffer[i] \in Unit  BY <1>3
<1>6. /\ com_msg_buffer' \in Seq(Unit) /\ Len(com_msg_buffer') = IF 3 <= b THEN b - 3 + 1 ELSE 0
      /\ \A i \in 1 .. b - 3 + 1 : com_msg_buffer'[i] = com_msg_buffer[3 + i - 1]
  BY <1>4, <1>5, SubSeqProperties
<1>7. \A i \in 1 .. b - 2 : i \in 1 .. b - 3 + 1 /\ 3 + i - 1 = i + 2  BY <1>2
<1>8. Len(com_msg_buffer') = b - 2 /\ \A i \in 1 .. b - 2 : com_msg_buffer'[i] = com_msg_buffer[i + 2]
  BY <1>2, <1>6, <1>7
<1>9. DOMAIN com_msg_buffer = 1 .. b /\ DOMAIN com_msg_buffer' = 1 .. b - 2  BY <1>1, <1>2, <1>6, <1>8
<1>10. com_msg_buffer[1] \in Unit /\ com_msg_buffer[2] \in Unit  BY <1>2, <1>3
<1>11. Cut \in Msgs  BY <1>10 DEF Unit, Cut
<1> QED BY <1>2, <1>6, <1>8, <1>9, <1>10, <1>11

LEMMA ToAllFacts ==
  ASSUME setup \in Setups, NEW n \in Msgs
  PROVE  /\ ToAll(n) \in Seq(Workers \X Entry)
         /\ Len(ToAll(n)) = (IF num_clients > 0 THEN num_clients ELSE 0) /\ DOMAIN ToAll(n) = Workers
         /\ \A k \in Workers : ToAll(n)[k][1] = k /\ ToAll(n)[k][2] = [sync |-> TRUE, n |-> n]
<1>1. num_clients \in Int  BY SetupFacts
<1>2. PICK c \in Nat : c = IF num_clients > 0 THEN num_clients ELSE 0  BY <1>1
<1>3. Workers = 1 .. c  BY <1>1, <1>2 DEF Workers
<1>4. [sync |-> TRUE, n |-> n] \in Entry  BY DEF Entry
<1>5. ToAll(n) = [w \in 1 .. c |-> <<w, [sync |-> TRUE, n |-> n]>>]  BY <1>3 DEF ToAll
<1>6. ToAll(n) \in [1 .. c -> Workers \X Entry]
  <2>1. PICK e \in Entry : e = [sync |-> TRUE, n |-> n]  BY <1>4
  <2>2. \A w \in 1 .. c : <<w, e>> \in Workers \X Entry  BY <1>3
  <2>3. ToAll(n) = [w \in 1 .. c |-> <<w, e>>]  BY <1>5, <2>1
  <2> QED BY <2>2, <2>3
<1>7. ToAll(n) \in Seq(Workers \X Entry)
  <2>1. PICK S : S = Workers \X Entry  OBVIOUS
  <2>2. PICK f \in [1 .. c -> S] : f = ToAll(n)  BY <1>6, <2>1
  <2>3. f \in Seq(S)  BY ONLY SeqDef, c \in Nat, f \in [1 .. c -> S]
  <2> QED BY <2>1, <2>2, <2>3
<1>8. Len(ToAll(n)) = c /\ DOMAIN ToAll(n) = 1 .. c  BY <1>2, <1>6, <1>7
<1>9. \A k \in 1 .. c : ToAll(n)[k][1] = k /\ ToAll(n)[k][2] = [sync |-> TRUE, n |-> n]
  BY <1>5
<1> QED BY <1>2, <1>3, <1>7, <1>8, <1>9

(* A handler that makes one write().                                       *)
LEMMA OneWrite ==
  ASSUME NEW w \in Workers, NEW e \in Entry, todo' = <<<<w, e>>>>
  PROVE  /\ todo' \in Seq(Workers \X Entry) /\ Len(todo') = 1 /\ DOMAIN todo' = {1}
         /\ todo'[1][1] = w /\ todo'[1][2] = e
<1>1. PICK x \in Workers \X Entry : x = <<w, e>>  OBVIOUS
<1>2. x[1] = w /\ x[2] = e  BY <1>1
<1>3. todo' = <<x>>  BY <1>1
<1> HIDE <1>1
<1> QED BY <1>2, <1>3

(* rand_client_fd: a source that has a worker keeps it.                    *)
LEMMA RandClientFdFacts ==
  ASSUME setup \in Setups, client_src2fd \in [Srcs -> Workers \cup {0}],
         NEW src \in Srcs, NEW w \in Workers, RandClientFd(src, w)
  PROVE  /\ client_src2fd' \in [Srcs -> Workers \cup {0}]
         /\ \A s \in Srcs, v \in Workers : client_src2fd[s] = v => client_src2fd'[s] = v
         /\ ~disable_mapping => client_src2fd'[src] = w
<1>1. \A v \in Workers : v # 0  BY SetupFacts
<1>2. CASE UNCHANGED client_src2fd /\ (disable_mapping \/ client_src2fd[src] = w)
  BY <1>2
<1>3. CASE client_src2fd[src] = 0 /\ client_src2fd' = [client_src2fd EXCEPT ![src] = w]
  BY <1>1, <1>3
<1> QED BY <1>2, <1>3 DEF RandClientFd

(* main and status.                                                        *)
LEMMA MainSteps ==
  ASSUME TypeOK, MainInv, [MainNext]_allVars
  PROVE  MainInv'
<1>1. num_clients \in Int  BY SetupFacts DEF TypeOK
<1>2. CASE Next /\ UNCHANGED mainVars
  <2>1. UNCHANGED <<main, forked>>  BY <1>2 DEF mainVars
  <2>2. Running \/ UNCHANGED status
    BY <1>2 DEF Next, Write, WriteBlocks, WorkerReads, WorkerRead, WorkerExit,
       WorkerFails, ComConnected, ComSend, ComThread, ComReadCb, ForwardCom, ComReadEnds, ComBevent,
       Reader, SkipInvalid, TakeMessage, Forward, ReadEnds, WriteFails, RandClientFdDies, Tick,
       SignalCb, EventLoop, LoopExit, Join, end
  <2> QED BY <2>1, <2>2 DEF MainInv, Running
<1>3. CASE Parent \/ ForkFails
  <2>1. CASE CheckOptions  BY <2>1 DEF CheckOptions, MainInv, vars, end
  <2>2. CASE ForkWorker  BY <2>2 DEF ForkWorker, MainInv, end
  <2>3. CASE ForkManager \/ IgnoreSigint \/ WaitEnds \/ ForkFails
    BY <2>3 DEF ForkManager, IgnoreSigint, WaitEnds, ForkFails, MainInv, vars, end
  <2> QED BY <1>3, <2>1, <2>2, <2>3 DEF Parent
<1>4. CASE ManagerStarts \/ Interrupt
  BY <1>4 DEF ManagerStarts, Interrupt, mainVars, MainInv
<1>5. CASE UNCHANGED allVars
  BY <1>5 DEF allVars, vars, end, mainVars, MainInv
<1> QED BY <1>2, <1>3, <1>4, <1>5 DEF MainNext

-----------------------------------------------------------------------------
(* Types, modes and the paced time.                                        *)
LEMMA QuietBase ==
  ASSUME TypeOK, ModeInv, PaceInv, setup' = setup, Quiet, FlagType'
  PROVE  CoreType' /\ ModeInv' /\ PaceInv'
<1>1. UNCHANGED <<done_sync_time, client_src2fd, todo, written, pos, com_fail_retry, sending, stream,
                  com_msg_buffer, garbled, query_pace_ts, trace_start_ts, real_start_ts>>
  BY DEF Quiet, core
<1>2. /\ Incoming' = Incoming /\ dist' = dist /\ query_pace' = query_pace /\ Workers' = Workers
      /\ Entry' = Entry /\ Unit' = Unit
  BY SameSetup
<1>3. CoreType  BY TypeParts
<1>4. CoreType'  BY <1>1, <1>2, <1>3 DEF CoreType
<1>5. Next1' = Next1 /\ Taken(pos)' = Taken(pos)  BY <1>1, <1>2 DEF Next1, Taken
<1>6. reader' = "forward" => reader = "forward"  BY DEF Quiet
<1>7. reader' = "forward" <=> reader = "forward"  BY DEF Quiet
<1>8. PaceInv'  BY <1>1, <1>2, <1>5, <1>7 DEF PaceInv
<1>9. ModeInv'
  <2>1. /\ ~dist => com' = com /\ ~in_com_read_cb'
        /\ dist => reader' = "done"
        /\ status' # "aborted" => status # "aborted"
    BY DEF Quiet, ModeInv, Reading
  <2> QED BY <1>1, <1>2, <1>5, <1>6, <2>1 DEF ModeInv
<1> QED BY <1>4, <1>8, <1>9

LEMMA WriteBase ==
  ASSUME TypeOK, ModeInv, PaceInv, Write
  PROVE  CoreType' /\ PairsType' /\ FlagType' /\ ModeInv' /\ PaceInv'
<1>1. PICK w \in Workers, e \in Entry, m \in Nat :
           /\ m = Len(written[w])
           /\ todo' \in Seq(Workers \X Entry)
           /\ written' \in [Workers -> Seq(Entry)]
           /\ \A v \in Workers : v # w => written'[v] = written[v]
           /\ Len(written'[w]) = m + 1
           /\ UNCHANGED <<setup, done_sync_time, client_src2fd, read, alive, pos, com, com_fail_retry,
                          sending, stream, com_msg_buffer, in_com_read_cb, garbled, reader,
                          query_pace_ts, trace_start_ts, real_start_ts, now, status>>
  BY WriteFacts, SMTT(60)
<1>2. /\ Incoming' = Incoming /\ dist' = dist /\ query_pace' = query_pace /\ Workers' = Workers
      /\ Entry' = Entry /\ Unit' = Unit
  BY <1>1, SameSetup
<1>3. CoreType /\ PairsType /\ FlagType  BY TypeParts
<1>4. CoreType'  BY <1>1, <1>2, <1>3 DEF CoreType
<1>5. PairsType'
  <2>1. \A v \in Workers : read[v] \in Nat /\ read[v] <= Len(written[v])  BY <1>3 DEF PairsType
  <2>2. \A v \in Workers : read[v] <= Len(written'[v])  BY <1>1, <2>1
  <2> QED BY <1>1, <1>2, <1>3, <2>2 DEF PairsType
<1>6. FlagType'  BY <1>1, <1>3 DEF FlagType, Write, end
<1>7. Next1' = Next1 /\ Taken(pos)' = Taken(pos)  BY <1>1, <1>2 DEF Next1, Taken
<1>8. ModeInv' /\ PaceInv'  BY <1>1, <1>2, <1>7 DEF ModeInv, PaceInv
<1> QED BY <1>4, <1>5, <1>6, <1>8

(* The steps of the commander's connection leave the rest alone.           *)
LEMMA ComBase ==
  ASSUME TypeOK, ModeInv, PaceInv, setup' = setup,
         UNCHANGED <<written, read, alive, blocked, reader, query_pace_ts, trace_start_ts,
                     real_start_ts, now, signalled, loop>>,
         dist, CoreType', com' \in {"connecting", "up"}, in_com_read_cb' \in BOOLEAN,
         \/ status' = "aborted"
         \/ status' = status /\ (com_fail_retry' = com_fail_retry \/ com_fail_retry' < FAIL_RETRY_LIMIT),
         pos' <= sending'
  PROVE  PairsType' /\ FlagType' /\ ModeInv' /\ PaceInv'
<1>2. Incoming' = Incoming /\ dist' = dist /\ Workers' = Workers  BY SameSetup
<1>3. PairsType /\ FlagType  BY TypeParts
<1>4. PairsType'  BY <1>2, <1>3 DEF PairsType
<1>5. FlagType'  BY <1>3 DEF FlagType
<1>6. ModeInv' /\ PaceInv'  BY <1>2 DEF ModeInv, PaceInv
<1> QED BY <1>4, <1>5, <1>6

LEMMA ComSendBase ==
  ASSUME TypeOK, ModeInv, PaceInv, ComSend
  PROVE  dist /\ CoreType' /\ PairsType' /\ FlagType' /\ ModeInv' /\ PaceInv'
<1>1. PICK m \in Nat : sending' = sending + 1 /\ sending + 1 \in Msgs /\ stream' \in Seq(Unit)
  BY ComSendFacts
<1>2. /\ UNCHANGED <<setup, done_sync_time, client_src2fd, todo, blocked, written, read, alive, pos, com,
                     com_fail_retry, com_msg_buffer, in_com_read_cb, garbled, reader, query_pace_ts,
                     trace_start_ts, real_start_ts, now, signalled, loop, status>>
      /\ com = "up"
  BY DEF ComSend, routing, pairs, file, end
<1>3. Incoming' = Incoming /\ Workers' = Workers /\ Entry' = Entry /\ Unit' = Unit  BY <1>2, SameSetup
<1>4. CoreType /\ FlagType /\ setup \in Setups  BY TypeParts
<1>5. CoreType'
  <2>1. sending + 1 \in 0 .. Len(Incoming)  BY <1>1, <1>4, SetupFacts DEF Msgs
  <2> QED BY <1>1, <1>2, <1>3, <1>4, <2>1 DEF CoreType
<1>6. dist  BY <1>2 DEF ModeInv
<1>7. pos' <= sending'
  <2>1. pos <= sending /\ pos \in Nat /\ sending \in Nat  BY <1>4, <1>6, SetupFacts DEF ModeInv, CoreType
  <2> QED BY <1>1, <1>2, <2>1
<1>8. com' \in {"connecting", "up"} /\ in_com_read_cb' \in BOOLEAN  BY <1>2, <1>4 DEF FlagType
<1> QED BY <1>2, <1>5, <1>6, <1>7, <1>8, ComBase

LEMMA ComReadBase ==
  ASSUME TypeOK, ModeInv, PaceInv, NEW k \in 1 .. Len(stream), ComReadCb(k)
  PROVE  dist /\ CoreType' /\ PairsType' /\ FlagType' /\ ModeInv' /\ PaceInv'
<1>1. stream' \in Seq(Unit) /\ com_msg_buffer' \in Seq(Unit)  BY ComReadFacts
<1>2. /\ UNCHANGED <<setup, done_sync_time, client_src2fd, todo, blocked, written, read, alive, pos, com,
                     com_fail_retry, sending, garbled, reader, query_pace_ts,
                     trace_start_ts, real_start_ts, now, signalled, loop, status>>
      /\ in_com_read_cb' = TRUE /\ dist
  BY DEF ComReadCb, routing, pairs, file, end
<1>3. Incoming' = Incoming /\ Workers' = Workers /\ Entry' = Entry /\ Unit' = Unit  BY <1>2, SameSetup
<1>4. CoreType /\ FlagType /\ setup \in Setups  BY TypeParts
<1>5. CoreType'  BY <1>1, <1>2, <1>3, <1>4 DEF CoreType
<1>6. pos' <= sending'  BY <1>2 DEF ModeInv
<1>7. com' \in {"connecting", "up"} /\ in_com_read_cb' \in BOOLEAN  BY <1>2, <1>4 DEF FlagType
<1> QED BY <1>2, <1>5, <1>6, <1>7, ComBase

LEMMA ComBeventBase ==
  ASSUME TypeOK, ModeInv, PaceInv, ComBevent
  PROVE  dist /\ CoreType' /\ PairsType' /\ FlagType' /\ ModeInv' /\ PaceInv'
<1>1. /\ UNCHANGED <<setup, done_sync_time, client_src2fd, todo, blocked, written, read, alive, pos,
                     sending, com_msg_buffer, garbled, in_com_read_cb, reader, query_pace_ts,
                     trace_start_ts, real_start_ts, now, signalled, loop>>
      /\ dist /\ status = "running" /\ com_fail_retry' = com_fail_retry + 1
      /\ com' = "connecting" /\ stream' = <<>>
      /\ status' = IF com_fail_retry' >= FAIL_RETRY_LIMIT THEN "aborted" ELSE status
  BY DEF ComBevent, Running, routing, pairs, file
<1>2. Incoming' = Incoming /\ Workers' = Workers /\ Entry' = Entry /\ Unit' = Unit  BY <1>1, SameSetup
<1>3. CoreType /\ FlagType /\ setup \in Setups  BY TypeParts
<1>4. com_fail_retry < FAIL_RETRY_LIMIT /\ com_fail_retry \in Nat /\ FAIL_RETRY_LIMIT \in Nat
  BY <1>1, <1>3, ManagerAssumption DEF ModeInv, CoreType
<1>5. com_fail_retry' \in 0 .. FAIL_RETRY_LIMIT  BY <1>1, <1>4
<1>6. stream' \in Seq(Unit)  BY <1>1
<1>7. CoreType'  BY <1>1, <1>2, <1>3, <1>5, <1>6 DEF CoreType
<1>8. pos' <= sending'  BY <1>1 DEF ModeInv
<1>9. \/ status' = "aborted"
      \/ status' = status /\ (com_fail_retry' = com_fail_retry \/ com_fail_retry' < FAIL_RETRY_LIMIT)
  BY <1>1, <1>4, <1>5
<1>10. com' \in {"connecting", "up"} /\ in_com_read_cb' \in BOOLEAN  BY <1>1, <1>3 DEF FlagType
<1> QED BY <1>1, <1>7, <1>8, <1>9, <1>10, ComBase

(* What the loop of com_read_cb does with the message it has cut.          *)
LEMMA ForwardComCases ==
  ASSUME TypeOK, ForwardCom
  PROVE  /\ in_com_read_cb /\ todo = <<>> /\ pos' = Cut /\ Cut \in Msgs
         /\ UNCHANGED <<setup, blocked, written, read, alive, com, com_fail_retry, sending, stream,
                        in_com_read_cb, reader, query_pace_ts, trace_start_ts, real_start_ts, now,
                        signalled, loop, status>>
         /\ \/ /\ FirstSync /\ done_sync_time' = TRUE /\ todo' = ToAll(Cut)
               /\ UNCHANGED <<client_src2fd, garbled>>
            \/ /\ Whole /\ ~FirstSync /\ UNCHANGED <<done_sync_time, garbled>>
               /\ \E w \in Workers : \E e \in Entry :
                    /\ RandClientFd(Incoming[Cut].src, w) /\ todo' = <<<<w, e>>>>
                    /\ e.sync = Incoming[Cut].sync /\ e.n = Cut
            \/ /\ ~Whole /\ garbled' = TRUE /\ UNCHANGED <<done_sync_time, client_src2fd>>
               /\ \E w \in Workers : \E e \in Entry :
                    todo' = <<<<w, e>>>> /\ e.sync = FALSE /\ e.n = 0
<1>1. Cut \in Msgs  BY ForwardComFacts
<1>2. Incoming[Cut].sync \in BOOLEAN  BY <1>1, SetupFacts DEF TypeOK
<1>3. /\ in_com_read_cb /\ todo = <<>> /\ pos' = Cut
      /\ UNCHANGED <<setup, blocked, written, read, alive, com, com_fail_retry, sending, stream,
                     in_com_read_cb, reader, query_pace_ts, trace_start_ts, real_start_ts, now,
                     signalled, loop, status>>
  BY DEF ForwardCom, file, end
<1>4. PICK e1 \in Entry : e1 = [sync |-> Incoming[Cut].sync, n |-> Cut]  BY <1>1, <1>2 DEF Entry
<1>5. PICK e2 \in Entry : e2 = [sync |-> FALSE, n |-> 0]  BY DEF Entry
<1>6. e1.sync = Incoming[Cut].sync /\ e1.n = Cut /\ e2.sync = FALSE /\ e2.n = 0  BY <1>4, <1>5
<1>7. CASE FirstSync /\ done_sync_time' = TRUE /\ todo' = ToAll(Cut) /\ UNCHANGED <<client_src2fd, garbled>>
  BY <1>1, <1>3, <1>7
<1>8. CASE /\ Whole /\ ~FirstSync /\ UNCHANGED <<done_sync_time, garbled>>
           /\ \E w \in Workers : /\ RandClientFd(Incoming[Cut].src, w)
                                 /\ todo' = <<<<w, [sync |-> Incoming[Cut].sync, n |-> Cut]>>>>
  <2>1. PICK w \in Workers : RandClientFd(Incoming[Cut].src, w) /\ todo' = <<<<w, e1>>>>  BY <1>4, <1>8
  <2> QED BY <1>1, <1>3, <1>6, <1>8, <2>1
<1>9. CASE /\ ~Whole /\ garbled' = TRUE /\ UNCHANGED <<done_sync_time, client_src2fd>>
           /\ \E w \in Workers : todo' = <<<<w, [sync |-> FALSE, n |-> 0]>>>>
  <2>1. PICK w \in Workers : todo' = <<<<w, e2>>>>  BY <1>5, <1>9
  <2> QED BY <1>1, <1>3, <1>6, <1>9, <2>1
<1> QED BY <1>7, <1>8, <1>9 DEF ForwardCom

LEMMA ForwardComBase ==
  ASSUME TypeOK, ModeInv, PaceInv, AheadInv, ForwardCom
  PROVE  dist /\ CoreType' /\ PairsType' /\ FlagType' /\ ModeInv' /\ PaceInv'
<1>1. PICK b \in Nat : /\ b >= 2 /\ DOMAIN com_msg_buffer = 1 .. b
                       /\ com_msg_buffer' \in Seq(Unit)
  BY ForwardComFacts
<1>2. /\ in_com_read_cb /\ todo = <<>> /\ pos' = Cut /\ Cut \in Msgs
      /\ UNCHANGED <<setup, blocked, written, read, alive, com, com_fail_retry, sending, stream,
                     in_com_read_cb, reader, query_pace_ts, trace_start_ts, real_start_ts, now,
                     signalled, loop, status>>
  BY ForwardComCases
<1>3. dist  BY <1>2 DEF ModeInv
<1>4. Incoming' = Incoming /\ Workers' = Workers /\ Entry' = Entry /\ Unit' = Unit  BY <1>2, SameSetup
<1>5. CoreType /\ FlagType /\ setup \in Setups  BY TypeParts
<1>6. pos' <= sending' /\ pos' \in 0 .. Len(Incoming)
  <2>1. com_msg_buffer[1].n <= sending  BY <1>1 DEF AheadInv
  <2> QED BY <1>2, <1>5, <2>1, SetupFacts DEF Cut, Msgs
<1>7. Incoming[Cut].src \in Srcs /\ Incoming[Cut].sync \in BOOLEAN  BY <1>2, <1>5, SetupFacts
<1>8. /\ todo' \in Seq(Workers \X Entry) /\ client_src2fd' \in [Srcs -> Workers \cup {0}]
      /\ done_sync_time' \in BOOLEAN /\ garbled' \in BOOLEAN
  <2>1. CASE FirstSync /\ done_sync_time' = TRUE /\ todo' = ToAll(Cut) /\ UNCHANGED <<client_src2fd, garbled>>
    BY <1>2, <1>5, <2>1, ToAllFacts DEF CoreType
  <2>2. ASSUME NEW w \in Workers, NEW e \in Entry, UNCHANGED <<done_sync_time, garbled>>,
               RandClientFd(Incoming[Cut].src, w), todo' = <<<<w, e>>>>
        PROVE  <1>8!1 /\ <1>8!2
    BY <1>5, <1>7, <2>2, OneWrite, RandClientFdFacts DEF CoreType
  <2>3. ASSUME NEW w \in Workers, NEW e \in Entry, garbled' = TRUE,
               UNCHANGED <<done_sync_time, client_src2fd>>, todo' = <<<<w, e>>>>
        PROVE  <1>8!1 /\ <1>8!2
    BY <1>5, <2>3, OneWrite DEF CoreType
  <2> QED BY <2>1, <2>2, <2>3, ForwardComCases
<1>9. CoreType'  BY <1>1, <1>2, <1>4, <1>5, <1>6, <1>8 DEF CoreType
<1>10. com' \in {"connecting", "up"} /\ in_com_read_cb' \in BOOLEAN  BY <1>2, <1>5 DEF FlagType
<1> QED BY <1>2, <1>3, <1>6, <1>9, <1>10, ComBase

(* The thread that reads a file.                                           *)
LEMMA ReaderBase ==
  ASSUME TypeOK, ModeInv, setup' = setup, ~dist,
         UNCHANGED <<written, read, alive, blocked, com, com_fail_retry, sending, stream,
                     com_msg_buffer, in_com_read_cb, garbled, now, signalled, loop, status>>,
         reader' \in {"read", "forward"}, CoreType',
         reader' = "forward" => pos < Len(Incoming) /\ Next1.raw /\ done_sync_time' /\ pos' = pos
  PROVE  PairsType' /\ FlagType' /\ ModeInv'
<1>1. Incoming' = Incoming /\ dist' = dist /\ Workers' = Workers  BY SameSetup
<1>2. PairsType /\ FlagType  BY TypeParts
<1>3. PairsType'  BY <1>1, <1>2 DEF PairsType
<1>4. FlagType'  BY <1>2 DEF FlagType
<1>5. reader' = "forward" => Next1' = Next1  BY <1>1 DEF Next1
<1>6. ModeInv'  BY <1>1, <1>5 DEF ModeInv
<1> QED BY <1>3, <1>4, <1>6

LEMMA SkipBase ==
  ASSUME TypeOK, ModeInv, PaceInv, SkipInvalid
  PROVE  CoreType' /\ PairsType' /\ FlagType' /\ ModeInv' /\ PaceInv'
<1>1. /\ UNCHANGED <<setup, done_sync_time, client_src2fd, todo, written, read, alive, blocked, com,
                     com_fail_retry, sending, stream, com_msg_buffer, in_com_read_cb, garbled, reader,
                     query_pace_ts, trace_start_ts, real_start_ts, now, signalled, loop, status>>
      /\ ~dist /\ reader = "read" /\ pos < Len(Incoming) /\ ~Next1.raw /\ pos' = pos + 1
  BY DEF SkipInvalid, Reading, routing, pairs, comm, file, end
<1>2. /\ Incoming' = Incoming /\ dist' = dist /\ query_pace' = query_pace /\ Workers' = Workers
      /\ Entry' = Entry /\ Unit' = Unit
  BY <1>1, SameSetup
<1>3. CoreType /\ setup \in Setups  BY TypeParts
<1>4. pos \in Nat /\ pos + 1 \in Msgs /\ pos + 1 \in 0 .. Len(Incoming)
  BY <1>1, <1>3, SetupFacts DEF CoreType, Msgs
<1>5. CoreType'  BY <1>1, <1>2, <1>3, <1>4 DEF CoreType
<1>6. PaceInv'
  <2>1. Taken(pos)' = Taken(pos + 1)  BY <1>1, <1>2 DEF Taken
  <2>2. Taken(pos + 1) = Taken(pos)  BY <1>1, <1>3, <1>4, TakenNext DEF Next1
  <2> QED BY <1>1, <1>2, <2>1, <2>2 DEF PaceInv
<1> QED BY <1>1, <1>5, <1>6, ReaderBase

LEMMA TakeBase ==
  ASSUME TypeOK, ModeInv, PaceInv, TakeMessage
  PROVE  CoreType' /\ PairsType' /\ FlagType' /\ ModeInv' /\ PaceInv'
<1>1. /\ UNCHANGED <<setup, client_src2fd, written, read, alive, blocked, com, com_fail_retry,
                     sending, stream, com_msg_buffer, in_com_read_cb, garbled, pos,
                     trace_start_ts, real_start_ts, now, signalled, loop, status>>
      /\ ~dist /\ reader = "read" /\ pos < Len(Incoming) /\ Next1.raw /\ todo = <<>>
      /\ reader' = "forward" /\ done_sync_time' = TRUE
      /\ query_pace_ts' = IF query_pace > 0 THEN query_pace_ts + query_pace ELSE query_pace_ts
      /\ todo' = IF done_sync_time THEN todo ELSE ToAll(pos + 1)
  BY DEF TakeMessage, Reading, comm, end
<1>2. /\ Incoming' = Incoming /\ dist' = dist /\ query_pace' = query_pace /\ Workers' = Workers
      /\ Entry' = Entry /\ Unit' = Unit
  BY <1>1, SameSetup
<1>3. CoreType /\ setup \in Setups  BY TypeParts
<1>4. pos \in Nat /\ pos + 1 \in Msgs /\ query_pace \in Int /\ query_pace_ts \in Nat
  BY <1>1, <1>3, SetupFacts DEF CoreType, Msgs
<1>5. query_pace_ts' \in Nat  BY <1>1, <1>4
<1>6. todo' \in Seq(Workers \X Entry)
  <2>1. ToAll(pos + 1) \in Seq(Workers \X Entry)  BY <1>3, <1>4, ToAllFacts
  <2> QED BY <1>1, <1>3, <2>1 DEF CoreType
<1>7. CoreType'  BY <1>1, <1>2, <1>3, <1>5, <1>6 DEF CoreType
<1>8. PaceInv'
  <2>1. Taken(pos)' = Taken(pos)  BY <1>1, <1>2 DEF Taken
  <2>2. Cardinality(Taken(pos)) \in Nat  BY <1>3, <1>4, TakenNext
  <2> QED BY <1>1, <1>2, <1>4, <2>1, <2>2 DEF PaceInv
<1> QED BY <1>1, <1>7, <1>8, ReaderBase

(* The query goes to the worker of its source.                             *)
LEMMA ForwardFacts ==
  ASSUME TypeOK, ModeInv, PaceInv, Forward
  PROVE  /\ UNCHANGED <<setup, done_sync_time, written, read, alive, blocked, com, com_fail_retry,
                        sending, stream, com_msg_buffer, in_com_read_cb, garbled, query_pace_ts,
                        now, signalled, loop, status>>
         /\ ~dist /\ reader = "forward" /\ Next1.raw /\ todo = <<>> /\ WithinLimit
         /\ reader' = "read" /\ pos' = pos + 1 /\ pos \in Nat /\ pos + 1 \in Msgs
         /\ \E w \in Workers : \E e \in Entry :
              /\ RandClientFd(Incoming[pos + 1].src, w) /\ todo' = <<<<w, e>>>>
              /\ e.sync = FALSE /\ e.n = pos + 1
         /\ Stamp \in Nat /\ now \in Nat
         /\ IF trace_limit > 0 /\ trace_start_ts = -1
              THEN trace_start_ts' = Stamp /\ real_start_ts' = now
              ELSE UNCHANGED <<trace_start_ts, real_start_ts>>
         /\ query_pace > 0 => Stamp = 1 + query_pace * Cardinality(Taken(pos))
<1>1. /\ UNCHANGED <<setup, done_sync_time, written, read, alive, blocked, com, com_fail_retry,
                     sending, stream, com_msg_buffer, in_com_read_cb, garbled, query_pace_ts,
                     now, signalled, loop, status>>
      /\ ~dist /\ reader = "forward" /\ todo = <<>> /\ WithinLimit
      /\ reader' = "read" /\ pos' = pos + 1
  BY DEF Forward, Reading, comm, end
<1>2. CoreType /\ FlagType /\ setup \in Setups  BY TypeParts
<1>3. pos \in Nat /\ pos + 1 \in Msgs /\ Next1.raw /\ query_pace \in Int /\ query_pace_ts \in Nat
  BY <1>1, <1>2, SetupFacts DEF CoreType, Msgs, ModeInv
<1>4. PICK e \in Entry : e = [sync |-> FALSE, n |-> pos + 1]  BY <1>3 DEF Entry
<1>5. e.sync = FALSE /\ e.n = pos + 1  BY <1>4
<1>6. PICK w \in Workers : RandClientFd(Incoming[pos + 1].src, w) /\ todo' = <<<<w, e>>>>
  BY <1>4 DEF Forward, Next1
<1>7. query_pace > 0 => /\ Stamp = 1 + query_pace * Cardinality(Taken(pos))
                        /\ Stamp \in Nat
  <2> SUFFICES ASSUME query_pace > 0 PROVE <1>7!2
    OBVIOUS
  <2>1. PICK c \in Nat : c = Cardinality(Taken(pos))  BY <1>2, <1>3, TakenNext
  <2>2. PICK x : x = query_pace * c  OBVIOUS
  <2>3. x \in Nat  BY <1>3, <2>1, <2>2
  <2>4. query_pace_ts = 1 + x + query_pace  BY <1>1, <2>1, <2>2 DEF PaceInv
  <2>5. Stamp = query_pace_ts - query_pace  BY DEF Stamp
  <2>6. Stamp = 1 + x  BY <1>3, <2>3, <2>4, <2>5
  <2> QED BY <2>1, <2>2, <2>3, <2>6
<1>8. ~(query_pace > 0) => Stamp \in Nat  BY <1>2, <1>3, SetupFacts DEF Stamp, Next1
<1>9. IF trace_limit > 0 /\ trace_start_ts = -1
        THEN trace_start_ts' = Stamp /\ real_start_ts' = now
        ELSE UNCHANGED <<trace_start_ts, real_start_ts>>
  BY DEF Forward
<1>10. now \in Nat  BY <1>2 DEF FlagType
<1> QED BY <1>1, <1>3, <1>5, <1>6, <1>7, <1>8, <1>9, <1>10

LEMMA ForwardBase ==
  ASSUME TypeOK, ModeInv, PaceInv, Forward
  PROVE  CoreType' /\ PairsType' /\ FlagType' /\ ModeInv' /\ PaceInv'
<1>1. /\ UNCHANGED <<setup, done_sync_time, written, read, alive, blocked, com, com_fail_retry,
                     sending, stream, com_msg_buffer, in_com_read_cb, garbled, query_pace_ts,
                     now, signalled, loop, status>>
      /\ ~dist /\ reader = "forward" /\ Next1.raw
      /\ reader' = "read" /\ pos' = pos + 1 /\ pos \in Nat /\ pos + 1 \in Msgs
      /\ Stamp \in Nat /\ now \in Nat
      /\ IF trace_limit > 0 /\ trace_start_ts = -1
           THEN trace_start_ts' = Stamp /\ real_start_ts' = now
           ELSE UNCHANGED <<trace_start_ts, real_start_ts>>
  BY ForwardFacts
<1>2. PICK w \in Workers, e \in Entry : RandClientFd(Incoming[pos + 1].src, w) /\ todo' = <<<<w, e>>>>
  BY ForwardFacts
<1>3. /\ Incoming' = Incoming /\ dist' = dist /\ query_pace' = query_pace /\ Workers' = Workers
      /\ Entry' = Entry /\ Unit' = Unit
  BY <1>1, SameSetup
<1>4. CoreType /\ setup \in Setups  BY TypeParts
<1>5. pos + 1 \in 0 .. Len(Incoming) /\ query_pace \in Int /\ Incoming[pos + 1].src \in Srcs
  BY <1>1, <1>4, SetupFacts DEF Msgs
<1>6. todo' \in Seq(Workers \X Entry)  BY <1>2, OneWrite
<1>7. client_src2fd' \in [Srcs -> Workers \cup {0}]
  BY <1>2, <1>4, <1>5, RandClientFdFacts DEF CoreType
<1>8. trace_start_ts' \in Nat \cup {-1} /\ real_start_ts' \in Nat \cup {-1}  BY <1>1, <1>4 DEF CoreType
<1>9. CoreType'  BY <1>1, <1>3, <1>4, <1>5, <1>6, <1>7, <1>8 DEF CoreType
<1>10. PaceInv'
  <2>1. Taken(pos)' = Taken(pos + 1)  BY <1>1, <1>3 DEF Taken
  <2>2. PICK c \in Nat : c = Cardinality(Taken(pos))  BY <1>1, <1>4, TakenNext
  <2>3. Cardinality(Taken(pos + 1)) = c + 1  BY <1>1, <1>4, <2>2, TakenNext DEF Next1
  <2>4. query_pace * (c + 1) = query_pace * c + query_pace  BY <1>5
  <2>5. query_pace > 0 => query_pace_ts = 1 + query_pace * c + query_pace
    BY <1>1, <2>2 DEF PaceInv
  <2>6. query_pace > 0 => query_pace_ts = 1 + query_pace * (c + 1) + 0
    <3>1. PICK x \in Int : x = query_pace * c  BY <1>5
    <3> QED BY <1>5, <2>4, <2>5, <3>1
  <2> QED BY <1>1, <1>3, <2>1, <2>3, <2>6 DEF PaceInv
<1> QED BY <1>1, <1>9, <1>10, ReaderBase

-----------------------------------------------------------------------------
(* The order of the commander's units.                                     *)
ComInv == OrderInv /\ AheadInv

LEMMA UnitFacts ==
  ASSUME TypeOK
  PROVE  /\ \A i \in DOMAIN com_msg_buffer :
              /\ i \in Nat /\ i >= 1 /\ com_msg_buffer[i].n \in Nat /\ Rank(com_msg_buffer[i]) \in Nat
              /\ 2 * com_msg_buffer[i].n <= Rank(com_msg_buffer[i])
              /\ Rank(com_msg_buffer[i]) <= 2 * com_msg_buffer[i].n + 1
         /\ \A i \in DOMAIN stream :
              /\ i \in Nat /\ i >= 1 /\ stream[i].n \in Nat /\ Rank(stream[i]) \in Nat
              /\ 2 * stream[i].n <= Rank(stream[i]) /\ Rank(stream[i]) <= 2 * stream[i].n + 1
<1>1. stream \in Seq(Unit) /\ com_msg_buffer \in Seq(Unit) /\ setup \in Setups  BY DEF TypeOK
<1>2. \A u \in Unit : /\ u.n \in Nat /\ Rank(u) \in Nat
                      /\ 2 * u.n <= Rank(u) /\ Rank(u) <= 2 * u.n + 1
  <2> SUFFICES ASSUME NEW u \in Unit
               PROVE  u.n \in Nat /\ Rank(u) \in Nat /\ 2 * u.n <= Rank(u) /\ Rank(u) <= 2 * u.n + 1
    OBVIOUS
  <2>1. u.n \in Nat  BY <1>1, SetupFacts DEF Unit
  <2> QED BY <2>1 DEF Rank
<1>3. \A i \in DOMAIN com_msg_buffer : i \in Nat /\ i >= 1 /\ com_msg_buffer[i] \in Unit  BY <1>1
<1>4. \A i \in DOMAIN stream : i \in Nat /\ i >= 1 /\ stream[i] \in Unit  BY <1>1
<1> QED BY <1>2, <1>3, <1>4

LEMMA SameCom ==
  ASSUME ComInv, ModeInv, UNCHANGED <<stream, com_msg_buffer, sending, garbled>>,
         pos' = pos \/ ~dist
  PROVE  ComInv'
<1>1. OrderInv'  BY DEF ComInv, OrderInv
<1>2. CASE pos' = pos  BY <1>1, <1>2 DEF ComInv, AheadInv
<1>3. CASE ~dist
  <2>1. DOMAIN stream' = {} /\ DOMAIN com_msg_buffer' = {}
    <3>1. stream' = <<>> /\ com_msg_buffer' = <<>>  BY <1>3 DEF ModeInv
    <3> QED BY <3>1
  <2> QED BY <1>1, <2>1 DEF ComInv, AheadInv
<1> QED BY <1>2, <1>3

LEMMA ComSendOrder ==
  ASSUME TypeOK, ModeInv, ComInv, dist, ComSend
  PROVE  ComInv'
<1>1. PICK m \in Nat :
           /\ m = Len(stream) /\ DOMAIN stream = 1 .. m /\ DOMAIN stream' = 1 .. m + 2
           /\ sending' = sending + 1 /\ sending + 1 \in Msgs
           /\ \A i \in 1 .. m : stream'[i] = stream[i]
           /\ stream'[m + 1] = [part |-> "length", n |-> sending + 1]
           /\ stream'[m + 2] = [part |-> "body", n |-> sending + 1]
  BY ComSendFacts
<1>2. UNCHANGED <<com_msg_buffer, pos, garbled>>  BY DEF ComSend
<1>3. sending \in Nat /\ pos \in Nat /\ pos <= sending
  BY SetupFacts DEF TypeOK, ModeInv
<1>4. /\ Rank(stream'[m + 1]) = 2 * (sending + 1) /\ stream'[m + 1].n = sending + 1
      /\ Rank(stream'[m + 2]) = 2 * (sending + 1) + 1 /\ stream'[m + 2].n = sending + 1
  BY <1>1, <1>3 DEF Rank
<1>5. \A i \in DOMAIN stream' : \/ i \in DOMAIN stream /\ stream'[i] = stream[i]
                                \/ i = m + 1 \/ i = m + 2
  BY <1>1
<1>6. /\ \A i \in DOMAIN com_msg_buffer : Rank(com_msg_buffer[i]) < 2 * (sending + 1)
      /\ \A i \in DOMAIN stream : Rank(stream[i]) < 2 * (sending + 1)
  BY <1>3, UnitFacts DEF ComInv, AheadInv
<1>7. \A i, k \in DOMAIN stream' : i < k => Rank(stream'[i]) < Rank(stream'[k])
  <2> SUFFICES ASSUME NEW i \in DOMAIN stream', NEW k \in DOMAIN stream', i < k
               PROVE  Rank(stream'[i]) < Rank(stream'[k])
    OBVIOUS
  <2>1. CASE k \in DOMAIN stream
    <3>1. i \in DOMAIN stream /\ stream'[i] = stream[i] /\ stream'[k] = stream[k]  BY <1>1, <2>1
    <3> QED BY <2>1, <3>1 DEF ComInv, OrderInv
  <2>2. CASE k = m + 1
    <3>1. i \in DOMAIN stream /\ stream'[i] = stream[i]  BY <1>1, <2>2
    <3> QED BY <1>4, <1>6, <2>2, <3>1
  <2>3. CASE k = m + 2
    <3>1. (i \in DOMAIN stream /\ stream'[i] = stream[i]) \/ i = m + 1  BY <1>1, <2>3
    <3>2. CASE i = m + 1  BY <1>3, <1>4, <2>3, <3>2
    <3>3. CASE i \in DOMAIN stream /\ stream'[i] = stream[i]
      <4>1. Rank(stream[i]) \in Nat  BY <3>3, UnitFacts
      <4> QED BY <1>3, <1>4, <1>6, <2>3, <3>3, <4>1
    <3> QED BY <3>1, <3>2, <3>3
  <2> QED BY <1>5, <2>1, <2>2, <2>3
<1>8. \A i \in DOMAIN com_msg_buffer, k \in DOMAIN stream' : Rank(com_msg_buffer[i]) < Rank(stream'[k])
  <2> SUFFICES ASSUME NEW i \in DOMAIN com_msg_buffer, NEW k \in DOMAIN stream'
               PROVE  Rank(com_msg_buffer[i]) < Rank(stream'[k])
    OBVIOUS
  <2>1. CASE k \in DOMAIN stream /\ stream'[k] = stream[k]  BY <2>1 DEF ComInv, OrderInv
  <2>2. Rank(com_msg_buffer[i]) \in Nat /\ Rank(com_msg_buffer[i]) < 2 * (sending + 1)
    BY <1>6, UnitFacts
  <2>3. CASE k = m + 1 \/ k = m + 2  BY <1>3, <1>4, <2>2, <2>3
  <2> QED BY <1>5, <2>1, <2>3
<1>9. OrderInv'  BY <1>2, <1>7, <1>8 DEF ComInv, OrderInv
<1>10. AheadInv'
  <2>1. \A i \in DOMAIN com_msg_buffer : com_msg_buffer[i].n <= sending + 1
    BY <1>3, UnitFacts DEF ComInv, AheadInv
  <2>2. \A i \in DOMAIN stream' : stream'[i].n <= sending + 1 /\ (~garbled => stream'[i].n > pos)
    BY <1>3, <1>4, <1>5, UnitFacts DEF ComInv, AheadInv
  <2> QED BY <1>1, <1>2, <2>1, <2>2 DEF ComInv, AheadInv
<1> QED BY <1>9, <1>10 DEF ComInv

LEMMA ComReadOrder ==
  ASSUME TypeOK, ComInv, NEW k \in 1 .. Len(stream), ComReadCb(k)
  PROVE  ComInv'
<1>1. PICK b, m \in Nat :
           /\ k \in 1 .. m
           /\ DOMAIN com_msg_buffer = 1 .. b /\ DOMAIN stream = 1 .. m
           /\ DOMAIN com_msg_buffer' = 1 .. b + k /\ DOMAIN stream' = 1 .. m - k
           /\ \A i \in 1 .. b : com_msg_buffer'[i] = com_msg_buffer[i]
           /\ \A i \in b + 1 .. b + k : com_msg_buffer'[i] = stream[i - b]
           /\ \A i \in 1 .. m - k : stream'[i] = stream[i + k]
  BY ComReadFacts, ZenonT(60)
<1>2. UNCHANGED <<sending, pos, garbled>>  BY DEF ComReadCb
<1>3. \A i \in DOMAIN com_msg_buffer' :
        \/ i \in DOMAIN com_msg_buffer /\ com_msg_buffer'[i] = com_msg_buffer[i]
        \/ i > b /\ i - b \in DOMAIN stream /\ i - b <= k /\ com_msg_buffer'[i] = stream[i - b]
  <2> SUFFICES ASSUME NEW i \in 1 .. b + k, i > b
               PROVE  /\ i - b \in 1 .. m /\ i - b <= k
                      /\ com_msg_buffer'[i] = stream[i - b]
    BY <1>1
  <2>1. i \in b + 1 .. b + k  BY <1>1
  <2> QED BY <1>1, <2>1
<1>4. \A i \in DOMAIN stream' : i + k \in DOMAIN stream /\ i + k > k /\ stream'[i] = stream[i + k]
  BY <1>1
<1>5. \A i, l \in DOMAIN com_msg_buffer' : i < l => Rank(com_msg_buffer'[i]) < Rank(com_msg_buffer'[l])
  <2> SUFFICES ASSUME NEW i \in DOMAIN com_msg_buffer', NEW l \in DOMAIN com_msg_buffer', i < l
               PROVE  Rank(com_msg_buffer'[i]) < Rank(com_msg_buffer'[l])
    OBVIOUS
  <2>1. CASE l \in DOMAIN com_msg_buffer
    <3>1. i \in DOMAIN com_msg_buffer  BY <1>1, <2>1
    <3> QED BY <1>1, <2>1, <3>1 DEF ComInv, OrderInv
  <2>2. CASE l > b /\ l - b \in DOMAIN stream /\ com_msg_buffer'[l] = stream[l - b]
    <3>1. CASE i \in DOMAIN com_msg_buffer /\ com_msg_buffer'[i] = com_msg_buffer[i]
      BY <2>2, <3>1 DEF ComInv, OrderInv
    <3>2. CASE i > b /\ i - b \in DOMAIN stream /\ com_msg_buffer'[i] = stream[i - b]
      <4>1. i - b < l - b  BY <1>1
      <4> QED BY <2>2, <3>2, <4>1 DEF ComInv, OrderInv
    <3> QED BY <1>3, <3>1, <3>2
  <2> QED BY <1>3, <2>1, <2>2
<1>6. \A i, l \in DOMAIN stream' : i < l => Rank(stream'[i]) < Rank(stream'[l])
  <2> SUFFICES ASSUME NEW i \in DOMAIN stream', NEW l \in DOMAIN stream', i < l
               PROVE  Rank(stream'[i]) < Rank(stream'[l])
    OBVIOUS
  <2>1. i + k < l + k  BY <1>1
  <2> QED BY <1>4, <2>1 DEF ComInv, OrderInv
<1>7. \A i \in DOMAIN com_msg_buffer', l \in DOMAIN stream' : Rank(com_msg_buffer'[i]) < Rank(stream'[l])
  <2> SUFFICES ASSUME NEW i \in DOMAIN com_msg_buffer', NEW l \in DOMAIN stream'
               PROVE  Rank(com_msg_buffer'[i]) < Rank(stream'[l])
    OBVIOUS
  <2>1. CASE i \in DOMAIN com_msg_buffer /\ com_msg_buffer'[i] = com_msg_buffer[i]
    BY <1>4, <2>1 DEF ComInv, OrderInv
  <2>2. CASE i - b \in DOMAIN stream /\ i - b <= k /\ com_msg_buffer'[i] = stream[i - b]
    <3>1. i - b < l + k  BY <1>1, <2>2
    <3> QED BY <1>4, <2>2, <3>1 DEF ComInv, OrderInv
  <2> QED BY <1>3, <2>1, <2>2
<1>8. AheadInv'
  <2>1. \A i \in DOMAIN com_msg_buffer' :
          com_msg_buffer'[i].n <= sending /\ (~garbled => com_msg_buffer'[i].n > pos)
    BY <1>3 DEF ComInv, AheadInv
  <2>2. \A i \in DOMAIN stream' : stream'[i].n <= sending /\ (~garbled => stream'[i].n > pos)
    BY <1>4 DEF ComInv, AheadInv
  <2> QED BY <1>2, <2>1, <2>2 DEF AheadInv
<1> QED BY <1>5, <1>6, <1>7, <1>8 DEF ComInv, OrderInv

LEMMA ComBeventOrder ==
  ASSUME ComInv, ComBevent
  PROVE  ComInv'
<1>1. stream' = <<>> /\ UNCHANGED <<com_msg_buffer, sending, pos, garbled>>  BY DEF ComBevent
<1>2. DOMAIN stream' = {}  BY <1>1
<1> QED BY <1>1, <1>2 DEF ComInv, OrderInv, AheadInv

LEMMA ForwardComOrder ==
  ASSUME TypeOK, ComInv, ForwardCom
  PROVE  ComInv' /\ (Whole => Cut > pos)
<1>1. PICK b \in Nat :
           /\ b >= 2 /\ DOMAIN com_msg_buffer = 1 .. b /\ DOMAIN com_msg_buffer' = 1 .. b - 2
           /\ \A i \in 1 .. b - 2 : com_msg_buffer'[i] = com_msg_buffer[i + 2]
           /\ com_msg_buffer[1] \in Unit /\ com_msg_buffer[2] \in Unit /\ Cut \in Msgs
  BY ForwardComFacts
<1>2. pos' = Cut /\ UNCHANGED <<stream, sending>>  BY ForwardComCases
<1>3. \A i \in DOMAIN com_msg_buffer' : i + 2 \in DOMAIN com_msg_buffer /\ i + 2 > 2
                                        /\ com_msg_buffer'[i] = com_msg_buffer[i + 2]
  BY <1>1
<1>4. OrderInv'
  <2>1. \A i, l \in DOMAIN com_msg_buffer' : i < l => i + 2 < l + 2  BY <1>1
  <2> QED BY <1>2, <1>3, <2>1 DEF ComInv, OrderInv
<1>5. ~garbled' => Whole /\ ~garbled
  <2>1. Whole \/ garbled' = TRUE  BY ForwardComCases DEF FirstSync
  <2> QED BY <2>1 DEF Whole
<1>6. Cut \in Nat /\ Cut = com_msg_buffer[1].n /\ 1 \in DOMAIN com_msg_buffer /\ 2 \in DOMAIN com_msg_buffer
  BY <1>1, UnitFacts DEF Cut
<1>7. Whole => Rank(com_msg_buffer[2]) > 2 * Cut /\ Rank(com_msg_buffer[2]) = 2 * Cut + 1
  <2> SUFFICES ASSUME Whole PROVE <1>7!2
    OBVIOUS
  <2>1. Rank(com_msg_buffer[1]) < Rank(com_msg_buffer[2])  BY <1>6 DEF ComInv, OrderInv
  <2>2. Rank(com_msg_buffer[1]) = 2 * Cut  BY <1>6 DEF Whole, Rank
  <2>3. com_msg_buffer[2].n = Cut  BY DEF Whole
  <2>4. Rank(com_msg_buffer[2]) \in {2 * Cut, 2 * Cut + 1}  BY <1>6, <2>3 DEF Rank
  <2> QED BY <1>6, <2>1, <2>2, <2>4
<1>8. Whole => \A i \in DOMAIN com_msg_buffer : i > 2 => com_msg_buffer[i].n > Cut
  <2> SUFFICES ASSUME Whole, NEW i \in DOMAIN com_msg_buffer, i > 2 PROVE com_msg_buffer[i].n > Cut
    OBVIOUS
  <2>1. Rank(com_msg_buffer[2]) < Rank(com_msg_buffer[i])  BY <1>6 DEF ComInv, OrderInv
  <2>2. com_msg_buffer[i].n \in Nat /\ Rank(com_msg_buffer[i]) <= 2 * com_msg_buffer[i].n + 1
        /\ Rank(com_msg_buffer[i]) \in Nat
    BY UnitFacts
  <2> QED BY <1>6, <1>7, <2>1, <2>2
<1>9. Whole => \A i \in DOMAIN stream : stream[i].n > Cut
  <2> SUFFICES ASSUME Whole, NEW i \in DOMAIN stream PROVE stream[i].n > Cut
    OBVIOUS
  <2>1. Rank(com_msg_buffer[2]) < Rank(stream[i])  BY <1>6 DEF ComInv, OrderInv
  <2>2. stream[i].n \in Nat /\ Rank(stream[i]) <= 2 * stream[i].n + 1 /\ Rank(stream[i]) \in Nat
    BY UnitFacts
  <2> QED BY <1>6, <1>7, <2>1, <2>2
<1>10. AheadInv'
  <2>1. \A i \in DOMAIN com_msg_buffer' :
          com_msg_buffer'[i].n <= sending /\ (~garbled' => com_msg_buffer'[i].n > Cut)
    BY <1>3, <1>5, <1>8 DEF ComInv, AheadInv
  <2>2. \A i \in DOMAIN stream : stream[i].n <= sending /\ (~garbled' => stream[i].n > Cut)
    BY <1>5, <1>9 DEF ComInv, AheadInv
  <2> QED BY <1>2, <2>1, <2>2 DEF AheadInv
<1>11. Whole => Cut > pos  BY <1>6 DEF ComInv, AheadInv, Whole
<1> QED BY <1>4, <1>10, <1>11 DEF ComInv

-----------------------------------------------------------------------------
(* What the workers were given.                                            *)
EntryInv == TodoInv /\ TakenInv /\ SortedInv /\ ApartInv /\ MappedInv

LEMMA EntryFacts ==
  ASSUME TypeOK
  PROVE  /\ pos \in Nat
         /\ \A w \in Workers : \A i \in DOMAIN written[w] :
              /\ i \in Nat /\ i >= 1
              /\ written[w][i].sync \in BOOLEAN /\ written[w][i].n \in Nat
              /\ Query(written[w][i]) => written[w][i].n \in Msgs
         /\ \A k \in DOMAIN todo :
              /\ k \in Nat /\ k >= 1 /\ todo[k][1] \in Workers
              /\ todo[k][2].sync \in BOOLEAN /\ todo[k][2].n \in Nat
              /\ Query(todo[k][2]) => todo[k][2].n \in Msgs
<1>1. /\ written \in [Workers -> Seq(Entry)] /\ todo \in Seq(Workers \X Entry) /\ setup \in Setups
      /\ pos \in 0 .. Len(Incoming)
  BY DEF TypeOK
<1>2. \A e \in Entry : e.sync \in BOOLEAN /\ e.n \in Nat /\ (Query(e) => e.n \in Msgs)
  BY <1>1, SetupFacts DEF Entry, Query
<1>3. ASSUME NEW w \in Workers, NEW i \in DOMAIN written[w]
      PROVE  i \in Nat /\ i >= 1 /\ written[w][i] \in Entry
  <2>1. written[w] \in Seq(Entry)  BY <1>1
  <2> QED BY <2>1
<1>4. \A k \in DOMAIN todo : k \in Nat /\ k >= 1 /\ todo[k] \in Workers \X Entry  BY <1>1
<1>5. \A k \in DOMAIN todo : todo[k][1] \in Workers /\ todo[k][2] \in Entry  BY <1>4
<1>6. pos \in Nat  BY <1>1, SetupFacts
<1> QED BY <1>2, <1>3, <1>4, <1>5, <1>6

LEMMA SameEntries ==
  ASSUME EntryInv, setup' = setup, UNCHANGED <<client_src2fd, todo, written, pos, garbled>>
  PROVE  EntryInv'
<1>1. Incoming' = Incoming /\ disable_mapping' = disable_mapping /\ Workers' = Workers  BY SameSetup
<1>2. TodoInv' /\ TakenInv'  BY <1>1 DEF EntryInv, TodoInv, TakenInv
<1>3. SortedInv' /\ ApartInv'  BY <1>1 DEF EntryInv, SortedInv, ApartInv
<1>4. MappedInv'  BY <1>1 DEF EntryInv, MappedInv
<1> QED BY <1>2, <1>3, <1>4 DEF EntryInv

(* A handler begins: the query it will write, if it is one, is behind all  *)
(* that were, and goes to the worker of its source.                        *)
LEMMA NewTodo ==
  ASSUME TypeOK, EntryInv, setup' = setup, UNCHANGED written,
         garbled => garbled', ~garbled' => pos' \in Nat /\ pos <= pos',
         \A s \in Srcs, v \in Workers : client_src2fd[s] = v => client_src2fd'[s] = v,
         \A k \in DOMAIN todo' : ~todo'[k][2].sync =>
           /\ k = 1 /\ Len(todo') = 1
           /\ IF todo'[k][2].n = 0 THEN garbled'
              ELSE /\ ~garbled /\ todo'[k][2].n \in pos + 1 .. pos'
                   /\ ~disable_mapping => client_src2fd'[Incoming[todo'[k][2].n].src] = todo'[k][1]
  PROVE  EntryInv'
<1>1. Incoming' = Incoming /\ disable_mapping' = disable_mapping /\ Workers' = Workers  BY SameSetup
<1>2. pos \in Nat /\ setup \in Setups  BY EntryFacts DEF TypeOK
<1>3. TodoInv'
  <2> SUFFICES ASSUME NEW k \in DOMAIN todo', ~todo'[k][2].sync, ~garbled'
               PROVE  todo'[k][2].n \in 1 .. pos'
    BY DEF TodoInv
  <2> QED BY <1>2
<1>4. TakenInv'
  <2> SUFFICES ASSUME NEW w \in Workers, NEW i \in DOMAIN written[w], ~garbled', ~written[w][i].sync
               PROVE  written[w][i].n \in 1 .. pos'
    BY <1>1 DEF TakenInv
  <2>1. written[w][i].n \in 1 .. pos  BY DEF EntryInv, TakenInv
  <2> QED BY <1>2, <2>1
<1>5. SortedInv'
  <2>1. ASSUME NEW k \in DOMAIN todo', NEW w \in Workers, NEW i \in DOMAIN written[w],
               Query(todo'[k][2]), Query(written[w][i])
        PROVE  written[w][i].n < todo'[k][2].n
    <3>1. ~garbled /\ todo'[k][2].n \in pos + 1 .. pos'  BY <2>1 DEF Query
    <3>2. written[w][i].n \in 1 .. pos  BY <2>1, <3>1 DEF EntryInv, TakenInv, Query
    <3> QED BY <1>2, <3>1, <3>2
  <2> QED BY <1>1, <2>1 DEF EntryInv, SortedInv
<1>6. ApartInv'  BY <1>1 DEF EntryInv, ApartInv
<1>7. MappedInv'
  <2> SUFFICES ASSUME ~disable_mapping
               PROVE  /\ \A w \in Workers : \A i \in DOMAIN written[w] :
                           Query(written[w][i]) => client_src2fd'[Incoming[written[w][i].n].src] = w
                      /\ \A k \in DOMAIN todo' :
                           Query(todo'[k][2]) => client_src2fd'[Incoming[todo'[k][2].n].src] = todo'[k][1]
    BY <1>1 DEF MappedInv
  <2>1. ASSUME NEW w \in Workers, NEW i \in DOMAIN written[w], Query(written[w][i])
        PROVE  client_src2fd'[Incoming[written[w][i].n].src] = w
    <3>1. client_src2fd[Incoming[written[w][i].n].src] = w  BY <2>1 DEF EntryInv, MappedInv
    <3>2. written[w][i].n \in Msgs  BY <2>1, EntryFacts
    <3>3. Incoming[written[w][i].n].src \in Srcs  BY <1>2, <3>2, SetupFacts
    <3> QED BY <3>1, <3>3
  <2>2. \A k \in DOMAIN todo' :
          Query(todo'[k][2]) => client_src2fd'[Incoming[todo'[k][2].n].src] = todo'[k][1]
    BY DEF Query
  <2> QED BY <2>1, <2>2
<1> QED BY <1>3, <1>4, <1>5, <1>6, <1>7 DEF EntryInv

LEMMA WriteEntries ==
  ASSUME TypeOK, EntryInv, Write
  PROVE  EntryInv'
<1>1. PICK w \in Workers, e \in Entry, m \in Nat :
           /\ m = Len(written[w]) /\ Len(todo) \in Nat /\ 1 \in DOMAIN todo
           /\ w = todo[1][1] /\ e = todo[1][2]
           /\ todo' \in Seq(Workers \X Entry) /\ Len(todo') = Len(todo) - 1
           /\ \A k \in DOMAIN todo' : k \in Nat /\ k >= 1 /\ k + 1 \in DOMAIN todo /\ todo'[k] = todo[k + 1]
           /\ \A v \in Workers : v # w => written'[v] = written[v]
           /\ DOMAIN written[w] = 1 .. m /\ DOMAIN written'[w] = 1 .. m + 1
           /\ written'[w][m + 1] = e
           /\ \A i \in 1 .. m : written'[w][i] = written[w][i]
           /\ UNCHANGED <<setup, client_src2fd, pos, garbled>>
  BY WriteFacts
<1>2. Incoming' = Incoming /\ disable_mapping' = disable_mapping /\ Workers' = Workers
  BY <1>1, SameSetup
<1>3. \A v \in Workers : \A i \in DOMAIN written'[v] :
        \/ i \in DOMAIN written[v] /\ written'[v][i] = written[v][i]
        \/ v = w /\ i = m + 1 /\ written'[v][i] = e
  <2> SUFFICES ASSUME NEW v \in Workers, NEW i \in DOMAIN written'[v]
               PROVE  \/ i \in DOMAIN written[v] /\ written'[v][i] = written[v][i]
                      \/ v = w /\ i = m + 1 /\ written'[v][i] = e
    OBVIOUS
  <2>1. CASE v = w
    <3>1. i \in 1 .. m + 1  BY <1>1, <2>1
    <3>2. i \in 1 .. m \/ i = m + 1  BY <3>1
    <3> QED BY <1>1, <2>1, <3>2
  <2>2. CASE v # w  BY <1>1, <2>2
  <2> QED BY <2>1, <2>2
<1>4. \A k \in DOMAIN todo' : todo'[k][2].sync
  <2> SUFFICES ASSUME NEW k \in DOMAIN todo', ~todo'[k][2].sync PROVE FALSE
    OBVIOUS
  <2>1. k + 1 \in DOMAIN todo /\ todo'[k] = todo[k + 1] /\ k >= 1 /\ k \in Nat  BY <1>1
  <2>2. k + 1 = 1  BY <2>1 DEF EntryInv, TodoInv
  <2> QED BY <2>1, <2>2
<1>5. TodoInv'  BY <1>4 DEF TodoInv
<1>6. TakenInv'
  <2>1. ~garbled /\ ~e.sync => e.n \in 1 .. pos  BY <1>1 DEF EntryInv, TodoInv
  <2>2. \A v \in Workers : \A i \in DOMAIN written'[v] :
          ~garbled /\ ~written'[v][i].sync => written'[v][i].n \in 1 .. pos
    BY <1>3, <2>1 DEF EntryInv, TakenInv
  <2> QED BY <1>1, <1>2, <2>2 DEF TakenInv
<1>7. Query(e) => \A v \in Workers : \A i \in DOMAIN written[v] :
                    Query(written[v][i]) => written[v][i].n < e.n /\ written[v][i].n \in Nat
  BY <1>1, EntryFacts DEF EntryInv, SortedInv
<1>8. SortedInv'
  <2>1. ASSUME NEW v \in Workers, NEW i \in DOMAIN written'[v], NEW l \in DOMAIN written'[v],
               i < l, Query(written'[v][i]), Query(written'[v][l])
        PROVE  written'[v][i].n < written'[v][l].n
    <3>1. CASE l \in DOMAIN written[v] /\ written'[v][l] = written[v][l]
      <4>1. i \in DOMAIN written[v] /\ written'[v][i] = written[v][i]
        BY <1>1, <1>3, <2>1, <3>1, EntryFacts, SMTT(60)
      <4> QED BY <2>1, <3>1, <4>1 DEF EntryInv, SortedInv
    <3>2. CASE v = w /\ l = m + 1 /\ written'[v][l] = e
      <4>1. i \in DOMAIN written[v] /\ written'[v][i] = written[v][i]  BY <1>1, <1>3, <2>1, <3>2, SMTT(60)
      <4> QED BY <1>7, <2>1, <3>2, <4>1
    <3> QED BY <1>3, <3>1, <3>2
  <2>2. \A k \in DOMAIN todo' : ~Query(todo'[k][2])  BY <1>4 DEF Query
  <2> QED BY <1>2, <2>1, <2>2 DEF SortedInv
<1>9. ApartInv'
  <2>1. ASSUME NEW u \in Workers, NEW v \in Workers, NEW i \in DOMAIN written'[u],
               NEW l \in DOMAIN written'[v], u # v, Query(written'[u][i]), Query(written'[v][l])
        PROVE  written'[u][i].n # written'[v][l].n
    <3>1. CASE /\ i \in DOMAIN written[u] /\ written'[u][i] = written[u][i]
               /\ l \in DOMAIN written[v] /\ written'[v][l] = written[v][l]
      BY <2>1, <3>1 DEF EntryInv, ApartInv
    <3>2. e.n \in Nat  BY <1>1, EntryFacts
    <3>3. CASE /\ i \in DOMAIN written[u] /\ written'[u][i] = written[u][i]
               /\ v = w /\ written'[v][l] = e
      BY <1>7, <2>1, <3>2, <3>3
    <3>4. CASE /\ l \in DOMAIN written[v] /\ written'[v][l] = written[v][l]
               /\ u = w /\ written'[u][i] = e
      BY <1>7, <2>1, <3>2, <3>4
    <3> QED BY <1>3, <2>1, <3>1, <3>3, <3>4
  <2> QED BY <1>2, <2>1 DEF ApartInv
<1>10. MappedInv'
  <2> SUFFICES ASSUME ~disable_mapping
               PROVE  /\ \A v \in Workers : \A i \in DOMAIN written'[v] :
                           Query(written'[v][i]) => client_src2fd[Incoming[written'[v][i].n].src] = v
                      /\ \A k \in DOMAIN todo' : ~Query(todo'[k][2])
    BY <1>1, <1>2 DEF MappedInv
  <2>1. Query(e) => client_src2fd[Incoming[e.n].src] = w  BY <1>1 DEF EntryInv, MappedInv
  <2>2. \A v \in Workers : \A i \in DOMAIN written'[v] :
          Query(written'[v][i]) => client_src2fd[Incoming[written'[v][i].n].src] = v
    BY <1>3, <2>1 DEF EntryInv, MappedInv
  <2> QED BY <1>4, <2>2 DEF Query
<1> QED BY <1>5, <1>6, <1>8, <1>9, <1>10 DEF EntryInv

LEMMA ForwardComEntries ==
  ASSUME TypeOK, ComInv, EntryInv, ForwardCom
  PROVE  EntryInv'
<1>1. /\ UNCHANGED <<setup, written>> /\ pos' = Cut /\ Cut \in Msgs  BY ForwardComCases
<1>2. Whole => Cut > pos /\ ~garbled  BY ForwardComOrder DEF Whole
<1>3. /\ setup \in Setups /\ pos \in Nat /\ Cut \in Nat /\ Cut # 0 /\ Incoming[Cut].src \in Srcs
      /\ client_src2fd \in [Srcs -> Workers \cup {0}] /\ garbled \in BOOLEAN
  BY <1>1, SetupFacts, EntryFacts DEF TypeOK
<1>4. CASE /\ FirstSync /\ todo' = ToAll(Cut) /\ UNCHANGED <<client_src2fd, garbled>>
  <2>1. Whole  BY <1>4 DEF FirstSync
  <2>2. \A k \in DOMAIN todo' : todo'[k][2].sync
    <3>1. DOMAIN todo' = Workers /\ \A k \in Workers : todo'[k][2] = [sync |-> TRUE, n |-> Cut]
      BY <1>1, <1>3, <1>4, ToAllFacts
    <3> QED BY <3>1
  <2>3. pos' \in Nat /\ pos <= pos' /\ (garbled => garbled')  BY <1>1, <1>2, <1>3, <1>4, <2>1
  <2> QED BY <1>1, <1>4, <2>2, <2>3, NewTodo
<1>5. ASSUME Whole, UNCHANGED garbled, NEW w \in Workers, NEW e \in Entry,
             RandClientFd(Incoming[Cut].src, w), todo' = <<<<w, e>>>>, e.n = Cut
      PROVE  EntryInv'
  <2>1. Len(todo') = 1 /\ DOMAIN todo' = {1} /\ todo'[1][1] = w /\ todo'[1][2] = e  BY <1>5, OneWrite
  <2>2. /\ \A s \in Srcs, v \in Workers : client_src2fd[s] = v => client_src2fd'[s] = v
        /\ ~disable_mapping => client_src2fd'[Incoming[Cut].src] = w
    BY <1>3, <1>5, RandClientFdFacts
  <2>3. pos' \in Nat /\ pos <= pos' /\ (garbled => garbled') /\ Cut \in pos + 1 .. pos' /\ ~garbled
    BY <1>1, <1>2, <1>3, <1>5
  <2> QED BY <1>1, <1>3, <1>5, <2>1, <2>2, <2>3, NewTodo
<1>6. ASSUME garbled' = TRUE, UNCHANGED client_src2fd, NEW w \in Workers, NEW e \in Entry,
             todo' = <<<<w, e>>>>, e.n = 0
      PROVE  EntryInv'
  <2>1. Len(todo') = 1 /\ DOMAIN todo' = {1} /\ todo'[1][1] = w /\ todo'[1][2] = e  BY <1>6, OneWrite
  <2> QED BY <1>1, <1>6, <2>1, NewTodo
<1> QED BY <1>4, <1>5, <1>6, ForwardComCases

LEMMA ReaderEntries ==
  ASSUME TypeOK, ModeInv, PaceInv, EntryInv, SkipInvalid \/ TakeMessage \/ Forward
  PROVE  EntryInv'
<1>1. pos \in Nat /\ setup \in Setups /\ client_src2fd \in [Srcs -> Workers \cup {0}]
  BY EntryFacts DEF TypeOK
<1>2. CASE SkipInvalid
  <2>1. /\ UNCHANGED <<setup, written, client_src2fd, garbled, todo>> /\ pos' = pos + 1 /\ todo = <<>>
    BY <1>2 DEF SkipInvalid, Reading, routing, pairs, comm
  <2>2. DOMAIN todo' = {}  BY <2>1
  <2>3. pos' \in Nat /\ pos <= pos'  BY <1>1, <2>1
  <2> QED BY <2>1, <2>2, <2>3, NewTodo
<1>3. CASE TakeMessage
  <2>1. /\ UNCHANGED <<setup, written, client_src2fd, garbled, pos>> /\ todo = <<>>
        /\ todo' = (IF done_sync_time THEN todo ELSE ToAll(pos + 1)) /\ pos < Len(Incoming)
    BY <1>3 DEF TakeMessage, Reading, comm
  <2>2. pos + 1 \in Msgs  BY <1>1, <2>1, SetupFacts DEF Msgs
  <2>3. \A k \in DOMAIN todo' : todo'[k][2].sync
    <3>1. CASE done_sync_time
      <4>1. DOMAIN todo' = {}  BY <2>1, <3>1
      <4> QED BY <4>1
    <3>2. CASE ~done_sync_time
      <4>1. DOMAIN todo' = Workers /\ \A k \in Workers : todo'[k][2] = [sync |-> TRUE, n |-> pos + 1]
        BY <1>1, <2>1, <2>2, <3>2, ToAllFacts
      <4> QED BY <4>1
    <3> QED BY <3>1, <3>2
  <2>4. pos' \in Nat /\ pos <= pos'  BY <1>1, <2>1
  <2> QED BY <2>1, <2>3, <2>4, NewTodo
<1>4. CASE Forward
  <2>1. /\ UNCHANGED <<setup, written, garbled>> /\ pos' = pos + 1 /\ pos + 1 \in Msgs /\ ~dist
    BY <1>4, ForwardFacts
  <2>2. PICK w \in Workers, e \in Entry :
           /\ RandClientFd(Incoming[pos + 1].src, w) /\ todo' = <<<<w, e>>>> /\ e.n = pos + 1
    BY <1>4, ForwardFacts
  <2>3. Len(todo') = 1 /\ DOMAIN todo' = {1} /\ todo'[1][1] = w /\ todo'[1][2] = e  BY <2>2, OneWrite
  <2>4. Incoming[pos + 1].src \in Srcs  BY <1>1, <2>1, SetupFacts
  <2>5. /\ \A s \in Srcs, v \in Workers : client_src2fd[s] = v => client_src2fd'[s] = v
        /\ ~disable_mapping => client_src2fd'[Incoming[pos + 1].src] = w
    BY <1>1, <2>2, <2>4, RandClientFdFacts
  <2>6. ~garbled  BY <2>1 DEF ModeInv
  <2>7. pos' \in Nat /\ pos <= pos' /\ pos + 1 \in pos + 1 .. pos' /\ pos + 1 # 0  BY <1>1, <2>1
  <2> QED BY <2>1, <2>2, <2>3, <2>5, <2>6, <2>7, NewTodo
<1> QED BY <1>2, <1>3, <1>4

-----------------------------------------------------------------------------
Inv == TypeOK /\ MainInv /\ ModeInv /\ PaceInv /\ ComInv /\ EntryInv

(* The steps of the composition, by what they do.                          *)
QuietStep ==
  \/ WriteBlocks \/ WorkerReads \/ \E w \in Workers : WorkerExit(w) \/ WorkerFails(w)
  \/ ComConnected \/ ComReadEnds \/ ReadEnds \/ WriteFails \/ RandClientFdDies \/ Tick
  \/ SignalCb \/ EventLoop
  \/ Parent \/ ForkFails \/ ManagerStarts \/ Interrupt \/ UNCHANGED vars

LEMMA StepCases ==
  ASSUME [MainNext]_allVars
  PROVE  \/ QuietStep \/ Write \/ ComSend \/ (\E k \in 1 .. Len(stream) : ComReadCb(k))
         \/ ForwardCom \/ ComBevent \/ SkipInvalid \/ TakeMessage \/ Forward
  BY DEF MainNext, Next, ComThread, Reader, QuietStep, allVars

LEMMA InitInv == MainInit => Inv
<1> SUFFICES ASSUME MainInit PROVE Inv
  OBVIOUS
<1>1. /\ setup \in Setups
      /\ done_sync_time = FALSE /\ client_src2fd = [s \in Srcs |-> 0]
      /\ todo = <<>> /\ blocked = FALSE /\ written = [w \in Workers |-> <<>>]
      /\ read = [w \in Workers |-> 0] /\ pos = 0
      /\ com = "connecting" /\ com_fail_retry = 0 /\ sending = 0
      /\ stream = <<>> /\ com_msg_buffer = <<>> /\ in_com_read_cb = FALSE /\ garbled = FALSE
      /\ reader = (IF dist THEN "done" ELSE "read")
      /\ query_pace_ts = 1 /\ trace_start_ts = -1 /\ real_start_ts = -1 /\ now = 1
      /\ signalled = FALSE /\ loop = "dispatch"
      /\ alive = {} /\ status = "absent" /\ main = "options" /\ forked = 0
  BY DEF MainInit, Fresh, FAKE_TRACE_START_TIME
<1>2. Len(Incoming) \in Nat /\ query_pace \in Int /\ dist \in BOOLEAN  BY <1>1, SetupFacts
<1>3. /\ DOMAIN todo = {} /\ DOMAIN stream = {} /\ DOMAIN com_msg_buffer = {}
      /\ \A w \in Workers : DOMAIN written[w] = {}
  BY <1>1
<1>4. CoreType
  <2>1. 0 \in 0 .. Len(Incoming) /\ 0 \in 0 .. FAIL_RETRY_LIMIT  BY <1>2, ManagerAssumption
  <2>2. written \in [Workers -> Seq(Entry)] /\ todo \in Seq(Workers \X Entry)  BY <1>1
  <2>3. client_src2fd \in [Srcs -> Workers \cup {0}] /\ done_sync_time \in BOOLEAN
    <3>1. client_src2fd = [s \in Srcs |-> 0] /\ done_sync_time = FALSE  BY <1>1
    <3>2. [s \in Srcs |-> 0] \in [Srcs -> Workers \cup {0}]  OBVIOUS
    <3> QED BY <3>1, <3>2
  <2>4. stream \in Seq(Unit) /\ com_msg_buffer \in Seq(Unit) /\ garbled \in BOOLEAN
    <3>1. stream = <<>> /\ com_msg_buffer = <<>> /\ garbled = FALSE  BY <1>1
    <3>2. <<>> \in Seq(Unit)  OBVIOUS
    <3> QED BY <3>1, <3>2
  <2>5. /\ query_pace_ts \in Nat
        /\ trace_start_ts \in Nat \cup {-1} /\ real_start_ts \in Nat \cup {-1}
    BY <1>1
  <2>6. /\ pos \in 0 .. Len(Incoming) /\ com_fail_retry \in 0 .. FAIL_RETRY_LIMIT
        /\ sending \in 0 .. Len(Incoming)
    BY <1>1, <2>1
  <2> QED BY <2>2, <2>3, <2>4, <2>5, <2>6 DEF CoreType
<1>5. PairsType
  <2>1. \A w \in Workers : read[w] <= Len(written[w])
    <3> SUFFICES ASSUME NEW w \in Workers PROVE read[w] <= Len(written[w])
      OBVIOUS
    <3>1. read[w] = 0 /\ written[w] = <<>>  BY <1>1
    <3> QED BY <3>1
  <2> QED BY <1>1, <2>1 DEF PairsType
<1>6. FlagType  BY <1>1 DEF FlagType
<1>7. TypeOK  BY <1>1, <1>4, <1>5, <1>6, TypeParts
<1>8. MainInv  BY <1>1 DEF MainInv
<1>9. ModeInv
  <2>1. 0 < FAIL_RETRY_LIMIT  BY ManagerAssumption
  <2> QED BY <1>1, <1>2, <2>1 DEF ModeInv
<1>10. PaceInv
  <2>1. Taken(pos) = {}  BY <1>1 DEF Taken
  <2>2. Cardinality(Taken(pos)) = 0  BY <2>1, FS_EmptySet
  <2>3. reader # "forward" /\ query_pace * 0 = 0  BY <1>1, <1>2
  <2>4. query_pace * Cardinality(Taken(pos)) = 0  BY <2>2, <2>3
  <2>5. query_pace_ts = 1 + query_pace * Cardinality(Taken(pos)) + 0  BY <1>1, <2>4
  <2> QED BY <2>3, <2>5 DEF PaceInv
<1>11. ComInv  BY <1>3 DEF ComInv, OrderInv, AheadInv
<1>12. EntryInv  BY <1>3 DEF EntryInv, TodoInv, TakenInv, SortedInv, ApartInv, MappedInv
<1> QED BY <1>7, <1>8, <1>9, <1>10, <1>11, <1>12 DEF Inv

LEMMA NextInv == Inv /\ [MainNext]_allVars => Inv'
<1> SUFFICES ASSUME Inv, [MainNext]_allVars PROVE Inv'
  OBVIOUS
<1>1. TypeOK /\ MainInv /\ ModeInv /\ PaceInv /\ ComInv /\ EntryInv /\ AheadInv  BY DEF Inv, ComInv
<1>2. setup' = setup /\ setup \in Setups  BY <1>1, SetupSame DEF TypeOK
<1>3. MainInv'  BY <1>1, MainSteps
<1> SUFFICES CoreType' /\ PairsType' /\ FlagType' /\ ModeInv' /\ PaceInv' /\ ComInv' /\ EntryInv'
  <2>1. setup' \in Setups  BY <1>2
  <2>2. ASSUME CoreType', PairsType', FlagType' PROVE TypeOK'
    BY <2>1, <2>2 DEF TypeOK, CoreType, PairsType, FlagType
  <2> QED BY <1>3, <2>2 DEF Inv
<1>4. CASE QuietStep
  <2>1. Quiet /\ PairsType' /\ FlagType'  BY <1>1, <1>2, <1>4, QuietSteps DEF QuietStep
  <2>2. CoreType' /\ ModeInv' /\ PaceInv'  BY <1>1, <1>2, <2>1, QuietBase
  <2>3. UNCHANGED <<client_src2fd, todo, written, pos, sending, stream, com_msg_buffer, garbled>>
    BY <2>1 DEF Quiet, core
  <2>4. ComInv'  BY <1>1, <2>3, SameCom
  <2>5. EntryInv'  BY <1>1, <1>2, <2>3, SameEntries
  <2> QED BY <2>1, <2>2, <2>4, <2>5
<1>5. CASE Write
  <2>1. UNCHANGED <<stream, com_msg_buffer, sending, garbled, pos>>  BY <1>5 DEF Write, comm
  <2>2. ComInv'  BY <1>1, <2>1, SameCom
  <2> QED BY <1>1, <1>5, <2>2, WriteBase, WriteEntries
<1>6. CASE ComSend
  <2>1. UNCHANGED <<client_src2fd, todo, written, pos, garbled>>  BY <1>6 DEF ComSend, routing, pairs
  <2>2. EntryInv'  BY <1>1, <1>2, <2>1, SameEntries
  <2> QED BY <1>1, <1>6, <2>2, ComSendBase, ComSendOrder
<1>7. ASSUME NEW k \in 1 .. Len(stream), ComReadCb(k)
      PROVE  CoreType' /\ PairsType' /\ FlagType' /\ ModeInv' /\ PaceInv' /\ ComInv' /\ EntryInv'
  <2>1. UNCHANGED <<client_src2fd, todo, written, pos, garbled>>  BY <1>7 DEF ComReadCb, routing, pairs
  <2>2. EntryInv'  BY <1>1, <1>2, <2>1, SameEntries
  <2> QED BY <1>1, <1>7, <2>2, ComReadBase, ComReadOrder
<1>8. CASE ForwardCom  BY <1>1, <1>8, ForwardComBase, ForwardComOrder, ForwardComEntries
<1>9. CASE ComBevent
  <2>1. UNCHANGED <<client_src2fd, todo, written, pos, garbled>>  BY <1>9 DEF ComBevent, routing, pairs
  <2>2. EntryInv'  BY <1>1, <1>2, <2>1, SameEntries
  <2> QED BY <1>1, <1>9, <2>2, ComBeventBase, ComBeventOrder
<1>10. CASE SkipInvalid \/ TakeMessage \/ Forward
  <2>1. UNCHANGED <<stream, com_msg_buffer, sending, garbled>> /\ ~dist
    BY <1>10 DEF SkipInvalid, TakeMessage, Forward, Reading, comm
  <2>2. ComInv'  BY <1>1, <2>1, SameCom
  <2>3. EntryInv'  BY <1>1, <1>10, ReaderEntries
  <2>4. CoreType' /\ PairsType' /\ FlagType' /\ ModeInv' /\ PaceInv'
    BY <1>1, <1>10, SkipBase, TakeBase, ForwardBase
  <2> QED BY <2>2, <2>3, <2>4
<1> QED BY <1>4, <1>5, <1>6, <1>7, <1>8, <1>9, <1>10, StepCases

LEMMA InvSteps == MainSpec => []Inv
  BY InitInv, NextInv, PTL DEF MainSpec

(* A query is written to one worker at most once, and the queries of a     *)
(* source to one worker and in their order, for any input, any number of   *)
(* workers, any losses of the connection and any blocking writes.          *)
THEOREM RoutedCorrect == MainSpec => []RoutedOnce
<1>1. Inv => RoutedOnce
  <2> SUFFICES ASSUME Inv PROVE RoutedOnce
    OBVIOUS
  <2>1. TypeOK /\ SortedInv /\ ApartInv /\ MappedInv  BY DEF Inv, EntryInv
  <2>2. setup \in Setups  BY <2>1 DEF TypeOK
  <2>3. ASSUME NEW n \in Msgs, NEW p \in Places(n)
        PROVE  \E w \in Workers : \E i \in DOMAIN written[w] :
                 p = <<w, i>> /\ Query(written[w][i]) /\ written[w][i].n = n
    <3>1. PICK w \in Workers : p \in {<<w, i>> : i \in {j \in DOMAIN written[w] :
                                        written[w][j] = [sync |-> FALSE, n |-> n]}}
      BY <2>3 DEF Places
    <3>2. PICK i \in DOMAIN written[w] : p = <<w, i>> /\ written[w][i] = [sync |-> FALSE, n |-> n]
      BY <3>1
    <3>3. n # 0  BY <2>2, SetupFacts
    <3>4. Query(written[w][i]) /\ written[w][i].n = n  BY <3>2, <3>3 DEF Query
    <3> QED BY <3>2, <3>4
  <2>4. ASSUME NEW n \in Msgs, NEW p \in Places(n), NEW q \in Places(n) PROVE p = q
    <3>a. PICK w \in Workers : \E i \in DOMAIN written[w] :
            p = <<w, i>> /\ Query(written[w][i]) /\ written[w][i].n = n
      BY <2>3
    <3>1. PICK i \in DOMAIN written[w] : p = <<w, i>> /\ Query(written[w][i]) /\ written[w][i].n = n
      BY <3>a
    <3>b. PICK v \in Workers : \E j \in DOMAIN written[v] :
            q = <<v, j>> /\ Query(written[v][j]) /\ written[v][j].n = n
      BY <2>3
    <3>2. PICK j \in DOMAIN written[v] : q = <<v, j>> /\ Query(written[v][j]) /\ written[v][j].n = n
      BY <3>b
    <3>3. v = w  BY <2>1, <3>1, <3>2 DEF ApartInv
    <3>4. i \in Nat /\ j \in Nat /\ n \in Nat  BY <2>1, <2>2, <3>1, <3>2, EntryFacts, SetupFacts
    <3>5. ~(i < j) /\ ~(j < i)  BY <2>1, <3>1, <3>2, <3>3, <3>4 DEF SortedInv
    <3> QED BY <3>1, <3>2, <3>3, <3>4, <3>5
  <2>5. ASSUME NEW n \in Msgs PROVE Cardinality(Places(n)) <= 1
    <3>1. CASE Places(n) = {}
      <4>1. Cardinality(Places(n)) = 0  BY <3>1, FS_EmptySet
      <4> QED BY <4>1
    <3>2. CASE Places(n) # {}
      <4>1. PICK p : p \in Places(n)  BY <3>2
      <4>2. Places(n) = {p}  BY <2>4, <4>1
      <4>3. Cardinality(Places(n)) = 1  BY <4>2, FS_Singleton
      <4> QED BY <4>3
    <3> QED BY <3>1, <3>2
  <2>6. ASSUME ~disable_mapping, NEW m \in Msgs, NEW n \in Msgs, NEW p \in Places(m), NEW q \in Places(n),
               m < n, Incoming[m].src = Incoming[n].src
        PROVE  p[1] = q[1] /\ p[2] < q[2]
    <3>a. PICK w \in Workers : \E i \in DOMAIN written[w] :
            p = <<w, i>> /\ Query(written[w][i]) /\ written[w][i].n = m
      BY <2>3
    <3>1. PICK i \in DOMAIN written[w] : p = <<w, i>> /\ Query(written[w][i]) /\ written[w][i].n = m
      BY <3>a
    <3>b. PICK v \in Workers : \E j \in DOMAIN written[v] :
            q = <<v, j>> /\ Query(written[v][j]) /\ written[v][j].n = n
      BY <2>3
    <3>2. PICK j \in DOMAIN written[v] : q = <<v, j>> /\ Query(written[v][j]) /\ written[v][j].n = n
      BY <3>b
    <3>3. v = w  BY <2>1, <2>6, <3>1, <3>2 DEF MappedInv
    <3>4. i \in Nat /\ j \in Nat /\ m \in Nat /\ n \in Nat
      BY <2>1, <2>2, <3>1, <3>2, EntryFacts, SetupFacts
    <3>5. ~(j < i)
      <4> SUFFICES ASSUME j < i PROVE FALSE
        OBVIOUS
      <4>1. n < m  BY <2>1, <3>1, <3>2, <3>3 DEF SortedInv
      <4> QED BY <2>6, <3>4, <4>1
    <3>6. i # j  BY <2>6, <3>1, <3>2, <3>3, <3>4
    <3> QED BY <3>1, <3>2, <3>3, <3>4, <3>5, <3>6
  <2> QED BY <2>1, <2>5, <2>6 DEF RoutedOnce
<1> QED BY <1>1, InvSteps, PTL

-----------------------------------------------------------------------------
(* The sync message.                                                       *)
LEMMA ForwardComWhole ==
  ASSUME TypeOK, ModeInv, NoGapInv, ForwardCom, com_fail_retry = 0
  PROVE  Whole /\ Cut = pos + 1 /\ dist /\ pos \in Nat
<1>1. in_com_read_cb  BY ForwardComCases
<1>2. dist  BY <1>1 DEF ModeInv
<1>3. PICK b \in Nat : b >= 2 /\ DOMAIN com_msg_buffer = 1 .. b
                       /\ com_msg_buffer[1] \in Unit /\ com_msg_buffer[2] \in Unit
  BY ForwardComFacts
<1>4. pos \in Nat  BY EntryFacts
<1>5. /\ Rank(com_msg_buffer[1]) = 2 * pos + 1 + 1 /\ Rank(com_msg_buffer[2]) = 2 * pos + 1 + 2
      /\ ~garbled
  BY <1>2, <1>3 DEF NoGapInv
<1>6. com_msg_buffer[1].n \in Nat /\ com_msg_buffer[2].n \in Nat  BY <1>3, UnitFacts
<1>7. com_msg_buffer[1].part = "length" /\ com_msg_buffer[1].n = pos + 1
  BY <1>3, <1>4, <1>5, <1>6 DEF Rank, Unit
<1>8. com_msg_buffer[2].n = pos + 1  BY <1>3, <1>4, <1>5, <1>6 DEF Rank, Unit
<1> QED BY <1>2, <1>4, <1>5, <1>7, <1>8 DEF Whole, Cut

LEMMA SyncOfCut ==
  ASSUME SyncIsFirst, TypeOK, ModeInv, NoGapInv, ForwardCom, com_fail_retry = 0
  PROVE  /\ FirstSync <=> pos = 0
         /\ Incoming[Cut].sync <=> pos = 0
<1>1. Whole /\ Cut = pos + 1 /\ dist /\ pos \in Nat  BY ForwardComWhole
<1>2. setup \in Setups /\ Cut \in Msgs  BY ForwardComFacts DEF TypeOK
<1>3. DOMAIN Incoming = Msgs  BY <1>2, SetupFacts
<1>4. Incoming[Cut].sync <=> Cut = 1  BY <1>1, <1>2, <1>3 DEF SyncIsFirst, dist, Incoming
<1>5. Cut = 1 <=> pos = 0  BY <1>1
<1>6. done_sync_time <=> pos > 0  BY <1>1 DEF NoGapInv
<1> QED BY <1>1, <1>4, <1>5, <1>6 DEF FirstSync

LEMMA NoGapSteps ==
  ASSUME SyncIsFirst, Inv, NoGapInv, [MainNext]_allVars
  PROVE  NoGapInv'
<1>1. TypeOK /\ MainInv /\ ModeInv /\ PaceInv /\ ComInv  BY DEF Inv
<1>2. setup' = setup /\ dist' = dist /\ pos \in Nat /\ sending \in Nat
  BY <1>1, SetupSame, SameSetup, EntryFacts, SetupFacts DEF TypeOK
<1>3. CASE UNCHANGED <<com_fail_retry, done_sync_time, pos, sending, stream, com_msg_buffer, garbled>>
  BY <1>2, <1>3 DEF NoGapInv
<1>4. CASE QuietStep
  <2>1. Quiet  BY <1>1, <1>2, <1>4, QuietSteps DEF QuietStep
  <2> QED BY <1>3, <2>1 DEF Quiet, core
<1>5. CASE Write  BY <1>3, <1>5 DEF Write, routing, comm
<1>6. CASE SkipInvalid \/ TakeMessage \/ Forward
  <2>1. ~dist  BY <1>6 DEF SkipInvalid, TakeMessage, Forward, Reading
  <2> QED BY <1>2, <2>1 DEF NoGapInv
<1>7. CASE ComSend
  <2>1. PICK m \in Nat :
           /\ m = Len(stream) /\ DOMAIN stream = 1 .. m /\ DOMAIN stream' = 1 .. m + 2
           /\ Len(stream') = m + 2 /\ sending' = sending + 1
           /\ \A i \in 1 .. m : stream'[i] = stream[i]
           /\ stream'[m + 1] = [part |-> "length", n |-> sending + 1]
           /\ stream'[m + 2] = [part |-> "body", n |-> sending + 1]
    BY <1>1, <1>7, ComSendFacts
  <2>2. UNCHANGED <<com_fail_retry, done_sync_time, pos, com_msg_buffer, garbled>>
    BY <1>7 DEF ComSend, routing
  <2>3. PICK b \in Nat : b = Len(com_msg_buffer)  BY <1>1 DEF TypeOK
  <2> SUFFICES ASSUME dist, com_fail_retry = 0
               PROVE  /\ \A i \in DOMAIN stream' : Rank(stream'[i]) = 2 * pos + 1 + b + i
                      /\ 2 * pos + b + (m + 2) = 2 * (sending + 1)
    BY <1>2, <2>1, <2>2, <2>3 DEF NoGapInv
  <2>4. 2 * pos + b + m = 2 * sending  BY <2>1, <2>3 DEF NoGapInv
  <2>5. Rank(stream'[m + 1]) = 2 * (sending + 1) /\ Rank(stream'[m + 2]) = 2 * (sending + 1) + 1
    BY <1>2, <2>1 DEF Rank
  <2>6. \A i \in 1 .. m : Rank(stream'[i]) = 2 * pos + 1 + b + i  BY <2>1, <2>3 DEF NoGapInv
  <2>7. \A i \in DOMAIN stream' : i \in 1 .. m \/ i = m + 1 \/ i = m + 2  BY <2>1
  <2> QED BY <1>2, <2>4, <2>5, <2>6, <2>7
<1>8. ASSUME NEW k \in 1 .. Len(stream), ComReadCb(k) PROVE NoGapInv'
  <2>1. PICK b, m \in Nat :
           /\ b = Len(com_msg_buffer) /\ m = Len(stream) /\ k \in 1 .. m
           /\ DOMAIN com_msg_buffer = 1 .. b /\ DOMAIN stream = 1 .. m
           /\ Len(com_msg_buffer') = b + k /\ DOMAIN com_msg_buffer' = 1 .. b + k
           /\ Len(stream') = m - k /\ DOMAIN stream' = 1 .. m - k
           /\ \A i \in 1 .. b : com_msg_buffer'[i] = com_msg_buffer[i]
           /\ \A i \in b + 1 .. b + k : com_msg_buffer'[i] = stream[i - b]
           /\ \A i \in 1 .. m - k : stream'[i] = stream[i + k]
    BY <1>1, <1>8, ComReadFacts, ZenonT(60)
  <2>2. UNCHANGED <<com_fail_retry, done_sync_time, pos, sending, garbled>>
    BY <1>8 DEF ComReadCb, routing
  <2> SUFFICES ASSUME dist, com_fail_retry = 0
               PROVE  /\ \A i \in 1 .. b + k : Rank(com_msg_buffer'[i]) = 2 * pos + 1 + i
                      /\ \A i \in 1 .. m - k : Rank(stream'[i]) = 2 * pos + 1 + (b + k) + i
                      /\ 2 * pos + (b + k) + (m - k) = 2 * sending
    BY <1>2, <2>1, <2>2 DEF NoGapInv
  <2>3. 2 * pos + b + m = 2 * sending  BY <2>1 DEF NoGapInv
  <2>4. /\ \A i \in 1 .. b : Rank(com_msg_buffer[i]) = 2 * pos + 1 + i
        /\ \A i \in 1 .. m : Rank(stream[i]) = 2 * pos + 1 + b + i
    BY <2>1 DEF NoGapInv
  <2>5. ASSUME NEW i \in 1 .. b + k PROVE Rank(com_msg_buffer'[i]) = 2 * pos + 1 + i
    <3>1. CASE i \in 1 .. b  BY <2>1, <2>4, <3>1
    <3>2. CASE i \in b + 1 .. b + k
      <4>1. i - b \in 1 .. m /\ com_msg_buffer'[i] = stream[i - b]  BY <2>1, <3>2
      <4>2. Rank(com_msg_buffer'[i]) = 2 * pos + 1 + b + (i - b)  BY <2>4, <4>1
      <4> QED BY <1>2, <2>1, <3>2, <4>2
    <3> QED BY <2>1, <3>1, <3>2
  <2>6. ASSUME NEW i \in 1 .. m - k PROVE Rank(stream'[i]) = 2 * pos + 1 + (b + k) + i
    <3>1. i + k \in 1 .. m /\ stream'[i] = stream[i + k]  BY <2>1
    <3>2. Rank(stream'[i]) = 2 * pos + 1 + b + (i + k)  BY <2>4, <3>1
    <3> QED BY <1>2, <2>1, <3>2
  <2> QED BY <1>2, <2>1, <2>3, <2>5, <2>6
<1>9. CASE ComBevent
  <2>1. com_fail_retry' = com_fail_retry + 1 /\ com_fail_retry \in Nat
    BY <1>1, <1>9, ManagerAssumption DEF ComBevent, TypeOK
  <2>2. com_fail_retry' # 0  BY <2>1
  <2> QED BY <2>2 DEF NoGapInv
<1>10. CASE ForwardCom
  <2>1. PICK b \in Nat :
           /\ b = Len(com_msg_buffer) /\ b >= 2 /\ DOMAIN com_msg_buffer = 1 .. b
           /\ Len(com_msg_buffer') = b - 2 /\ DOMAIN com_msg_buffer' = 1 .. b - 2
           /\ \A i \in 1 .. b - 2 : com_msg_buffer'[i] = com_msg_buffer[i + 2]
    BY <1>1, <1>10, ForwardComFacts
  <2>2. UNCHANGED <<com_fail_retry, sending, stream>> /\ pos' = Cut  BY <1>1, <1>10, ForwardComCases
  <2>3. PICK m \in Nat : m = Len(stream) /\ DOMAIN stream = 1 .. m  BY <1>1 DEF TypeOK
  <2> SUFFICES ASSUME dist, com_fail_retry = 0
               PROVE  /\ ~garbled' /\ (done_sync_time' <=> Cut > 0)
                      /\ \A i \in 1 .. b - 2 : Rank(com_msg_buffer'[i]) = 2 * Cut + 1 + i
                      /\ \A i \in 1 .. m : Rank(stream[i]) = 2 * Cut + 1 + (b - 2) + i
                      /\ 2 * Cut + (b - 2) + m = 2 * sending
    BY <1>2, <2>1, <2>2, <2>3 DEF NoGapInv
  <2>4. Whole /\ Cut = pos + 1  BY <1>1, <1>10, ForwardComWhole
  <2>5. 2 * pos + b + m = 2 * sending /\ ~garbled /\ (done_sync_time <=> pos > 0)
    BY <2>1, <2>3 DEF NoGapInv
  <2>6. ~garbled'
    <3>1. UNCHANGED garbled  BY <1>1, <1>10, <2>4, ForwardComCases
    <3> QED BY <2>5, <3>1
  <2>7. done_sync_time'
    <3>1. CASE pos = 0
      <4>1. FirstSync  BY <1>1, <1>10, <3>1, SyncOfCut
      <4> QED BY <1>1, <1>10, <2>4, <4>1, ForwardComCases
    <3>2. CASE pos # 0
      <4>1. done_sync_time  BY <1>2, <2>5, <3>2
      <4>2. ~FirstSync  BY <1>1, <1>10, <3>2, SyncOfCut
      <4>3. UNCHANGED done_sync_time  BY <1>1, <1>10, <4>2, ForwardComCases
      <4> QED BY <4>1, <4>3
    <3> QED BY <3>1, <3>2
  <2>8. ASSUME NEW i \in 1 .. b - 2 PROVE Rank(com_msg_buffer'[i]) = 2 * Cut + 1 + i
    <3>1. i + 2 \in DOMAIN com_msg_buffer /\ com_msg_buffer'[i] = com_msg_buffer[i + 2]  BY <2>1
    <3>2. Rank(com_msg_buffer'[i]) = 2 * pos + 1 + (i + 2)  BY <3>1 DEF NoGapInv
    <3> QED BY <1>2, <2>4, <3>2
  <2>9. ASSUME NEW i \in 1 .. m PROVE Rank(stream[i]) = 2 * Cut + 1 + (b - 2) + i
    <3>1. Rank(stream[i]) = 2 * pos + 1 + b + i  BY <2>1, <2>3 DEF NoGapInv
    <3> QED BY <1>2, <2>4, <3>1
  <2> QED BY <1>2, <2>4, <2>5, <2>6, <2>7, <2>8, <2>9
<1> QED BY <1>4, <1>5, <1>6, <1>7, <1>8, <1>9, <1>10, StepCases

(* What SyncInv says once the sync message was taken.                      *)
Synced(e0) ==
  /\ e0.sync
  /\ \A k \in DOMAIN todo :
       todo[k][2].sync => todo[k][2] = e0 /\ todo[k][1] = num_clients - Len(todo) + k
  /\ \A w \in Workers : written[w] = <<>> <=> Unsynced(w)
  /\ \A w \in Workers : \A i \in DOMAIN written[w] :
       /\ i = 1 => written[w][i] = e0
       /\ i # 1 => ~written[w][i].sync

LEMMA SyncedInv ==
  ASSUME com_fail_retry = 0
  PROVE  SyncInv <=> \/ ~done_sync_time /\ todo = <<>> /\ \A w \in Workers : written[w] = <<>>
                     \/ done_sync_time /\ \E e0 \in Entry : Synced(e0)
  BY DEF SyncInv, Synced

LEMMA SameSync ==
  ASSUME SyncInv, setup' = setup, UNCHANGED <<done_sync_time, todo, written>>,
         com_fail_retry' = 0 => com_fail_retry = 0
  PROVE  SyncInv'
<1>1. Workers' = Workers /\ Entry' = Entry /\ num_clients' = num_clients  BY SameSetup
<1>2. \A w : Unsynced(w)' <=> Unsynced(w)  BY <1>1 DEF Unsynced
<1>3. \A e0 : Synced(e0) => Synced(e0)'  BY <1>1, <1>2 DEF Synced
<1> SUFFICES ASSUME com_fail_retry' = 0
             PROVE  \/ ~done_sync_time' /\ todo' = <<>> /\ \A w \in Workers : written'[w] = <<>>
                    \/ done_sync_time' /\ \E e0 \in Entry : Synced(e0)'
  BY <1>1 DEF SyncInv, Synced
<1> QED BY <1>3, SyncedInv

(* The sync message is about to be written to all.                         *)
LEMMA NewSync ==
  ASSUME TypeOK, SyncInv, setup' = setup, com_fail_retry = 0, ~done_sync_time,
         NEW n \in Msgs, todo' = ToAll(n), done_sync_time' = TRUE, UNCHANGED written
  PROVE  SyncInv'
<1>1. Workers' = Workers /\ Entry' = Entry /\ num_clients' = num_clients  BY SameSetup
<1>2. setup \in Setups /\ num_clients \in Int  BY SetupFacts DEF TypeOK
<1>3. /\ Len(todo') = (IF num_clients > 0 THEN num_clients ELSE 0) /\ DOMAIN todo' = Workers
      /\ \A k \in Workers : todo'[k][1] = k /\ todo'[k][2] = [sync |-> TRUE, n |-> n]
  BY <1>2, ToAllFacts
<1>4. PICK e0 \in Entry : e0 = [sync |-> TRUE, n |-> n]  BY DEF Entry
<1>5. e0.sync = TRUE  BY <1>4
<1>6. \A w \in Workers : written[w] = <<>>  BY DEF SyncInv
<1>7. \A w \in Workers : w \in Int /\ w > 0 /\ num_clients > 0 /\ 1 \in Workers  BY <1>2 DEF Workers
<1>8. \A k \in Workers : todo'[k][2] = e0 /\ todo'[k][1] = num_clients - Len(todo') + k
  <2> SUFFICES ASSUME NEW k \in Workers PROVE todo'[k][2] = e0 /\ todo'[k][1] = num_clients - Len(todo') + k
    OBVIOUS
  <2>1. Len(todo') = num_clients  BY <1>3, <1>7
  <2>2. k = num_clients - num_clients + k  BY <1>2, <1>7
  <2>3. todo'[k][1] = num_clients - Len(todo') + k  BY <1>3, <2>1, <2>2
  <2> QED BY <1>3, <1>4, <2>3
<1>9. \A w \in Workers : Unsynced(w)'
  <2> SUFFICES ASSUME NEW w \in Workers PROVE Unsynced(w)'
    OBVIOUS
  <2>1. Len(todo') = num_clients /\ todo'[1][2] = e0 /\ DOMAIN todo' # {}  BY <1>3, <1>4, <1>7
  <2>2. todo' # <<>>
    <3>1. DOMAIN <<>> = {}  OBVIOUS
    <3> QED BY <2>1, <3>1
  <2> QED BY <1>1, <1>2, <1>5, <1>7, <2>1, <2>2 DEF Unsynced
<1>10. \A w \in Workers : DOMAIN written'[w] = {}
  <2>1. \A w \in Workers : written'[w] = <<>>  BY <1>6
  <2> QED BY <2>1
<1>11. Synced(e0)'  BY <1>1, <1>3, <1>5, <1>6, <1>8, <1>9, <1>10 DEF Synced
<1> QED BY <1>1, <1>11 DEF SyncInv, Synced

(* A query is about to be written.                                         *)
LEMMA NewQuery ==
  ASSUME TypeOK, SyncInv, setup' = setup, com_fail_retry = 0, done_sync_time, todo = <<>>,
         NEW w \in Workers, NEW e \in Entry, ~e.sync, todo' = <<<<w, e>>>>,
         done_sync_time', UNCHANGED written
  PROVE  SyncInv'
<1>1. Workers' = Workers /\ Entry' = Entry /\ num_clients' = num_clients  BY SameSetup
<1>2. PICK e0 \in Entry : Synced(e0)  BY SyncedInv
<1>3. DOMAIN todo' = {1} /\ todo'[1][2] = e  BY OneWrite
<1>4. \A v \in Workers : ~Unsynced(v)  BY DEF Unsynced
<1>5. \A v \in Workers : ~Unsynced(v)'  BY <1>3 DEF Unsynced
<1>6. \A v \in Workers : written[v] # <<>>  BY <1>2, <1>4 DEF Synced
<1>7. Synced(e0)'
  <2>1. \A k \in DOMAIN todo' : ~todo'[k][2].sync  BY <1>3
  <2> QED BY <1>1, <1>2, <1>5, <1>6, <2>1 DEF Synced
<1> QED BY <1>1, <1>7 DEF SyncInv, Synced

LEMMA WriteSync ==
  ASSUME TypeOK, TodoInv, SyncInv, com_fail_retry = 0, Write
  PROVE  SyncInv'
<1>1. PICK w \in Workers, e \in Entry, m \in Nat :
           /\ m = Len(written[w]) /\ Len(todo) \in Nat /\ 1 \in DOMAIN todo
           /\ w = todo[1][1] /\ e = todo[1][2]
           /\ todo' \in Seq(Workers \X Entry) /\ Len(todo') = Len(todo) - 1
           /\ \A k \in DOMAIN todo' : k \in Nat /\ k >= 1 /\ k + 1 \in DOMAIN todo /\ todo'[k] = todo[k + 1]
           /\ written' \in [Workers -> Seq(Entry)]
           /\ \A v \in Workers : v # w => written'[v] = written[v]
           /\ DOMAIN written[w] = 1 .. m /\ DOMAIN written'[w] = 1 .. m + 1
           /\ written'[w][m + 1] = e
           /\ \A i \in 1 .. m : written'[w][i] = written[w][i]
           /\ UNCHANGED <<setup, done_sync_time>>
  BY WriteFacts
<1>2. Workers' = Workers /\ Entry' = Entry /\ num_clients' = num_clients  BY <1>1, SameSetup
<1>3. /\ num_clients \in Int /\ setup \in Setups /\ todo \in Seq(Workers \X Entry)
      /\ written \in [Workers -> Seq(Entry)]
  BY SetupFacts DEF TypeOK
<1>4. \A v \in Workers : v \in Int /\ v <= num_clients  BY <1>3 DEF Workers
<1>5. todo # <<>>  BY <1>1
<1>6. done_sync_time  BY <1>5, SyncedInv
<1>7. PICK e0 \in Entry : Synced(e0)  BY <1>5, SyncedInv
<1>8. PICK L \in Nat : L = Len(todo) /\ L >= 1 /\ DOMAIN todo = 1 .. L  BY <1>1, <1>3
<1>9. DOMAIN todo' = 1 .. L - 1 /\ (todo' = <<>> <=> L = 1)  BY <1>1, <1>8, SMTT(60)
<1>10. written'[w] # <<>>
  <2>1. m + 1 \in DOMAIN written'[w]  BY <1>1
  <2> QED BY <2>1
<1>11. \A v \in Workers : \A i \in DOMAIN written'[v] :
         \/ i \in DOMAIN written[v] /\ written'[v][i] = written[v][i]
         \/ v = w /\ i = m + 1 /\ written'[v][i] = e
  <2> SUFFICES ASSUME NEW v \in Workers, NEW i \in DOMAIN written'[v]
               PROVE  \/ i \in DOMAIN written[v] /\ written'[v][i] = written[v][i]
                      \/ v = w /\ i = m + 1 /\ written'[v][i] = e
    OBVIOUS
  <2>1. CASE v = w
    <3>1. i \in 1 .. m + 1  BY <1>1, <2>1
    <3>2. i \in 1 .. m \/ i = m + 1  BY <3>1
    <3> QED BY <1>1, <2>1, <3>2
  <2>2. CASE v # w  BY <1>1, <2>2
  <2> QED BY <2>1, <2>2
<1>12. \A k \in DOMAIN todo' :
         todo'[k][2].sync => todo'[k][2] = e0 /\ todo'[k][1] = num_clients - Len(todo') + k
  <2> SUFFICES ASSUME NEW k \in DOMAIN todo', todo'[k][2].sync
               PROVE  todo'[k][2] = e0 /\ todo'[k][1] = num_clients - Len(todo') + k
    OBVIOUS
  <2>1. k + 1 \in DOMAIN todo /\ todo'[k] = todo[k + 1] /\ k \in Nat  BY <1>1
  <2>2. todo[k + 1][2] = e0 /\ todo[k + 1][1] = num_clients - L + (k + 1)
    BY <1>7, <1>8, <2>1 DEF Synced
  <2>3. Len(todo') = L - 1  BY <1>1, <1>8
  <2>4. num_clients - L + (k + 1) = num_clients - (L - 1) + k  BY <1>3, <2>1
  <2> QED BY <2>1, <2>2, <2>3, <2>4
<1>13. CASE e.sync
  <2>1. e = e0 /\ w = num_clients - L + 1  BY <1>1, <1>7, <1>8, <1>13 DEF Synced
  <2>2. \A v \in Workers : Unsynced(v) <=> v > num_clients - L
    BY <1>1, <1>5, <1>8, <1>13 DEF Unsynced
  <2>3. L > 1 => todo' # <<>> /\ todo'[1][2].sync
    <3> SUFFICES ASSUME L > 1 PROVE todo' # <<>> /\ todo'[1][2].sync
      OBVIOUS
    <3>1. 1 \in DOMAIN todo' /\ 2 \in DOMAIN todo /\ 1 + 1 = 2  BY <1>8, <1>9
    <3>2. todo'[1] = todo[2]  BY <1>1, <3>1
    <3>3. todo[2][2].sync  BY <3>1 DEF TodoInv
    <3> QED BY <1>9, <3>2, <3>3
  <2>4. \A v \in Workers : Unsynced(v)' <=> L > 1 /\ v > num_clients - (L - 1)
    <3>1. Len(todo') = L - 1  BY <1>1, <1>8
    <3> QED BY <1>2, <1>8, <1>9, <2>3, <3>1 DEF Unsynced
  <2>5. ASSUME NEW v \in Workers PROVE written'[v] = <<>> <=> Unsynced(v)'
    <3>1. CASE v = w
      <4>1. ~(v > num_clients - (L - 1))  BY <1>3, <2>1, <3>1
      <4> QED BY <1>10, <2>4, <3>1, <4>1
    <3>2. CASE v # w
      <4>1. written'[v] = <<>> <=> v > num_clients - L
        <5>1. written'[v] = written[v]  BY <1>1, <3>2
        <5>2. written[v] = <<>> <=> Unsynced(v)  BY <1>7 DEF Synced
        <5> QED BY <2>2, <5>1, <5>2
      <4>2. v > num_clients - L <=> L > 1 /\ v > num_clients - (L - 1)
        BY <1>3, <1>4, <1>8, <2>1, <3>2
      <4> QED BY <2>4, <4>1, <4>2
    <3> QED BY <3>1, <3>2
  <2>6. m = 0
    <3>1. w > num_clients - L  BY <1>3, <2>1
    <3>2. written[w] = <<>>  BY <1>7, <2>2, <3>1 DEF Synced
    <3> QED BY <1>1, <3>2
  <2>7. \A v \in Workers : \A i \in DOMAIN written'[v] :
          (i = 1 => written'[v][i] = e0) /\ (i # 1 => ~written'[v][i].sync)
    <3>1. m + 1 = 1  BY <2>6
    <3> QED BY <1>7, <1>11, <2>1, <3>1 DEF Synced
  <2>8. e0.sync  BY <1>7 DEF Synced
  <2>9. Synced(e0)'  BY <1>2, <1>12, <2>5, <2>7, <2>8 DEF Synced
  <2>10. done_sync_time' /\ e0 \in Entry'  BY <1>1, <1>2, <1>6
  <2> QED BY <2>9, <2>10 DEF SyncInv, Synced
<1>14. CASE ~e.sync
  <2>1. L = 1 /\ todo' = <<>>  BY <1>1, <1>8, <1>9, <1>14 DEF TodoInv
  <2>2. \A v \in Workers : ~Unsynced(v) /\ ~Unsynced(v)'  BY <1>1, <1>14, <2>1 DEF Unsynced
  <2>3. \A v \in Workers : written[v] # <<>>  BY <1>7, <2>2 DEF Synced
  <2>4. \A v \in Workers : written'[v] # <<>>  BY <1>1, <1>10, <2>3
  <2>5. m + 1 # 1
    <3>1. written[w] \in Seq(Entry) /\ written[w] # <<>>  BY <1>3, <2>3
    <3>2. Len(written[w]) # 0  BY <3>1
    <3> QED BY <1>1, <3>2
  <2>6. \A v \in Workers : \A i \in DOMAIN written'[v] :
          (i = 1 => written'[v][i] = e0) /\ (i # 1 => ~written'[v][i].sync)
    BY <1>7, <1>11, <1>14, <2>5 DEF Synced
  <2>7. e0.sync  BY <1>7 DEF Synced
  <2> QED BY <1>1, <1>2, <1>6, <1>12, <2>2, <2>4, <2>6, <2>7 DEF SyncInv, Synced
<1> QED BY <1>13, <1>14

(* While no connection is lost, the sync message comes first.              *)
LEMMA SyncSteps ==
  ASSUME SyncIsFirst, Inv, NoGapInv, SyncInv, [MainNext]_allVars
  PROVE  SyncInv'
<1>1. /\ TypeOK /\ MainInv /\ ModeInv /\ TodoInv /\ setup' = setup
      /\ com_fail_retry \in Nat
  BY SetupSame, ManagerAssumption DEF Inv, EntryInv, TypeOK
<1>2. CASE QuietStep
  <2>1. UNCHANGED <<done_sync_time, todo, written, com_fail_retry>>
    BY <1>1, <1>2, QuietSteps DEF QuietStep, Quiet, core
  <2> QED BY <1>1, <2>1, SameSync
<1>3. CASE ComSend \/ SkipInvalid \/ \E k \in 1 .. Len(stream) : ComReadCb(k)
  <2>1. UNCHANGED <<done_sync_time, todo, written, com_fail_retry>>
    BY <1>3 DEF ComSend, SkipInvalid, ComReadCb, routing, pairs, comm
  <2> QED BY <1>1, <2>1, SameSync
<1>4. CASE ComBevent
  <2>1. com_fail_retry' = com_fail_retry + 1  BY <1>4 DEF ComBevent
  <2>2. com_fail_retry' # 0  BY <1>1, <2>1
  <2> QED BY <2>2 DEF SyncInv
<1>5. CASE Write
  <2>1. UNCHANGED com_fail_retry  BY <1>5 DEF Write, comm
  <2>2. CASE com_fail_retry = 0  BY <1>1, <1>5, <2>2, WriteSync
  <2>3. CASE com_fail_retry # 0  BY <2>1, <2>3 DEF SyncInv
  <2> QED BY <2>2, <2>3
<1>6. CASE TakeMessage
  <2>1. /\ ~dist /\ todo = <<>> /\ pos < Len(Incoming)
        /\ todo' = (IF done_sync_time THEN todo ELSE ToAll(pos + 1))
        /\ done_sync_time' = TRUE /\ UNCHANGED <<written, com_fail_retry>>
    BY <1>6 DEF TakeMessage, Reading, comm
  <2>2. com_fail_retry = 0  BY <1>1, <2>1 DEF ModeInv
  <2>3. CASE done_sync_time
    <3>1. UNCHANGED <<done_sync_time, todo, written>>  BY <1>1, <2>1, <2>3 DEF TypeOK
    <3> QED BY <1>1, <2>2, <3>1, SameSync
  <2>4. CASE ~done_sync_time
    <3>1. pos + 1 \in Msgs  BY <1>1, <2>1, SetupFacts DEF TypeOK, Msgs
    <3> QED BY <1>1, <2>1, <2>2, <2>4, <3>1, NewSync
  <2> QED BY <2>3, <2>4
<1>7. CASE Forward
  <2>1. /\ ~dist /\ todo = <<>> /\ reader = "forward" /\ UNCHANGED <<written, done_sync_time>>
        /\ \E w \in Workers : todo' = <<<<w, [sync |-> FALSE, n |-> pos + 1]>>>>
    BY <1>7 DEF Forward, Reading
  <2>2. com_fail_retry = 0 /\ done_sync_time /\ pos < Len(Incoming)  BY <1>1, <2>1 DEF ModeInv
  <2>3. pos + 1 \in Msgs  BY <1>1, <2>2, SetupFacts DEF TypeOK, Msgs
  <2>4. PICK e \in Entry : e = [sync |-> FALSE, n |-> pos + 1]  BY <2>3 DEF Entry
  <2>5. ~e.sync  BY <2>4
  <2>6. PICK w \in Workers : todo' = <<<<w, e>>>>  BY <2>1, <2>4
  <2> QED BY <1>1, <2>1, <2>2, <2>5, <2>6, NewQuery
<1>8. CASE ForwardCom
  <2>1. UNCHANGED <<com_fail_retry, written>>  BY <1>8 DEF ForwardCom
  <2> SUFFICES ASSUME com_fail_retry = 0 PROVE SyncInv'
    BY <2>1 DEF SyncInv
  <2>2. Whole /\ Cut = pos + 1 /\ dist /\ pos \in Nat  BY <1>1, <1>8, ForwardComWhole
  <2>3. Cut \in Msgs  BY <1>1, <1>8, ForwardComFacts
  <2>4. done_sync_time <=> pos > 0  BY <2>2 DEF NoGapInv
  <2>5. CASE pos = 0
    <3>1. FirstSync  BY <1>1, <1>8, <2>5, SyncOfCut
    <3>2. done_sync_time' = TRUE /\ todo' = ToAll(Cut)  BY <1>8, <3>1 DEF ForwardCom, FirstSync
    <3>3. ~done_sync_time  BY <2>4, <2>5
    <3> QED BY <1>1, <2>1, <2>3, <3>2, <3>3, NewSync
  <2>6. CASE pos # 0
    <3>1. ~FirstSync /\ ~Incoming[Cut].sync  BY <1>1, <1>8, <2>6, SyncOfCut
    <3>2. /\ UNCHANGED done_sync_time /\ todo = <<>>
          /\ \E w \in Workers : todo' = <<<<w, [sync |-> Incoming[Cut].sync, n |-> Cut]>>>>
      BY <1>8, <2>2, <3>1 DEF ForwardCom
    <3>3. done_sync_time /\ Incoming[Cut].sync \in BOOLEAN
      BY <1>1, <2>2, <2>3, <2>4, <2>6, SetupFacts DEF TypeOK
    <3>4. PICK e \in Entry : e = [sync |-> Incoming[Cut].sync, n |-> Cut]  BY <2>3, <3>3 DEF Entry
    <3>5. ~e.sync  BY <3>1, <3>4
    <3>6. PICK w \in Workers : todo' = <<<<w, e>>>>  BY <3>2, <3>4
    <3> QED BY <1>1, <2>1, <3>2, <3>3, <3>5, <3>6, NewQuery
  <2> QED BY <2>5, <2>6
<1> QED BY <1>2, <1>3, <1>4, <1>5, <1>6, <1>7, <1>8, StepCases

LEMMA InitSync == MainInit => NoGapInv /\ SyncInv
<1> SUFFICES ASSUME MainInit PROVE NoGapInv /\ SyncInv
  OBVIOUS
<1>1. /\ done_sync_time = FALSE /\ todo = <<>> /\ written = [w \in Workers |-> <<>>] /\ pos = 0
      /\ sending = 0 /\ stream = <<>> /\ com_msg_buffer = <<>> /\ garbled = FALSE
  BY DEF MainInit, Fresh
<1>2. DOMAIN stream = {} /\ DOMAIN com_msg_buffer = {} /\ Len(stream) = 0 /\ Len(com_msg_buffer) = 0
  BY <1>1
<1>3. NoGapInv  BY <1>1, <1>2 DEF NoGapInv
<1>4. \A w \in Workers : written[w] = <<>>  BY <1>1
<1>5. SyncInv  BY <1>1, <1>4 DEF SyncInv
<1> QED BY <1>3, <1>5

(* Each worker is given the sync message first and only once, and all the  *)
(* same one: from a file, whatever it holds; from a controller, which      *)
(* sends one sync message and sends it first, while the connection holds.  *)
THEOREM SyncFirstCorrect == ASSUME SyncIsFirst PROVE MainSpec => []SyncFirst
<1>1. Inv /\ NoGapInv /\ SyncInv /\ [MainNext]_allVars => (Inv /\ NoGapInv /\ SyncInv)'
  BY SyncIsFirst, NextInv, NoGapSteps, SyncSteps
<1>2. Inv /\ SyncInv => SyncFirst
  <2> SUFFICES ASSUME Inv, SyncInv, com_fail_retry = 0,
                      NEW w \in Workers, NEW i \in DOMAIN written[w]
               PROVE  /\ written[w][i].sync <=> i = 1
                      /\ \A v \in Workers : written[v] # <<>> => written[v][1] = written[w][1]
    BY DEF SyncFirst
  <2>1. written \in [Workers -> Seq(Entry)]  BY DEF Inv, TypeOK
  <2>2. written[w] # <<>>
    <3>1. DOMAIN <<>> = {}  OBVIOUS
    <3> QED BY <3>1
  <2>3. PICK e0 \in Entry : Synced(e0)  BY <2>2, SyncedInv
  <2>4. \A v \in Workers : written[v] # <<>> => 1 \in DOMAIN written[v]  BY <2>1
  <2>5. \A v \in Workers : written[v] # <<>> => written[v][1] = e0  BY <2>3, <2>4 DEF Synced
  <2>6. e0.sync /\ (i = 1 => written[w][i] = e0) /\ (i # 1 => ~written[w][i].sync)
    BY <2>3 DEF Synced
  <2> QED BY <2>2, <2>5, <2>6
<1> QED BY <1>1, <1>2, InitInv, InitSync, PTL DEF MainSpec

-----------------------------------------------------------------------------
(* The limit.                                                              *)

(* An entry that was handed to a worker, or is in the handler's hands.     *)
Given(e) ==
  \/ \E k \in DOMAIN todo : todo[k][2] = e
  \/ \E w \in Workers : \E i \in DOMAIN written[w] : written[w][i] = e
Clocked ==
  /\ trace_start_ts = -1 => Taken(pos) = {} /\ \A e : Given(e) => e.sync
  /\ trace_start_ts # -1 /\ query_pace > 0 => trace_start_ts = 1
  /\ \A e : Given(e) /\ ~e.sync => InTime(e.n)

LEMMA ClockedInv == ClockInv <=> (trace_limit > 0 /\ ~dist => Clocked)
  BY DEF ClockInv, Clocked, Given

LEMMA GivenQuery ==
  ASSUME TypeOK, ModeInv, TodoInv, TakenInv, ~dist, NEW e, Given(e), ~e.sync
  PROVE  e.n \in Msgs
<1>1. ~garbled  BY DEF ModeInv
<1>2. pos \in 0 .. Len(Incoming) /\ Len(Incoming) \in Nat  BY SetupFacts DEF TypeOK
<1>3. e.n \in 1 .. pos  BY <1>1 DEF Given, TodoInv, TakenInv
<1> QED BY <1>2, <1>3 DEF Msgs

(* The time of a query, and its place among the queries.                   *)
LEMMA TimeFacts ==
  ASSUME setup \in Setups, trace_start_ts \in Nat \cup {-1}, NEW n \in Msgs
  PROVE  /\ TimeOf(n) \in Int
         /\ query_pace > 0 => TimeOf(n) = query_pace * Cardinality(Taken(n - 1))
<1>1. n \in Nat /\ Incoming[n].ts \in Nat /\ query_pace \in Int  BY SetupFacts
<1>2. IsFiniteSet(1 .. n - 1)  BY <1>1, FS_Interval
<1>3. IsFiniteSet(Taken(n - 1))  BY <1>2, FS_Subset DEF Taken
<1>4. PICK c \in Nat : c = Cardinality(Taken(n - 1))  BY <1>3, FS_CardinalityType
<1>5. query_pace > 0 => TimeOf(n) = query_pace * c  BY <1>4 DEF TimeOf, Taken
<1>6. ~(query_pace > 0) => TimeOf(n) = Incoming[n].ts - trace_start_ts  BY DEF TimeOf
<1>7. query_pace * c \in Int  BY <1>1
<1>8. Incoming[n].ts - trace_start_ts \in Int  BY <1>1
<1> QED BY <1>4, <1>5, <1>6, <1>7, <1>8

(* Time passes, and no query is added.                                     *)
LEMMA SameClock ==
  ASSUME TypeOK, ModeInv, TodoInv, TakenInv, ClockInv, setup' = setup,
         UNCHANGED <<trace_start_ts, real_start_ts>>, now' \in Nat, now' >= now,
         Taken(pos)' = Taken(pos),
         \A e : Given(e)' => Given(e) \/ e.sync
  PROVE  ClockInv'
<1>1. trace_limit' = trace_limit /\ dist' = dist /\ query_pace' = query_pace /\ Incoming' = Incoming
  BY SameSetup
<1>2. /\ setup \in Setups /\ trace_start_ts \in Nat \cup {-1} /\ real_start_ts \in Nat \cup {-1}
      /\ now \in Nat /\ trace_limit \in Int
  BY SetupFacts DEF TypeOK
<1> SUFFICES ASSUME trace_limit > 0, ~dist PROVE Clocked'
  BY <1>1, ClockedInv DEF ClockInv, Clocked, Given
<1>3. Clocked  BY ClockedInv
<1>4. ASSUME NEW e, Given(e), ~e.sync PROVE InTime(e.n)'
  <2>1. e.n \in Msgs  BY <1>4, GivenQuery
  <2>2. PICK t \in Int : t = TimeOf(e.n)  BY <1>2, <2>1, TimeFacts
  <2>3. TimeOf(e.n)' = t  BY <1>1, <2>2 DEF TimeOf
  <2>4. t - (now - real_start_ts) <= trace_limit + SLEEP_TIME  BY <1>3, <1>4, <2>2 DEF Clocked, InTime
  <2>5. t - (now' - real_start_ts) <= trace_limit + SLEEP_TIME
    <3>1. PICK r \in Int, x \in Int, y \in Int : r = real_start_ts /\ x = now /\ y = now' /\ y >= x
      BY <1>2
    <3>2. PICK l \in Int : l = trace_limit  BY <1>2
    <3>3. t - (x - r) <= l + 1  BY <2>4, <3>1, <3>2 DEF SLEEP_TIME
    <3>4. t - (y - r) <= l + 1
      <4>1. y >= x  BY <3>1
      <4> QED BY ONLY <3>3, <4>1, t \in Int, r \in Int, x \in Int, y \in Int, l \in Int
    <3> QED BY <3>1, <3>2, <3>4 DEF SLEEP_TIME
  <2> QED BY <1>1, <2>3, <2>5 DEF InTime
<1> QED BY <1>1, <1>3, <1>4 DEF Clocked

(* A query is handed over: by then it is within the limit, or it is the    *)
(* first one and starts the clock.                                         *)
LEMMA ForwardClock ==
  ASSUME TypeOK, ModeInv, PaceInv, TodoInv, TakenInv, ClockInv, Forward
  PROVE  ClockInv'
<1>1. /\ setup' = setup /\ ~dist /\ reader = "forward" /\ WithinLimit /\ todo = <<>>
      /\ pos' = pos + 1 /\ UNCHANGED <<written, now>>
      /\ \E w \in Workers : todo' = <<<<w, [sync |-> FALSE, n |-> pos + 1]>>>>
  BY DEF Forward, Reading
<1>2. /\ trace_limit' = trace_limit /\ dist' = dist /\ query_pace' = query_pace
      /\ Incoming' = Incoming /\ Workers' = Workers
  BY <1>1, SameSetup
<1>3. /\ setup \in Setups /\ trace_start_ts \in Nat \cup {-1} /\ real_start_ts \in Nat \cup {-1}
      /\ now \in Nat /\ trace_limit \in Int /\ query_pace \in Int /\ pos \in Nat
      /\ Len(Incoming) \in Nat
  BY SetupFacts, EntryFacts DEF TypeOK
<1> SUFFICES ASSUME trace_limit > 0 PROVE Clocked'
  BY <1>1, <1>2, ClockedInv DEF ClockInv, Clocked, Given
<1>4. Clocked  BY <1>1, ClockedInv
<1>5. PICK n1 \in Msgs : n1 = pos + 1  BY <1>1, <1>3 DEF ModeInv, Msgs
<1>6. PICK e0 : e0 = [sync |-> FALSE, n |-> n1]  OBVIOUS
<1>7. ~e0.sync /\ e0.n = n1  BY <1>6
<1>8. ASSUME NEW e, Given(e)' PROVE Given(e) \/ e = e0
  <2>1. PICK w \in Workers : todo' = <<<<w, e0>>>>  BY <1>1, <1>5, <1>6
  <2>2. \A k \in DOMAIN todo' : todo'[k][2] = e0
    <3>1. PICK u : u = <<w, e0>>  OBVIOUS
    <3>2. DOMAIN todo' = {1} /\ todo'[1] = u /\ u[2] = e0  BY <2>1, <3>1
    <3> QED BY <3>2
  <2>3. CASE \E k \in DOMAIN todo' : todo'[k][2] = e  BY <2>2, <2>3
  <2>4. CASE \E v \in Workers : \E i \in DOMAIN written[v] : written[v][i] = e  BY <2>4 DEF Given
  <2> QED BY <1>1, <1>2, <1>8, <2>3, <2>4 DEF Given
<1>9. PICK c \in Nat : c = Cardinality(Taken(pos))  BY <1>3, <1>5, TakenNext
<1>10. n1 - 1 = pos /\ n1 \in Nat  BY <1>3, <1>5
<1>11. Incoming[n1].ts \in Nat  BY <1>3, <1>5, SetupFacts
<1>12. PICK p \in Int : p = query_pace * c  BY <1>3
<1>13. query_pace > 0 => Stamp = 1 + p  BY <1>9, <1>12, ForwardFacts
<1>14. ~(query_pace > 0) => Stamp = Incoming[n1].ts  BY <1>5 DEF Stamp, Next1
<1>15. CASE trace_start_ts = -1
  <2>1. trace_start_ts' = Stamp /\ real_start_ts' = now  BY <1>15 DEF Forward
  <2>2. Taken(pos) = {} /\ \A e : Given(e) => e.sync  BY <1>4, <1>15 DEF Clocked
  <2>3. c = 0  BY <1>9, <2>2, FS_EmptySet
  <2>4. p = 0  BY <1>3, <1>12, <2>3
  <2>5. Stamp \in Nat /\ (query_pace > 0 => Stamp = 1)  BY <1>11, <1>13, <1>14, <2>4
  <2>6. TimeOf(n1)' = 0
    <3>1. CASE query_pace > 0
      <4>1. TimeOf(n1)' = query_pace * Cardinality(Taken(pos))
        BY <1>2, <1>10, <3>1 DEF TimeOf, Taken
      <4> QED BY <1>9, <1>12, <2>4, <4>1
    <3>2. CASE ~(query_pace > 0)
      <4>1. TimeOf(n1)' = Incoming[n1].ts - Incoming[n1].ts
        BY <1>1, <1>2, <1>14, <2>1, <3>2 DEF TimeOf
      <4> QED BY <1>11, <4>1
    <3> QED BY <3>1, <3>2
  <2>7. InTime(n1)'
    <3>1. 0 - (now - now) <= trace_limit + 1  BY <1>3
    <3> QED BY <1>1, <1>2, <2>1, <2>6, <3>1 DEF InTime, SLEEP_TIME
  <2>8. \A e : Given(e)' /\ ~e.sync => InTime(e.n)'  BY <1>7, <1>8, <2>2, <2>7
  <2>9. trace_start_ts' # -1 /\ (query_pace > 0 => trace_start_ts' = 1)  BY <2>1, <2>5
  <2> QED BY <1>2, <2>8, <2>9 DEF Clocked
<1>16. CASE trace_start_ts # -1
  <2>1. UNCHANGED <<trace_start_ts, real_start_ts>>  BY <1>16 DEF Forward
  <2>2. (Stamp - trace_start_ts) - (now - real_start_ts) <= trace_limit + SLEEP_TIME
    BY <1>1, <1>16 DEF WithinLimit
  <2>3. TimeOf(n1) = Stamp - trace_start_ts
    <3>1. CASE query_pace > 0
      <4>1. TimeOf(n1) = p  BY <1>3, <1>5, <1>9, <1>10, <1>12, <3>1, TimeFacts
      <4>2. trace_start_ts = 1  BY <1>4, <1>16, <3>1 DEF Clocked
      <4>3. Stamp = 1 + p  BY <1>13, <3>1
      <4> QED BY <4>1, <4>2, <4>3
    <3>2. CASE ~(query_pace > 0)  BY <1>14, <3>2 DEF TimeOf
    <3> QED BY <3>1, <3>2
  <2>4. ASSUME NEW n, InTime(n) PROVE InTime(n)'
    BY <1>1, <1>2, <2>1, <2>4 DEF InTime, TimeOf
  <2>5. InTime(n1)  BY <2>2, <2>3 DEF InTime
  <2>6. \A e : Given(e)' /\ ~e.sync => InTime(e.n)'
    BY <1>4, <1>7, <1>8, <2>4, <2>5 DEF Clocked
  <2> QED BY <1>2, <1>4, <1>16, <2>1, <2>6 DEF Clocked
<1> QED BY <1>15, <1>16

LEMMA ClockSteps ==
  ASSUME Inv, ClockInv, [MainNext]_allVars
  PROVE  ClockInv'
<1>1. /\ TypeOK /\ MainInv /\ ModeInv /\ PaceInv /\ TodoInv /\ TakenInv /\ setup' = setup
      /\ setup \in Setups /\ now \in Nat /\ pos \in Nat /\ now >= now
  BY SetupSame, EntryFacts DEF Inv, EntryInv, TypeOK
<1>2. Workers' = Workers /\ Incoming' = Incoming /\ dist' = dist  BY <1>1, SameSetup
<1>3. CASE QuietStep
  <2>1. /\ UNCHANGED <<todo, written, pos, trace_start_ts, real_start_ts>>
        /\ now' \in Nat /\ now' >= now
    BY <1>1, <1>3, QuietSteps DEF QuietStep, Quiet, core
  <2>2. \A e : Given(e)' => Given(e)  BY <1>2, <2>1 DEF Given
  <2>3. Taken(pos)' = Taken(pos)  BY <1>2, <2>1 DEF Taken
  <2> QED BY <1>1, <2>1, <2>2, <2>3, SameClock
<1>4. CASE Write
  <2>1. UNCHANGED <<pos, trace_start_ts, real_start_ts, now>>  BY <1>4 DEF Write, file
  <2>2. PICK w \in Workers, e1 \in Entry, m \in Nat :
           /\ m = Len(written[w]) /\ 1 \in DOMAIN todo /\ e1 = todo[1][2]
           /\ \A k \in DOMAIN todo' : k \in Nat /\ k >= 1 /\ k + 1 \in DOMAIN todo /\ todo'[k] = todo[k + 1]
           /\ \A v \in Workers : v # w => written'[v] = written[v]
           /\ DOMAIN written[w] = 1 .. m /\ DOMAIN written'[w] = 1 .. m + 1
           /\ written'[w][m + 1] = e1
           /\ \A i \in 1 .. m : written'[w][i] = written[w][i]
    BY <1>1, <1>4, WriteFacts, SMTT(60)
  <2>3. ASSUME NEW e, Given(e)' PROVE Given(e)
    <3>1. CASE \E k \in DOMAIN todo' : todo'[k][2] = e  BY <2>2, <3>1 DEF Given
    <3>2. ASSUME NEW v \in Workers, NEW i \in DOMAIN written'[v], written'[v][i] = e PROVE Given(e)
      <4>1. CASE v # w  BY <2>2, <3>2, <4>1 DEF Given
      <4>2. CASE v = w /\ i = m + 1  BY <2>2, <3>2, <4>2 DEF Given
      <4>3. CASE v = w /\ i \in 1 .. m  BY <2>2, <3>2, <4>3 DEF Given
      <4>4. v = w => i \in 1 .. m + 1  BY <2>2
      <4>5. v = w => i = m + 1 \/ i \in 1 .. m  BY <4>4
      <4> QED BY <4>1, <4>2, <4>3, <4>5
    <3> QED BY <1>2, <2>3, <3>1, <3>2 DEF Given
  <2>4. Taken(pos)' = Taken(pos)  BY <1>2, <2>1 DEF Taken
  <2> QED BY <1>1, <2>1, <2>3, <2>4, SameClock
<1>5. CASE SkipInvalid
  <2>1. /\ UNCHANGED <<todo, written, trace_start_ts, real_start_ts, now>>
        /\ pos' = pos + 1 /\ pos < Len(Incoming) /\ ~Incoming[pos + 1].raw
    BY <1>5 DEF SkipInvalid, pairs, file, Next1
  <2>2. \A e : Given(e)' => Given(e)  BY <1>2, <2>1 DEF Given
  <2>3. pos + 1 \in Msgs  BY <1>1, <2>1, SetupFacts DEF Msgs
  <2>4. Taken(pos + 1) = Taken(pos)  BY <1>1, <2>1, <2>3, TakenNext
  <2>5. Taken(pos)' = Taken(pos + 1)  BY <1>2, <2>1 DEF Taken
  <2> QED BY <1>1, <2>1, <2>2, <2>4, <2>5, SameClock
<1>6. CASE TakeMessage
  <2>1. /\ UNCHANGED <<written, pos, trace_start_ts, real_start_ts, now>>
        /\ pos < Len(Incoming) /\ todo' = (IF done_sync_time THEN todo ELSE ToAll(pos + 1))
    BY <1>6 DEF TakeMessage
  <2>2. pos + 1 \in Msgs  BY <1>1, <2>1, SetupFacts DEF Msgs
  <2>3. \A e : Given(e)' => Given(e) \/ e.sync
    <3>1. CASE done_sync_time  BY <1>2, <2>1, <3>1 DEF Given
    <3>2. CASE ~done_sync_time
      <4>1. /\ DOMAIN todo' = Workers
            /\ \A k \in Workers : todo'[k][2] = [sync |-> TRUE, n |-> pos + 1]
        BY <1>1, <2>1, <2>2, <3>2, ToAllFacts
      <4>2. \A k \in DOMAIN todo' : todo'[k][2].sync  BY <4>1
      <4> QED BY <1>2, <2>1, <4>2 DEF Given
    <3> QED BY <3>1, <3>2
  <2>4. Taken(pos)' = Taken(pos)  BY <1>2, <2>1 DEF Taken
  <2> QED BY <1>1, <2>1, <2>3, <2>4, SameClock
<1>7. CASE Forward  BY <1>1, <1>7, ForwardClock
<1>8. CASE ComSend \/ (\E k \in 1 .. Len(stream) : ComReadCb(k)) \/ ForwardCom \/ ComBevent
  <2>1. dist
    <3>1. CASE ComSend  BY <1>1, <3>1 DEF ComSend, ModeInv
    <3>2. CASE ForwardCom  BY <1>1, <3>2 DEF ForwardCom, ModeInv
    <3>3. CASE ComBevent \/ \E k \in 1 .. Len(stream) : ComReadCb(k)
      BY <3>3 DEF ComBevent, ComReadCb
    <3> QED BY <1>8, <3>1, <3>2, <3>3
  <2> QED BY <1>2, <2>1 DEF ClockInv
<1> QED BY <1>3, <1>4, <1>5, <1>6, <1>7, <1>8, StepCases

(* With a limit, no query is handed to a worker more than trace_limit and  *)
(* one sleep ahead of its time, counted from the first, for any file, any  *)
(* pace, and however the clock, the writes and the workers go on.          *)
THEOREM LimitCorrect == MainSpec => []LimitHolds
<1>1. MainInit => ClockInv
  <2> SUFFICES ASSUME MainInit PROVE ClockInv
    OBVIOUS
  <2>1. todo = <<>> /\ written = [w \in Workers |-> <<>>] /\ pos = 0 /\ trace_start_ts = -1
    BY DEF MainInit, Fresh
  <2>2. DOMAIN todo = {} /\ \A w \in Workers : DOMAIN written[w] = {}  BY <2>1
  <2>3. Taken(pos) = {}  BY <2>1 DEF Taken
  <2> QED BY <2>1, <2>2, <2>3 DEF ClockInv
<1>2. Inv /\ ClockInv /\ [MainNext]_allVars => (Inv /\ ClockInv)'
  BY NextInv, ClockSteps
<1>3. ClockInv => LimitHolds  BY DEF ClockInv, LimitHolds, InTime
<1> QED BY <1>1, <1>2, <1>3, InitInv, PTL DEF MainSpec
=============================================================================
