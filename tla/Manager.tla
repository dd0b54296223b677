------------------------------ MODULE Manager ------------------------------
(***************************************************************************)
(* The manager process of dns-replay-client-1.0 (manager.cc): it takes the *)
(* messages of the commander (dist, one thread) or of an input file (a     *)
(* thread of its own beside the event loop) and writes each to one of its  *)
(* worker processes, whose socket pairs are blocking.                      *)
(*                                                                         *)
(* A socket pair never reports a closed peer: every process inherits both  *)
(* ends of all pairs.  Framing has the bytes of the streams; here the      *)
(* commander's stream is made of length fields and bodies.                 *)
(***************************************************************************)
EXTENDS Integers, Sequences, FiniteSets

CONSTANTS
  Setups,            \* what a manager may be given, as records:
                     \*   incoming         records [sync, src, ts, raw]; raw is
                     \*                    FALSE for no payload
                     \*   dist             distributed mode
                     \*   disable_mapping
                     \*   trace_limit      not positive: no limit
                     \*   query_pace       not positive: the trace's own times
                     \*   num_clients      worker processes
  Srcs,
  WorkersMayFail,    \* whether a worker can exit with an error, one at most
  FAIL_RETRY_LIMIT,  \* 5 in the code
  Cap,               \* bound: messages a socket pair holds
  MaxNow             \* bound: the clock

Message == [sync : BOOLEAN, src : Srcs, ts : Nat, raw : BOOLEAN]
Setup   == [incoming : Seq(Message), dist : BOOLEAN, disable_mapping : BOOLEAN,
            trace_limit : Int, query_pace : Int, num_clients : Int]
ASSUME ManagerAssumption ==
  /\ Setups \subseteq Setup /\ WorkersMayFail \in BOOLEAN
  /\ FAIL_RETRY_LIMIT \in Nat \ {0} /\ Cap \in Nat \ {0} /\ MaxNow \in Nat

VARIABLES
  setup,             \* this manager's options and input
  done_sync_time,
  client_src2fd,     \* the worker of a source, or 0
  todo,              \* the write() calls that the running handler still makes
  blocked,           \* the first of them is waiting for room, in the kernel
  written,           \* what was written to each worker
  read,              \* how much of that it has read
  alive,             \* the workers that have not exited
  pos,               \* messages taken from the input
  \* the commander's connection
  com,               \* "connecting" or "up"
  com_fail_retry,
  sending,           \* messages the commander has written
  stream,            \* what is on its way
  com_msg_buffer,
  in_com_read_cb,
  garbled,           \* com_msg_buffer no longer starts at a length field
  \* the thread that reads the input file
  reader,            \* "read", "forward" or "done"
  query_pace_ts,
  trace_start_ts, real_start_ts,     \* -1: not set
  now,
  \* the end
  signalled,
  loop,              \* "dispatch" or "done", when the descriptors are closed
  status             \* "absent", "sleeping", "running", "ended" or "aborted"

routing == <<done_sync_time, client_src2fd>>
pairs   == <<todo, blocked, written, read, alive>>
comm    == <<com, com_fail_retry, sending, stream, com_msg_buffer, in_com_read_cb,
             garbled>>
file    == <<reader, query_pace_ts, trace_start_ts, real_start_ts>>
end     == <<signalled, loop, status>>
vars    == <<setup, routing, pairs, pos, comm, file, now, end>>

Incoming        == setup.incoming
dist            == setup.dist
disable_mapping == setup.disable_mapping
trace_limit     == setup.trace_limit
query_pace      == setup.query_pace
num_clients     == setup.num_clients

Workers == 1 .. num_clients
Msgs    == 1 .. Len(Incoming)
Entry   == [sync : BOOLEAN, n : Msgs \cup {0}]        \* 0: not a message
Unit    == [part : {"length", "body"}, n : Msgs]

(* The types of the state: a worker reads no more than was written to it,  *)
(* and com_bevent_cb gives up before the count passes the limit.           *)
TypeOK ==
  /\ setup \in Setups
  /\ done_sync_time \in BOOLEAN /\ client_src2fd \in [Srcs -> Workers \cup {0}]
  /\ todo \in Seq(Workers \X Entry) /\ blocked \in BOOLEAN
  /\ written \in [Workers -> Seq(Entry)]
  /\ read \in [Workers -> Nat] /\ \A w \in Workers : read[w] <= Len(written[w])
  /\ alive \subseteq Workers /\ pos \in 0 .. Len(Incoming)
  /\ com \in {"connecting", "up"} /\ com_fail_retry \in 0 .. FAIL_RETRY_LIMIT
  /\ sending \in 0 .. Len(Incoming)
  /\ stream \in Seq(Unit) /\ com_msg_buffer \in Seq(Unit)
  /\ in_com_read_cb \in BOOLEAN /\ garbled \in BOOLEAN
  /\ reader \in {"read", "forward", "done"} /\ query_pace_ts \in Nat
  /\ trace_start_ts \in Nat \cup {-1} /\ real_start_ts \in Nat \cup {-1} /\ now \in Nat
  /\ signalled \in BOOLEAN /\ loop \in {"dispatch", "done"}
  /\ status \in {"absent", "sleeping", "running", "ended", "aborted"}

FAKE_TRACE_START_TIME == 1

(* A manager that has not taken its first step.                            *)
Fresh ==
  /\ setup \in Setups
  /\ done_sync_time = FALSE /\ client_src2fd = [s \in Srcs |-> 0]
  /\ todo = <<>> /\ blocked = FALSE /\ written = [w \in Workers |-> <<>>] /\ read = [w \in Workers |-> 0]
  /\ pos = 0
  /\ com = "connecting" /\ com_fail_retry = 0 /\ sending = 0
  /\ stream = <<>> /\ com_msg_buffer = <<>> /\ in_com_read_cb = FALSE /\ garbled = FALSE
  /\ reader = IF dist THEN "done" ELSE "read"
  /\ query_pace_ts = FAKE_TRACE_START_TIME /\ trace_start_ts = -1 /\ real_start_ts = -1 /\ now = 1
  /\ signalled = FALSE /\ loop = "dispatch"

Init == Fresh /\ alive = Workers /\ status = "running"

Running == status = "running"

-----------------------------------------------------------------------------
(* Both modes.                                                             *)

(* rand_client_fd: the worker of a source, chosen when it is first seen.   *)
RandClientFdUnmapped(src, w) ==      \* mutant: the choice is not remembered
  UNCHANGED client_src2fd
RandClientFd(src, w) ==
  \/ disable_mapping /\ UNCHANGED client_src2fd
  \/ /\ ~disable_mapping /\ client_src2fd[src] = 0
     /\ client_src2fd' = [client_src2fd EXCEPT ![src] = w]
  \/ ~disable_mapping /\ client_src2fd[src] = w /\ UNCHANGED client_src2fd

(* The sync message goes to all workers.                                   *)
ToAll(n) == [w \in Workers |-> <<w, [sync |-> TRUE, n |-> n]>>]

(* write() of a length and a message.  It blocks while the pair is full,   *)
(* and then does not notice that another thread closes the descriptor.     *)
Room(w) == Len(written[w]) - read[w] < Cap
Target  == Head(todo)[1]

Write ==
  /\ Running /\ todo # <<>>
  /\ blocked \/ loop = "dispatch"
  /\ Room(Target)
  /\ written' = [written EXCEPT ![Target] = Append(@, Head(todo)[2])]
  /\ todo' = Tail(todo) /\ blocked' = FALSE
  /\ UNCHANGED <<setup, routing, read, alive, pos, comm, file, now, end>>

WriteBlocks ==
  /\ Running /\ todo # <<>> /\ ~blocked
  /\ loop = "dispatch" /\ ~Room(Target)
  /\ blocked' = TRUE
  /\ UNCHANGED <<setup, routing, todo, written, read, alive, pos, comm, file, now, end>>

(* The workers get the signal, too, or SIGTERM from log_err.               *)
TerminatedBySignal == signalled      \* mutant: log_err leaves the workers alone
Terminated == signalled \/ status = "aborted"

(* External: a worker reads, exits when it is told to, or exits with an    *)
(* error of its own.                                                       *)
WorkerRead(w) ==
  /\ w \in alive /\ read[w] < Len(written[w])
  /\ read' = [read EXCEPT ![w] = @ + 1]
  /\ UNCHANGED <<setup, routing, todo, blocked, written, alive, pos, comm, file, now, end>>

WorkerExit(w) ==
  /\ Terminated /\ w \in alive
  /\ alive' = alive \ {w}
  /\ UNCHANGED <<setup, routing, todo, blocked, written, read, pos, comm, file, now, end>>

WorkerFails(w) ==
  /\ WorkersMayFail /\ alive = Workers /\ w \in alive
  /\ alive' = alive \ {w}
  /\ UNCHANGED <<setup, routing, todo, blocked, written, read, pos, comm, file, now, end>>

-----------------------------------------------------------------------------
(* Distributed mode.                                                       *)

(* External: the connection is made, and the commander writes a message.   *)
ComConnected ==
  /\ dist /\ Running /\ com = "connecting" /\ loop = "dispatch"
  /\ com' = "up"
  /\ UNCHANGED <<setup, routing, pairs, pos, com_fail_retry, sending, stream, com_msg_buffer,
                 in_com_read_cb, garbled, file, now, end>>

ComSend ==
  /\ com = "up" /\ sending < Len(Incoming)
  /\ sending' = sending + 1
  /\ stream' = stream \o <<[part |-> "length", n |-> sending + 1],
                           [part |-> "body",   n |-> sending + 1]>>
  /\ UNCHANGED <<setup, routing, pairs, pos, com, com_fail_retry, com_msg_buffer,
                 in_com_read_cb, garbled, file, now, end>>

(* com_read_cb takes k units; the loop cuts them into messages.            *)
ComReadCb(k) ==
  /\ dist /\ Running /\ loop = "dispatch" /\ com = "up" /\ ~in_com_read_cb
  /\ k \in 1 .. Len(stream)
  /\ com_msg_buffer' = com_msg_buffer \o SubSeq(stream, 1, k)
  /\ stream' = SubSeq(stream, k + 1, Len(stream))
  /\ in_com_read_cb' = TRUE
  /\ UNCHANGED <<setup, routing, pairs, pos, com, com_fail_retry, sending, garbled, file,
                 now, end>>

(* One message of the loop: the first sync message to all, any other to    *)
(* one worker.                                                             *)
Cut       == com_msg_buffer[1].n
Whole     == /\ ~garbled /\ com_msg_buffer[1].part = "length" /\ com_msg_buffer[2].n = Cut
FirstSync == Whole /\ Incoming[Cut].sync /\ ~done_sync_time

ForwardCom ==
  /\ in_com_read_cb /\ todo = <<>> /\ Len(com_msg_buffer) >= 2
  /\ \/ /\ FirstSync
        /\ done_sync_time' = TRUE /\ todo' = ToAll(Cut)
        /\ UNCHANGED <<client_src2fd, garbled>>
     \/ /\ Whole /\ ~FirstSync
        /\ \E w \in Workers : /\ RandClientFd(Incoming[Cut].src, w)
                              /\ todo' = <<<<w, [sync |-> Incoming[Cut].sync, n |-> Cut]>>>>
        /\ UNCHANGED <<done_sync_time, garbled>>
     \/ /\ ~Whole /\ garbled' = TRUE
        /\ \E w \in Workers : todo' = <<<<w, [sync |-> FALSE, n |-> 0]>>>>
        /\ UNCHANGED <<done_sync_time, client_src2fd>>
  /\ pos' = Cut
  /\ com_msg_buffer' = SubSeq(com_msg_buffer, 3, Len(com_msg_buffer))
  /\ UNCHANGED <<setup, blocked, written, read, alive, com, com_fail_retry, sending, stream,
                 in_com_read_cb, file, now, end>>

ComReadEnds ==
  /\ in_com_read_cb /\ todo = <<>> /\ Len(com_msg_buffer) < 2
  /\ in_com_read_cb' = FALSE
  /\ UNCHANGED <<setup, routing, pairs, pos, com, com_fail_retry, sending, stream,
                 com_msg_buffer, garbled, file, now, end>>

(* com_bevent_cb, when an attempt fails or the connection is lost: what    *)
(* was on its way is gone, com_msg_buffer keeps what it has.               *)
ComBevent ==
  /\ dist /\ Running /\ loop = "dispatch" /\ ~in_com_read_cb
  /\ com_fail_retry' = com_fail_retry + 1
  /\ com' = "connecting" /\ stream' = <<>>
  /\ status' = IF com_fail_retry' >= FAIL_RETRY_LIMIT THEN "aborted" ELSE status
  /\ UNCHANGED <<setup, routing, pairs, pos, sending, com_msg_buffer, in_com_read_cb, garbled, file,
                 now, signalled, loop>>

-----------------------------------------------------------------------------
(* read_input_file.                                                        *)

Reading == Running /\ ~dist /\ todo = <<>>
Next1 == Incoming[pos + 1]

SkipInvalid ==
  /\ Reading /\ reader = "read" /\ pos < Len(Incoming) /\ ~Next1.raw
  /\ pos' = pos + 1
  /\ UNCHANGED <<setup, routing, pairs, comm, file, now, end>>

(* A message is taken: it gets its paced time, and the first one goes to   *)
(* all workers as the sync message.                                        *)
TakeMessageUnsynced ==     \* mutant: done_sync_time is set, nothing is sent
  /\ Reading /\ reader = "read" /\ pos < Len(Incoming) /\ Next1.raw
  /\ query_pace_ts' = IF query_pace > 0 THEN query_pace_ts + query_pace ELSE query_pace_ts
  /\ done_sync_time' = TRUE
  /\ reader' = "forward"
  /\ UNCHANGED <<setup, client_src2fd, pairs, pos, comm, trace_start_ts, real_start_ts, now, end>>
TakeMessage ==
  /\ Reading /\ reader = "read" /\ pos < Len(Incoming) /\ Next1.raw
  /\ query_pace_ts' = IF query_pace > 0 THEN query_pace_ts + query_pace ELSE query_pace_ts
  /\ todo' = IF done_sync_time THEN todo ELSE ToAll(pos + 1)
  /\ done_sync_time' = TRUE
  /\ reader' = "forward"
  /\ UNCHANGED <<setup, client_src2fd, blocked, written, read, alive, pos, comm, trace_start_ts,
                 real_start_ts, now, end>>

SLEEP_TIME == 1
Stamp == IF query_pace > 0 THEN query_pace_ts - query_pace ELSE Next1.ts

(* The loop that sleeps while the trace is too far ahead of real time.     *)
WithinLimitAlways == TRUE      \* mutant: no waiting
WithinLimit ==
  trace_limit > 0 /\ trace_start_ts # -1 =>
    (Stamp - trace_start_ts) - (now - real_start_ts) <= trace_limit + SLEEP_TIME

Forward ==
  /\ Reading /\ reader = "forward" /\ WithinLimit
  /\ IF trace_limit > 0 /\ trace_start_ts = -1
       THEN trace_start_ts' = Stamp /\ real_start_ts' = now
       ELSE UNCHANGED <<trace_start_ts, real_start_ts>>
  /\ \E w \in Workers : /\ RandClientFd(Next1.src, w)
                        /\ todo' = <<<<w, [sync |-> FALSE, n |-> pos + 1]>>>>
  /\ pos' = pos + 1 /\ reader' = "read"
  /\ UNCHANGED <<setup, done_sync_time, blocked, written, read, alive, comm, query_pace_ts, now, end>>

(* rand_client_fd divides by num_clients: without a worker the process     *)
(* dies when it has the first message to route.                            *)
RandClientFdDies ==
  /\ Running /\ num_clients = 0 /\ todo = <<>>
  /\ \/ reader = "forward" /\ WithinLimit
     \/ in_com_read_cb /\ Len(com_msg_buffer) >= 2 /\ ~FirstSync
  /\ status' = "aborted"
  /\ UNCHANGED <<setup, routing, pairs, pos, comm, file, now, signalled, loop>>

ReadEndsEarly ==     \* mutant: off by one
  /\ Reading /\ reader = "read" /\ pos >= Len(Incoming) - 1
  /\ reader' = "done"
  /\ UNCHANGED <<setup, routing, pairs, pos, comm, query_pace_ts, trace_start_ts, real_start_ts, now,
                 end>>
ReadEnds ==
  /\ Reading /\ reader = "read" /\ pos = Len(Incoming)
  /\ reader' = "done"
  /\ UNCHANGED <<setup, routing, pairs, pos, comm, query_pace_ts, trace_start_ts, real_start_ts, now,
                 end>>

Tick ==
  /\ ~dist
  /\ now < MaxNow \/ (real_start_ts # -1 /\ now - real_start_ts < MaxNow)
  /\ now' = now + 1
  /\ UNCHANGED <<setup, routing, pairs, pos, comm, file, end>>

-----------------------------------------------------------------------------
(* The end.                                                                *)

(* The signal is one to all processes, as the terminal and killall send    *)
(* it.  A SIGTERM to the manager alone runs the same callback and is left  *)
(* out: the manager would end without telling its workers, and they and    *)
(* the parent would stay.                                                  *)
SignalCb ==
  /\ Running /\ loop = "dispatch" /\ ~signalled
  /\ signalled' = TRUE
  /\ UNCHANGED <<setup, routing, pairs, pos, comm, file, now, loop, status>>

(* Two seconds later main_event_loop frees the bufferevents, which closes  *)
(* the descriptors of the workers.                                         *)
LoopExit ==
  /\ Running /\ signalled /\ loop = "dispatch" /\ ~in_com_read_cb
  /\ loop' = "done"
  /\ UNCHANGED <<setup, routing, pairs, pos, comm, file, now, signalled, status>>

(* start has joined both threads; the process exits.                       *)
Join ==
  /\ Running /\ loop = "done" /\ reader = "done"
  /\ status' = "ended"
  /\ UNCHANGED <<setup, routing, pairs, pos, comm, file, now, signalled, loop>>

(* The reading thread writes to a descriptor that is closed: log_err       *)
(* terminates the workers and exits.                                       *)
WriteFails ==
  /\ Running /\ ~dist /\ loop = "done" /\ todo # <<>> /\ ~blocked
  /\ status' = "aborted"
  /\ UNCHANGED <<setup, routing, pairs, pos, comm, file, now, signalled, loop>>

-----------------------------------------------------------------------------
ComThread == ForwardCom \/ ComReadEnds \/ \E k \in 1 .. Len(stream) : ComReadCb(k)
Reader    == SkipInvalid \/ TakeMessage \/ Forward \/ ReadEnds \/ WriteFails
EventLoop == LoopExit \/ Join
WorkerReads == \E w \in Workers : WorkerRead(w)

Next ==
  \/ Write \/ WriteBlocks \/ WorkerReads \/ \E w \in Workers : WorkerExit(w) \/ WorkerFails(w)
  \/ ComConnected \/ ComSend \/ ComThread \/ ComBevent
  \/ Reader \/ RandClientFdDies \/ Tick
  \/ SignalCb \/ EventLoop

Spec == Init /\ [][Next]_vars

-----------------------------------------------------------------------------
(* Properties.                                                             *)

Places(n) == UNION {{<<w, i>> : i \in {j \in DOMAIN written[w] :
                                        written[w][j] = [sync |-> FALSE, n |-> n]}} :
                    w \in Workers}

(* A query is written to one worker at most once, and the queries of a     *)
(* source to one and the same worker in their order, whatever connections  *)
(* are lost and however long a write blocks (until a lost connection has   *)
(* left part of a message in com_msg_buffer and the stream is garbled);    *)
(* and the state has its types.                                            *)
RoutedOnce ==
  /\ TypeOK
  /\ \A n \in Msgs : Cardinality(Places(n)) <= 1
  /\ ~disable_mapping =>
       \A m, n \in Msgs : \A p \in Places(m), q \in Places(n) :
         m < n /\ Incoming[m].src = Incoming[n].src => p[1] = q[1] /\ p[2] < q[2]

(* "the first message is sent to all client processes to sync time": when  *)
(* a worker is given a message, it has been given the sync message, first, *)
(* and no other; and all were given the same one.  (In distributed mode    *)
(* while the connection holds: the commander sends it only once.)          *)
SyncFirst ==
  com_fail_retry = 0 =>
    \A w \in Workers : \A i \in DOMAIN written[w] :
      /\ written[w][i].sync <=> i = 1
      /\ \A v \in Workers : written[v] # <<>> => written[v][1] = written[w][1]

(* With a limit, a query is handed to a worker at most trace_limit +       *)
(* SLEEP_TIME ahead of its time, counted from the first one; its time is   *)
(* the one in the file or, with a pace, its place among the queries.       *)
TimeOf(n) ==
  IF query_pace > 0 THEN query_pace * Cardinality({k \in 1 .. n - 1 : Incoming[k].raw})
                    ELSE Incoming[n].ts - trace_start_ts
LimitHolds ==
  trace_limit > 0 /\ ~dist =>
    \A w \in Workers : \A i \in DOMAIN written[w] : ~written[w][i].sync =>
      TimeOf(written[w][i].n) - (now - real_start_ts) <= trace_limit + SLEEP_TIME
=============================================================================
