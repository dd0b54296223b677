----------------------------- MODULE Controller -----------------------------
(***************************************************************************)
(* The controller of a distributed replay (dns-replay-controller-1.0): two *)
(* processes joined by a socket pair.  The Reader reads the trace once the *)
(* Postman tells it that all clients are connected; the Postman, one event *)
(* loop, accepts the client managers, and hands each query of the trace to *)
(* one of them, always the same one for the same source address.           *)
(*                                                                         *)
(* A descriptor of an accepted connection is a number of Fds; the kernel   *)
(* gives out the lowest free one, so a number is used again after a close. *)
(* A message is an index of Trace, with the flag the Postman puts on it.   *)
(***************************************************************************)
EXTENDS Integers, Sequences, FiniteSets

CONSTANTS
  Managers,      \* the client managers that connect to the Postman
  Fds,           \* the descriptor numbers accept() can return
  Srcs,          \* the source addresses of the trace
  NoFd, NoManager,
  Trace,         \* what InputSource::get yields: [src, raw, ts] records
  num_clients,   \* --num_clients
  ClientIndex,   \* the indices the filter, or the uniform choice, returns
  trace_limit,   \* --trace_limit, in seconds; 0 is "no limit"
  SktCap,        \* messages the socket pair holds before a write blocks
  MaxFaults,     \* bound: connections lost, signals and failed accepts
  MaxNow         \* bound: the clock

ASSUME FdsAssumption     == Fds \subseteq Nat /\ NoFd \notin Fds
ASSUME ManagerAssumption == NoManager \notin Managers
Record == [src : Srcs, raw : BOOLEAN, ts : Nat]
ASSUME TraceAssumption   == Trace \in Seq(Record)
ASSUME NumAssumption     ==
  /\ num_clients \in Nat \ {0}
  /\ ClientIndex \subseteq 0 .. (num_clients - 1) /\ ClientIndex # {}
  /\ trace_limit \in Nat /\ SktCap \in Nat /\ MaxFaults \in Nat
  /\ MaxNow \in Nat

VARIABLES
  rd,                \* the Reader: "blocked", "reading", "ended" or "killed"
  pos,               \* the next record of the trace the Reader gets
  trace_start_ts,    \* Reader: time stamp of the first record, or -1
  real_start_ts,     \* Reader: when that record was read, or -1
  flag,              \* POSTMAN_FLAG on the socket pair: "no", "sent", "read"
  skt,               \* the socket pair, Reader to Postman
  pm,                \* the Postman: "running", "stopping", "ended", or why it died
  client_fds,        \* Postman: every descriptor accepted, in order
  client_fd2bev,     \* Postman: the descriptors that have a buffer event
  client_fd2src,     \* Postman: the sources mapped to a descriptor
  client_src2fd,     \* Postman: the descriptor of a source
  start_read_input, done_sync_time,
  backlog,           \* managers whose connect() waits for accept()
  peer,              \* the manager at the other end of a descriptor
  link,              \* the descriptor a manager's connection has, if it is up
  wire,              \* written to a descriptor and not yet received
  got,               \* received by a manager, over all its connections
  now,
  drops,             \* connections lost
  signals            \* signals received by either process, and failed accepts

reader  == <<rd, pos, trace_start_ts, real_start_ts>>
maps    == <<client_fds, client_fd2bev, client_fd2src, client_src2fd>>
postman == <<pm, maps, start_read_input, done_sync_time>>
network == <<backlog, peer, link, wire, got>>
bounds  == <<now, drops, signals>>
vars    == <<reader, flag, skt, postman, network, bounds>>

MayFail == drops + signals < MaxFaults

Message == [idx : 1 .. Len(Trace), sync : BOOLEAN]
Deaths  == {"no_clients", "out_of_range", "null_bev"}

(* The types of the state.  Two parts need the code: the Reader never passes *)
(* the end of the trace, and what it sends is a record of it.              *)
TypeOK ==
  /\ rd \in {"blocked", "reading", "ended", "killed"}
  /\ pos \in 1 .. Len(Trace) + 1
  /\ trace_start_ts \in Nat \cup {-1} /\ real_start_ts \in Nat \cup {-1}
  /\ flag \in {"no", "sent", "read"}
  /\ skt \in Seq(1 .. Len(Trace))
  /\ pm \in {"running", "stopping", "ended"} \cup Deaths
  /\ client_fds \in Seq(Fds)
  /\ client_fd2bev \subseteq Fds
  /\ client_fd2src \in [Fds -> SUBSET Srcs]
  /\ client_src2fd \in [Srcs -> Fds \cup {NoFd}]
  /\ start_read_input \in BOOLEAN /\ done_sync_time \in BOOLEAN
  /\ backlog \subseteq Managers
  /\ peer \in [Fds -> Managers \cup {NoManager}]
  /\ link \in [Managers -> Fds \cup {NoFd}]
  /\ wire \in [Fds -> Seq(Message)]
  /\ got \in [Managers -> Seq(Message)]
  /\ now \in Nat /\ drops \in Nat /\ signals \in Nat

Init ==
  /\ rd = "blocked" /\ pos = 1 /\ trace_start_ts = -1 /\ real_start_ts = -1
  /\ flag = "no" /\ skt = <<>>
  /\ pm = "running"
  /\ client_fds = <<>> /\ client_fd2bev = {}
  /\ client_fd2src = [f \in Fds |-> {}]
  /\ client_src2fd = [s \in Srcs |-> NoFd]
  /\ start_read_input = FALSE /\ done_sync_time = FALSE
  /\ backlog = {} /\ peer = [f \in Fds |-> NoManager]
  /\ link = [m \in Managers |-> NoFd]
  /\ wire = [f \in Fds |-> <<>>] /\ got = [m \in Managers |-> <<>>]
  /\ now = 0 /\ drops = 0 /\ signals = 0

-----------------------------------------------------------------------------
(* The Reader.                                                             *)

(* Reader::unblock: POSTMAN_FLAG arrives, the loop exits, reading begins.  *)
Unblock ==
  /\ rd = "blocked" /\ flag = "sent"
  /\ rd' = "reading" /\ flag' = "read"
  /\ UNCHANGED <<pos, trace_start_ts, real_start_ts, skt, postman, network, bounds>>

(* A signal: Reader::unblock returns FALSE and nothing is read; later, the *)
(* default action kills the process.                                       *)
ReaderSignal ==
  /\ rd \in {"blocked", "reading"} /\ MayFail
  /\ rd' = IF rd = "blocked" THEN "ended" ELSE "killed"
  /\ signals' = signals + 1
  /\ UNCHANGED <<pos, trace_start_ts, real_start_ts, flag, skt, postman, network,
                 now, drops>>

(* Reader::read_input skips a record without a query in it.                *)
ReadInvalid ==
  /\ rd = "reading" /\ pos <= Len(Trace) /\ ~Trace[pos].raw
  /\ pos' = pos + 1
  /\ UNCHANGED <<rd, trace_start_ts, real_start_ts, flag, skt, postman, network,
                 bounds>>

(* The test of read_input's inner loop: how far trace time may run ahead.  *)
Ahead(ts) == (ts - trace_start_ts) - (now - real_start_ts)
MayWriteLate(ts) ==       \* mutant: one second too many
  trace_limit = 0 \/ trace_start_ts < 0 \/ Ahead(ts) <= trace_limit + 2
MayWrite(ts) ==
  \/ trace_limit = 0
  \/ trace_start_ts < 0
  \/ Ahead(ts) <= trace_limit + 1

(* Reader::read_input sends one record; it sleeps while MayWrite is false, *)
(* and write() blocks while the socket pair is full.                       *)
ReadInputNextFirst ==     \* mutant: takes the next record before writing
  /\ rd = "reading" /\ pos <= Len(Trace) /\ Len(skt) < SktCap
  /\ skt' = Append(skt, pos + 1)
  /\ pos' = pos + 1
  /\ UNCHANGED <<rd, trace_start_ts, real_start_ts, flag, postman, network, bounds>>
ReadInput ==
  /\ rd = "reading" /\ pos <= Len(Trace) /\ Trace[pos].raw
  /\ MayWrite(Trace[pos].ts) /\ Len(skt) < SktCap
  /\ skt' = Append(skt, pos)
  /\ pos' = pos + 1
  /\ IF trace_limit > 0 /\ trace_start_ts < 0
       THEN trace_start_ts' = Trace[pos].ts /\ real_start_ts' = now
       ELSE UNCHANGED <<trace_start_ts, real_start_ts>>
  /\ UNCHANGED <<rd, flag, postman, network, bounds>>

(* The end of the input; main() then waits for the Postman.                *)
ReadEnd ==
  /\ rd = "reading" /\ pos = Len(Trace) + 1
  /\ rd' = "ended"
  /\ UNCHANGED <<pos, trace_start_ts, real_start_ts, flag, skt, postman, network,
                 bounds>>

-----------------------------------------------------------------------------
(* The Postman.                                                            *)

Serving == pm \in {"running", "stopping"}

(* The kernel's choice of a descriptor for an accepted connection.         *)
LowestFree(fd) ==
  /\ peer[fd] = NoManager
  /\ \A g \in Fds : g < fd => peer[g] # NoManager

(* The condition on client_fd2bev.size() that releases the Reader.         *)
AllConnectedEarly(conns) == Cardinality(conns) = num_clients - 1   \* mutant
AllConnectedNever(conns) == Cardinality(conns) > num_clients       \* mutant
AllConnected(conns) == Cardinality(conns) = num_clients

(* Postman::accept_conn_cb.                                                *)
AcceptConn(m, fd) ==
  /\ Serving /\ m \in backlog /\ LowestFree(fd)
  /\ backlog' = backlog \ {m}
  /\ peer' = [peer EXCEPT ![fd] = m]
  /\ link' = [link EXCEPT ![m] = fd]
  /\ client_fd2bev' = client_fd2bev \cup {fd}
  /\ client_fd2src' = [client_fd2src EXCEPT ![fd] = {}]
  /\ client_fds' = Append(client_fds, fd)
  /\ IF ~start_read_input /\ AllConnected(client_fd2bev')
       THEN flag' = "sent" /\ start_read_input' = TRUE
       ELSE UNCHANGED <<flag, start_read_input>>
  /\ UNCHANGED <<reader, skt, pm, client_src2fd, done_sync_time, wire, got, bounds>>

(* accept_error_cb: accept() fails, for want of a descriptor in the process *)
(* or in the system, and the loop exits.                                   *)
AcceptError ==
  /\ pm = "running" /\ backlog # {}
  /\ MayFail \/ \A fd \in Fds : peer[fd] # NoManager
  /\ pm' = "stopping" /\ signals' = signals + 1
  /\ UNCHANGED <<reader, flag, skt, maps, start_read_input, done_sync_time, network,
                 now, drops>>

(* Postman::client_bevent_cb, on EOF or an error of the connection: the    *)
(* descriptor is closed and forgotten, except in client_fds.               *)
ClientBeventKeepsSrc(fd) ==   \* mutant: leaves client_src2fd alone
  /\ Serving /\ fd \in client_fd2bev /\ link[peer[fd]] # fd
  /\ peer' = [peer EXCEPT ![fd] = NoManager]
  /\ wire' = [wire EXCEPT ![fd] = <<>>]
  /\ client_fd2bev' = client_fd2bev \ {fd}
  /\ client_fd2src' = [client_fd2src EXCEPT ![fd] = {}]
  /\ UNCHANGED <<reader, flag, skt, pm, client_src2fd, client_fds, start_read_input,
                 done_sync_time, backlog, link, got, bounds>>
ClientBevent(fd) ==
  /\ Serving /\ fd \in client_fd2bev /\ link[peer[fd]] # fd
  /\ peer' = [peer EXCEPT ![fd] = NoManager]
  /\ wire' = [wire EXCEPT ![fd] = <<>>]
  /\ client_fd2bev' = client_fd2bev \ {fd}
  /\ client_src2fd' = [s \in Srcs |->
                         IF s \in client_fd2src[fd] THEN NoFd ELSE client_src2fd[s]]
  /\ client_fd2src' = [client_fd2src EXCEPT ![fd] = {}]
  /\ UNCHANGED <<reader, flag, skt, pm, client_fds, start_read_input,
                 done_sync_time, backlog, link, got, bounds>>

(* What Postman::rand_client can return for source s: the mapped           *)
(* descriptor, or the one at any index the filter can choose.              *)
RandClient(s) ==
  IF client_src2fd[s] # NoFd THEN {client_src2fd[s]}
  ELSE {client_fds[i + 1] : i \in {j \in ClientIndex : j < Len(client_fds)}}

(* How rand_client, or the assert on its result, can end the process.      *)
RandClientDeaths(s) ==
  IF client_src2fd[s] = NoFd /\ client_fd2bev = {} THEN {"no_clients"}
  ELSE {d \in {"out_of_range", "null_bev"} :
          \/ /\ d = "out_of_range" /\ client_src2fd[s] = NoFd
             /\ \E i \in ClientIndex : i >= Len(client_fds)
          \/ /\ d = "null_bev"
             /\ \E fd \in RandClient(s) : fd \notin client_fd2bev}

(* bufferevent_write to descriptor fd; lost if the peer is gone.           *)
WriteTwice(w, fd, msg) == [w EXCEPT ![fd] = @ \o <<msg, msg>>]   \* mutant
WriteTo(w, fd, msg) == [w EXCEPT ![fd] = Append(@, msg)]

(* The message that goes to all clients before the first query.            *)
SyncAlways(i) ==              \* mutant: done_sync_time is not looked at
  [f \in Fds |-> IF f \in client_fd2bev
                   THEN Append(wire[f], [idx |-> i, sync |-> TRUE]) ELSE wire[f]]
SyncAll(i) ==
  IF done_sync_time THEN wire
  ELSE [f \in Fds |-> IF f \in client_fd2bev
                        THEN Append(wire[f], [idx |-> i, sync |-> TRUE])
                        ELSE wire[f]]

(* Postman::skt_read_cb for one message of the socket pair: the first is   *)
(* sent to all clients to synchronise time, and every one to the client of *)
(* its source.  The callback's loop over several messages is a sequence of *)
(* these steps.                                                            *)
SktRead ==
  /\ Serving /\ skt # <<>>
  /\ LET i == Head(skt)
         s == Trace[i].src
     IN \E fd \in RandClient(s) :
          /\ fd \in client_fd2bev
          /\ client_src2fd' = [client_src2fd EXCEPT ![s] = fd]
          /\ client_fd2src' = [client_fd2src EXCEPT ![fd] = @ \cup {s}]
          /\ wire' = WriteTo(SyncAll(i), fd, [idx |-> i, sync |-> FALSE])
  /\ skt' = Tail(skt)
  /\ done_sync_time' = TRUE
  /\ UNCHANGED <<reader, flag, pm, client_fds, client_fd2bev, start_read_input,
                 backlog, peer, link, got, bounds>>

(* Postman::skt_read_cb when errx or the assert ends the process; what     *)
(* this callback put into the output buffers is never written.             *)
SktReadDies ==
  /\ Serving /\ skt # <<>>
  /\ \E d \in RandClientDeaths(Trace[Head(skt)].src) : pm' = d
  /\ skt' = Tail(skt)
  /\ UNCHANGED <<reader, flag, maps, start_read_input, done_sync_time, network, bounds>>

(* signal_cb: the loop exits in two seconds.                               *)
PostmanSignal ==
  /\ pm = "running" /\ MayFail
  /\ pm' = "stopping" /\ signals' = signals + 1
  /\ UNCHANGED <<reader, flag, skt, maps, start_read_input, done_sync_time, network,
                 now, drops>>

(* The clean up of Postman::start: every connection is closed.             *)
PostmanEnds ==
  /\ pm = "stopping"
  /\ pm' = "ended"
  /\ backlog' = {}
  /\ peer' = [f \in Fds |-> NoManager]
  /\ link' = [m \in Managers |-> NoFd]
  /\ wire' = [f \in Fds |-> <<>>]
  /\ UNCHANGED <<reader, flag, skt, maps, start_read_input, done_sync_time, got, bounds>>

-----------------------------------------------------------------------------
(* The client managers, the network and the clock.                         *)

Connect(m) ==
  /\ Serving /\ link[m] = NoFd /\ m \notin backlog
  /\ backlog' = backlog \cup {m}
  /\ UNCHANGED <<reader, flag, skt, postman, peer, link, wire, got, bounds>>

(* A manager's connection is lost, with everything it has not received;    *)
(* the Postman learns of it in ClientBevent.                               *)
Drop(m) ==
  /\ link[m] # NoFd /\ MayFail
  /\ wire' = [wire EXCEPT ![link[m]] = <<>>]
  /\ link' = [link EXCEPT ![m] = NoFd]
  /\ drops' = drops + 1
  /\ UNCHANGED <<reader, flag, skt, postman, backlog, peer, got, now, signals>>

Deliver(m) ==
  /\ link[m] # NoFd /\ wire[link[m]] # <<>>
  /\ got' = [got EXCEPT ![m] = Append(@, Head(wire[link[m]]))]
  /\ wire' = [wire EXCEPT ![link[m]] = Tail(@)]
  /\ UNCHANGED <<reader, flag, skt, postman, backlog, peer, link, bounds>>

(* Time passes, up to MaxNow seconds after the first record (before it the *)
(* clock is not looked at).                                                *)
Tick ==
  /\ real_start_ts >= 0 /\ now - real_start_ts < MaxNow
  /\ now' = now + 1
  /\ UNCHANGED <<reader, flag, skt, postman, network, drops, signals>>

-----------------------------------------------------------------------------
ReaderNext == Unblock \/ ReaderSignal \/ ReadInvalid \/ ReadInput \/ ReadEnd

PostmanNext ==
  \/ \E m \in Managers, fd \in Fds : AcceptConn(m, fd)
  \/ AcceptError
  \/ \E fd \in Fds : ClientBevent(fd)
  \/ SktRead
  \/ SktReadDies
  \/ PostmanSignal
  \/ PostmanEnds

Environment ==
  \/ \E m \in Managers : Connect(m) \/ Drop(m) \/ Deliver(m)
  \/ Tick

Next == ReaderNext \/ PostmanNext \/ Environment

Spec == Init /\ [][Next]_vars

(* The Reader runs whenever it can; the Postman's loop serves every event; *)
(* managers connect, TCP delivers and time passes.                         *)
Fairness ==
  /\ WF_vars(Unblock) /\ WF_vars(ReadInvalid \/ ReadInput \/ ReadEnd)
  /\ \A m \in Managers : WF_vars(\E fd \in Fds : AcceptConn(m, fd))
  /\ \A fd \in Fds : WF_vars(ClientBevent(fd))
  /\ WF_vars(SktRead \/ SktReadDies)
  /\ WF_vars(PostmanEnds)
  /\ \A m \in Managers : WF_vars(Connect(m)) /\ WF_vars(Deliver(m))
  /\ WF_vars(Tick)

FairSpec == Spec /\ Fairness

-----------------------------------------------------------------------------
(* Properties.                                                             *)

(* client_src2fd and client_fd2src say the same, and a mapped source has   *)
(* an open connection, in every order of accepts, closes, descriptor reuse *)
(* and messages: rand_client's last line can find a null buffer event only *)
(* for a source it has just mapped.                                        *)
MapsAgree ==
  /\ \A s \in Srcs, fd \in Fds :
       (client_src2fd[s] = fd) <=> (s \in client_fd2src[fd])
  /\ \A s \in Srcs : client_src2fd[s] # NoFd => client_src2fd[s] \in client_fd2bev

(* rand_client's index is always within client_fds: the Reader is released *)
(* only after num_clients accepts, and client_fds never shrinks.           *)
IndexInRange ==
  /\ pm # "out_of_range"
  /\ (skt # <<>> => num_clients <= Len(client_fds))

(* The controller implements Dispatch: whatever connections are lost,      *)
(* re-opened or re-mapped, and whatever descriptors are used again, the    *)
(* queries of a source reach one manager at a time, in the order of the    *)
(* trace and each at most once, and nothing of an old connection arrives   *)
(* after the source has moved to another one.                              *)
ownerBar == [s \in Srcs |-> IF client_src2fd[s] = NoFd THEN NoManager
                            ELSE peer[client_src2fd[s]]]
handedBar == [m \in Managers |->
                {<<i, got[m][i].idx>> : i \in {j \in DOMAIN got[m] : ~got[m][j].sync}}]
Abstract == INSTANCE Dispatch WITH
  Targets <- Managers, Sources <- Srcs, NoTarget <- NoManager,
  source <- [i \in DOMAIN Trace |-> Trace[i].src], owner <- ownerBar, handed <- handedBar
ImplementsDispatch == Abstract!DSpec

(* "the first message is sent to all clients to sync time": a manager      *)
(* receives exactly one sync message, and before any query, while no       *)
(* connection is lost (one made after the first message gets none).        *)
SyncBeforeQueries ==
  drops = 0 => \A m \in Managers : \A i \in DOMAIN got[m] : got[m][i].sync <=> i = 1

(* With --trace_limit, no record is on its way to a client while it is     *)
(* more than the limit (and one second's sleep) ahead of real time.        *)
ThrottleHolds ==
  trace_limit > 0 =>
    \A i \in 1 .. pos - 1 :
      Trace[i].raw => Ahead(Trace[i].ts) <= trace_limit + 1

(* The assert on rand_client's result in skt_read_cb.                      *)
BevNotNull == pm # "null_bev"

(* The replay comes to its end.  Unless a connection is lost or a signal    *)
(* arrives, every query of the trace is received; and whatever is lost,    *)
(* the Reader ends or the Postman is gone: the two never wait for each     *)
(* other.                                                                  *)
Received(i) == \E m \in Managers : \E j \in DOMAIN got[m] :
                 got[m][j] = [idx |-> i, sync |-> FALSE]
ReplayCompletes ==
  <>(/\ drops + signals > 0 \/ \A i \in DOMAIN Trace : Trace[i].raw => Received(i)
     /\ rd \in {"ended", "killed"} \/ ~Serving)
=============================================================================
