-------------------------- MODULE ControllerProofs --------------------------
(* Theorems about Controller, for every set of managers, descriptors and   *)
(* sources, every trace and every value of the bounds.                     *)
EXTENDS Controller, FiniteSetTheorems, TLAPS

(* What the proofs use of the trace.                                       *)
LEMMA TraceFacts ==
  /\ Len(Trace) \in Nat
  /\ \A i \in 1 .. Len(Trace) : Trace[i].src \in Srcs /\ Trace[i].ts \in Nat
<1>1. \A i \in 1 .. Len(Trace) : Trace[i] \in Record  BY TraceAssumption
<1> QED BY <1>1, TraceAssumption DEF Record

USE FdsAssumption, ManagerAssumption, TraceFacts, NumAssumption

(* The type invariant is inductive by itself.                              *)
LEMMA InitType == Init => TypeOK
<1> SUFFICES ASSUME Init PROVE TypeOK
  OBVIOUS
<1>1. /\ rd \in {"blocked", "reading", "ended", "killed"} /\ pos \in 1 .. Len(Trace) + 1
      /\ trace_start_ts \in Nat \cup {-1} /\ real_start_ts \in Nat \cup {-1}
      /\ now \in Nat /\ drops \in Nat /\ signals \in Nat
  BY DEF Init
<1>2. /\ wire \in [Fds -> Seq(Message)] /\ got \in [Managers -> Seq(Message)]
      /\ client_fds \in Seq(Fds) /\ skt \in Seq(1 .. Len(Trace))
  BY DEF Init
<1>3. /\ client_fd2src \in [Fds -> SUBSET Srcs]
      /\ client_src2fd \in [Srcs -> Fds \cup {NoFd}]
      /\ peer \in [Fds -> Managers \cup {NoManager}]
      /\ link \in [Managers -> Fds \cup {NoFd}]
  BY DEF Init
<1> QED BY <1>1, <1>2, <1>3 DEF Init, TypeOK

LEMMA ReaderType == TypeOK /\ ReaderNext => TypeOK'
<1> SUFFICES ASSUME TypeOK, ReaderNext PROVE TypeOK'
  OBVIOUS
<1> USE DEF TypeOK, postman, maps, network, bounds
<1>1. CASE Unblock       BY <1>1 DEF Unblock
<1>2. CASE ReaderSignal  BY <1>2 DEF ReaderSignal
<1>3. CASE ReadInvalid   BY <1>3 DEF ReadInvalid
<1>4. CASE ReadInput
  <2>1. pos \in 1 .. Len(Trace) /\ Trace[pos].ts \in Nat  BY <1>4 DEF ReadInput
  <2>2. skt' \in Seq(1 .. Len(Trace)) /\ pos' \in 1 .. Len(Trace) + 1
    BY <1>4, <2>1 DEF ReadInput
  <2>3. trace_start_ts' \in Nat \cup {-1} /\ real_start_ts' \in Nat \cup {-1}
    BY <1>4, <2>1 DEF ReadInput
  <2> QED BY <1>4, <2>2, <2>3 DEF ReadInput
<1>5. CASE ReadEnd       BY <1>5 DEF ReadEnd
<1> QED BY <1>1, <1>2, <1>3, <1>4, <1>5 DEF ReaderNext

LEMMA SyncAllType ==
  ASSUME TypeOK, NEW i \in 1 .. Len(Trace)
  PROVE  SyncAll(i) \in [Fds -> Seq(Message)]
<1>1. [idx |-> i, sync |-> TRUE] \in Message  BY DEF Message
<1> QED BY <1>1 DEF SyncAll, TypeOK

LEMMA PostmanType == TypeOK /\ PostmanNext => TypeOK'
<1> SUFFICES ASSUME TypeOK, PostmanNext PROVE TypeOK'
  OBVIOUS
<1> USE DEF Deaths, reader, maps, network, bounds
<1>1. ASSUME NEW m \in Managers, NEW fd \in Fds, AcceptConn(m, fd) PROVE TypeOK'
  <2>1. flag' \in {"no", "sent", "read"} /\ start_read_input' \in BOOLEAN
    BY <1>1 DEF AcceptConn, TypeOK
  <2>2. client_fds' \in Seq(Fds) /\ client_fd2bev' \subseteq Fds
    BY <1>1 DEF AcceptConn, TypeOK
  <2>3. /\ client_fd2src' \in [Fds -> SUBSET Srcs]
        /\ peer' \in [Fds -> Managers \cup {NoManager}]
        /\ link' \in [Managers -> Fds \cup {NoFd}]
        /\ backlog' \subseteq Managers
    BY <1>1 DEF AcceptConn, TypeOK
  <2> QED BY <1>1, <2>1, <2>2, <2>3 DEF AcceptConn, TypeOK
<1>2. CASE AcceptError  BY <1>2 DEF AcceptError, TypeOK
<1>3. ASSUME NEW fd \in Fds, ClientBevent(fd) PROVE TypeOK'
  BY <1>3 DEF ClientBevent, TypeOK
<1>4. CASE SktRead
  <2> DEFINE i == Head(skt)
             s == Trace[i].src
  <2>1. i \in 1 .. Len(Trace) /\ s \in Srcs /\ Tail(skt) \in Seq(1 .. Len(Trace))
    BY <1>4 DEF SktRead, TypeOK
  <2>2. PICK fd \in RandClient(s) :
          /\ fd \in client_fd2bev
          /\ client_src2fd' = [client_src2fd EXCEPT ![s] = fd]
          /\ client_fd2src' = [client_fd2src EXCEPT ![fd] = @ \cup {s}]
          /\ wire' = WriteTo(SyncAll(i), fd, [idx |-> i, sync |-> FALSE])
    BY <1>4 DEF SktRead
  <2>3. [idx |-> i, sync |-> FALSE] \in Message  BY <2>1 DEF Message
  <2>4. wire' \in [Fds -> Seq(Message)]
    BY <2>1, <2>2, <2>3, SyncAllType, SMTT(60) DEF WriteTo, TypeOK
  <2>5. client_src2fd' \in [Srcs -> Fds \cup {NoFd}]
    BY <2>1, <2>2 DEF TypeOK
  <2>6. client_fd2src' \in [Fds -> SUBSET Srcs]
    BY <2>1, <2>2 DEF TypeOK
  <2> QED BY <1>4, <2>1, <2>4, <2>5, <2>6, ZenonT(60) DEF SktRead, TypeOK
<1>5. CASE SktReadDies
  BY <1>5, SMTT(60) DEF SktReadDies, RandClientDeaths, TypeOK
<1>6. CASE PostmanSignal  BY <1>6 DEF PostmanSignal, TypeOK
<1>7. CASE PostmanEnds    BY <1>7 DEF PostmanEnds, TypeOK
<1> QED BY <1>1, <1>2, <1>3, <1>4, <1>5, <1>6, <1>7 DEF PostmanNext

LEMMA EnvironmentType == TypeOK /\ Environment => TypeOK'
<1> SUFFICES ASSUME TypeOK, Environment PROVE TypeOK'
  OBVIOUS
<1> USE DEF reader, postman, maps, network, bounds
<1>1. ASSUME NEW m \in Managers, Connect(m) PROVE TypeOK'
  BY <1>1 DEF Connect, TypeOK
<1>2. ASSUME NEW m \in Managers, Drop(m) PROVE TypeOK'
  BY <1>2 DEF Drop, TypeOK
<1>3. ASSUME NEW m \in Managers, Deliver(m) PROVE TypeOK'
  <2>1. link[m] \in Fds /\ wire[link[m]] \in Seq(Message) /\ wire[link[m]] # <<>>
    BY <1>3 DEF Deliver, TypeOK
  <2>2. Head(wire[link[m]]) \in Message /\ Tail(wire[link[m]]) \in Seq(Message)
    BY <2>1
  <2> QED BY <1>3, <2>1, <2>2, SMTT(60) DEF Deliver, TypeOK
<1>4. CASE Tick  BY <1>4 DEF Tick, TypeOK
<1> QED BY <1>1, <1>2, <1>3, <1>4 DEF Environment

(* Every variable keeps its type.                                          *)
THEOREM TypeCorrect == Spec => []TypeOK
<1>1. TypeOK /\ [Next]_vars => TypeOK'
  <2>1. TypeOK /\ UNCHANGED vars => TypeOK'
    BY DEF TypeOK, vars, reader, postman, maps, network, bounds
  <2> QED BY <2>1, ReaderType, PostmanType, EnvironmentType DEF Next
<1> QED BY <1>1, InitType, PTL DEF Spec

-----------------------------------------------------------------------------
(* MapsAgree is inductive once it is known that a descriptor with a buffer *)
(* event is open: only then is the descriptor that accept() returns, the   *)
(* lowest free one and perhaps used before, one that no source maps to.    *)
OpenFds == Serving => \A fd \in client_fd2bev : peer[fd] # NoManager
MapInv  == MapsAgree /\ OpenFds

LEMMA InitMaps == Init => MapInv
  BY DEF Init, MapInv, MapsAgree, OpenFds

LEMMA AcceptMaps ==
  ASSUME TypeOK, MapInv, NEW m \in Managers, NEW fd \in Fds, AcceptConn(m, fd)
  PROVE  MapInv'
<1>1. fd \notin client_fd2bev
  BY DEF AcceptConn, LowestFree, MapInv, OpenFds
<1>2. \A s \in Srcs : client_src2fd[s] # fd /\ s \notin client_fd2src[fd]
  <2> SUFFICES ASSUME NEW s \in Srcs PROVE client_src2fd[s] # fd /\ s \notin client_fd2src[fd]
    OBVIOUS
  <2>1. client_src2fd[s] # fd  BY <1>1 DEF MapInv, MapsAgree
  <2> QED BY <2>1 DEF MapInv, MapsAgree
<1>3. MapsAgree'
  BY <1>2 DEF AcceptConn, MapInv, MapsAgree, TypeOK
<1>4. OpenFds'
  <2>1. \A g \in client_fd2bev : peer[g] # NoManager
    BY DEF AcceptConn, MapInv, OpenFds
  <2>2. \A g \in Fds : peer'[g] = IF g = fd THEN m ELSE peer[g]
    BY DEF AcceptConn, TypeOK
  <2>3. client_fd2bev' = client_fd2bev \cup {fd} /\ client_fd2bev \subseteq Fds
    BY DEF AcceptConn, TypeOK
  <2> QED BY <2>1, <2>2, <2>3 DEF OpenFds
<1> QED BY <1>3, <1>4 DEF MapInv

LEMMA CloseMaps ==
  ASSUME TypeOK, MapInv, NEW fd \in Fds, ClientBevent(fd)
  PROVE  MapInv'
<1>1. MapsAgree'
  <2>1. \A s \in Srcs : client_src2fd'[s] =
          IF s \in client_fd2src[fd] THEN NoFd ELSE client_src2fd[s]
    BY DEF ClientBevent
  <2>2. \A g \in Fds : client_fd2src'[g] = IF g = fd THEN {} ELSE client_fd2src[g]
    BY DEF ClientBevent, TypeOK
  <2>3. \A s \in Srcs, g \in Fds :
          (client_src2fd'[s] = g) <=> (s \in client_fd2src'[g])
    BY <2>1, <2>2 DEF MapInv, MapsAgree
  <2>4. \A s \in Srcs : client_src2fd'[s] # NoFd => client_src2fd'[s] \in client_fd2bev'
    BY <2>1 DEF ClientBevent, MapInv, MapsAgree
  <2> QED BY <2>3, <2>4 DEF MapsAgree
<1>2. OpenFds'
  BY DEF ClientBevent, MapInv, OpenFds, Serving, TypeOK
<1> QED BY <1>1, <1>2 DEF MapInv

LEMMA SktReadMaps ==
  ASSUME TypeOK, MapInv, SktRead
  PROVE  MapInv'
<1> DEFINE s == Trace[Head(skt)].src
<1>1. s \in Srcs  BY DEF SktRead, TypeOK
<1>2. PICK fd \in RandClient(s) :
        /\ fd \in client_fd2bev
        /\ client_src2fd' = [client_src2fd EXCEPT ![s] = fd]
        /\ client_fd2src' = [client_fd2src EXCEPT ![fd] = @ \cup {s}]
  BY DEF SktRead
<1>3. client_fd2bev' = client_fd2bev /\ fd \in Fds
  BY <1>2 DEF SktRead, TypeOK
<1>4. client_src2fd[s] = NoFd \/ client_src2fd[s] = fd
  BY <1>2 DEF RandClient
<1>5. \A g \in Fds : g # fd => s \notin client_fd2src[g]
  BY <1>1, <1>4 DEF MapInv, MapsAgree
<1>6. MapsAgree'
  BY <1>1, <1>2, <1>3, <1>5 DEF MapInv, MapsAgree, TypeOK
<1>7. OpenFds'
  BY DEF SktRead, MapInv, OpenFds, Serving
<1> QED BY <1>6, <1>7 DEF MapInv

LEMMA NextMaps == TypeOK /\ MapInv /\ [Next]_vars => MapInv'
<1> SUFFICES ASSUME TypeOK, MapInv, [Next]_vars PROVE MapInv'
  OBVIOUS
<1> USE DEF MapInv, MapsAgree, OpenFds, Serving, reader, postman, maps, network, bounds
<1>1. CASE ReaderNext
  BY <1>1 DEF ReaderNext, Unblock, ReaderSignal, ReadInvalid, ReadInput, ReadEnd
<1>2. CASE PostmanNext
  <2>1. CASE AcceptError \/ PostmanSignal
    BY <2>1 DEF AcceptError, PostmanSignal
  <2>2. CASE SktReadDies
    <3>1. ~Serving'  BY <2>2 DEF SktReadDies, RandClientDeaths
    <3> QED BY <2>2, <3>1 DEF SktReadDies
  <2>3. CASE PostmanEnds
    <3>1. ~Serving'  BY <2>3 DEF PostmanEnds
    <3> QED BY <2>3, <3>1 DEF PostmanEnds
  <2> QED BY <1>2, <2>1, <2>2, <2>3, AcceptMaps, CloseMaps, SktReadMaps DEF PostmanNext
<1>3. CASE Environment
  BY <1>3 DEF Environment, Connect, Drop, Deliver, Tick
<1>4. CASE UNCHANGED vars
  BY <1>4 DEF vars
<1> QED BY <1>1, <1>2, <1>3, <1>4 DEF Next

(* The two maps of the Postman agree, and a mapped source has an open      *)
(* connection, in every reachable state.                                   *)
THEOREM MapsCorrect == Spec => []MapsAgree
<1>1. MapInv => MapsAgree  BY DEF MapInv
<1> QED BY <1>1, InitMaps, NextMaps, TypeCorrect, PTL DEF Spec

-----------------------------------------------------------------------------
(* IndexInRange needs the handshake: the Reader writes only after the      *)
(* flag, the flag is sent when num_clients buffer events exist, and there  *)
(* are never more of those than entries of client_fds.                     *)
CountInv ==
  /\ IsFiniteSet(client_fd2bev) /\ Cardinality(client_fd2bev) <= Len(client_fds)
  /\ flag # "no" => num_clients <= Len(client_fds)
  /\ flag # "no" => start_read_input
  /\ rd = "reading" => flag = "read"
  /\ skt # <<>> => flag = "read"
  /\ pm # "out_of_range"

LEMMA InitCount == Init => CountInv
  BY FS_EmptySet DEF Init, CountInv

LEMMA AcceptCount ==
  ASSUME TypeOK, CountInv, NEW m \in Managers, NEW fd \in Fds, AcceptConn(m, fd)
  PROVE  CountInv'
<1>1. Len(client_fds') = Len(client_fds) + 1 /\ Len(client_fds) \in Nat
  BY DEF AcceptConn, TypeOK
<1>2. /\ IsFiniteSet(client_fd2bev')
      /\ Cardinality(client_fd2bev') <= Cardinality(client_fd2bev) + 1
  <2>1. IsFiniteSet(client_fd2bev) /\ client_fd2bev' = client_fd2bev \cup {fd}
    BY DEF AcceptConn, CountInv
  <2>2. IsFiniteSet(client_fd2bev \cup {fd})
    BY <2>1, FS_AddElement
  <2>3. \/ Cardinality(client_fd2bev \cup {fd}) = Cardinality(client_fd2bev)
        \/ Cardinality(client_fd2bev \cup {fd}) = Cardinality(client_fd2bev) + 1
    BY <2>1, FS_AddElement
  <2>4. Cardinality(client_fd2bev) \in Nat  BY <2>1, FS_CardinalityType
  <2> QED BY <2>1, <2>2, <2>3, <2>4
<1>3. Cardinality(client_fd2bev') \in Nat /\ Cardinality(client_fd2bev) \in Nat
  BY <1>2, FS_CardinalityType DEF CountInv
<1>4. Cardinality(client_fd2bev') <= Len(client_fds')
  BY <1>1, <1>2, <1>3 DEF CountInv
<1>5. flag' # "no" => num_clients <= Len(client_fds')
  BY <1>1, <1>3, <1>4 DEF AcceptConn, AllConnected, CountInv
<1>6. /\ flag' # "no" => start_read_input'
      /\ rd' = "reading" => flag' = "read"
      /\ skt' # <<>> => flag' = "read"
  BY DEF AcceptConn, CountInv, reader
<1> QED BY <1>2, <1>4, <1>5, <1>6 DEF AcceptConn, CountInv

LEMMA CloseCount ==
  ASSUME TypeOK, CountInv, NEW fd \in Fds, ClientBevent(fd)
  PROVE  CountInv'
<1>1. Len(client_fds) \in Nat  BY DEF TypeOK
<1>2. /\ IsFiniteSet(client_fd2bev')
      /\ Cardinality(client_fd2bev') <= Cardinality(client_fd2bev)
  <2>1. /\ IsFiniteSet(client_fd2bev) /\ fd \in client_fd2bev
        /\ client_fd2bev' = client_fd2bev \ {fd}
    BY DEF ClientBevent, CountInv
  <2>2. /\ IsFiniteSet(client_fd2bev \ {fd})
        /\ Cardinality(client_fd2bev \ {fd}) = Cardinality(client_fd2bev) - 1
    BY <2>1, FS_RemoveElement
  <2>3. Cardinality(client_fd2bev) \in Nat  BY <2>1, FS_CardinalityType
  <2> QED BY <2>1, <2>2, <2>3
<1>3. Cardinality(client_fd2bev') \in Nat /\ Cardinality(client_fd2bev) \in Nat
  BY <1>2, FS_CardinalityType DEF CountInv
<1> QED BY <1>1, <1>2, <1>3 DEF ClientBevent, CountInv, reader

LEMMA SktReadCount ==
  ASSUME TypeOK, CountInv, SktRead \/ SktReadDies
  PROVE  CountInv'
<1>1. skt # <<>> /\ flag' = flag /\ flag = "read"
  BY DEF SktRead, SktReadDies, CountInv
<1>2. \A i \in ClientIndex : i < Len(client_fds)
  BY <1>1 DEF CountInv, TypeOK
<1>3. pm' # "out_of_range"
  <2>1. CASE SktRead  BY <2>1 DEF SktRead, CountInv
  <2>2. CASE SktReadDies
    <3>1. ClientIndex \subseteq Nat /\ Len(client_fds) \in Nat  BY DEF TypeOK
    <3>2. ~ \E i \in ClientIndex : i >= Len(client_fds)
      BY <1>2, <3>1
    <3>3. ASSUME NEW s PROVE "out_of_range" \notin RandClientDeaths(s)
      BY <3>2 DEF RandClientDeaths
    <3> QED BY <2>2, <3>3 DEF SktReadDies
  <2> QED BY <2>1, <2>2
<1>4. client_fds' = client_fds /\ client_fd2bev' = client_fd2bev /\ rd' = rd
      /\ start_read_input' = start_read_input
  BY DEF SktRead, SktReadDies, reader, maps
<1> QED BY <1>1, <1>3, <1>4 DEF CountInv

LEMMA NextCount == TypeOK /\ CountInv /\ [Next]_vars => CountInv'
<1> SUFFICES ASSUME TypeOK, CountInv, [Next]_vars PROVE CountInv'
  OBVIOUS
<1> USE DEF reader, postman, maps, network, bounds
<1>1. CASE ReaderNext
  BY <1>1 DEF ReaderNext, Unblock, ReaderSignal, ReadInvalid, ReadInput, ReadEnd,
              CountInv
<1>2. CASE PostmanNext
  <2>1. CASE AcceptError \/ PostmanSignal \/ PostmanEnds
    BY <2>1 DEF AcceptError, PostmanSignal, PostmanEnds, CountInv
  <2> QED BY <1>2, <2>1, AcceptCount, CloseCount, SktReadCount DEF PostmanNext
<1>3. CASE Environment
  BY <1>3 DEF Environment, Connect, Drop, Deliver, Tick, CountInv
<1>4. CASE UNCHANGED vars
  BY <1>4 DEF vars, CountInv
<1> QED BY <1>1, <1>2, <1>3, <1>4 DEF Next

(* rand_client never leaves the process through its range check.           *)
THEOREM IndexCorrect == Spec => []IndexInRange
<1>1. CountInv => IndexInRange  BY DEF CountInv, IndexInRange
<1> QED BY <1>1, InitCount, NextCount, TypeCorrect, PTL DEF Spec

-----------------------------------------------------------------------------
(* ThrottleHolds speaks of the records read before the clocks were set,    *)
(* too: those had no query in them, as the first that has one sets them.   *)
ThrottleInv ==
  trace_limit > 0 /\ trace_start_ts < 0 => \A i \in 1 .. pos - 1 : ~Trace[i].raw

LEMMA ThrottleStep ==
  ASSUME TypeOK, ThrottleInv, ThrottleHolds, [Next]_vars
  PROVE  ThrottleInv' /\ ThrottleHolds'
<1> USE DEF TypeOK
<1>1. CASE ReadInput
  <2>1. pos \in 1 .. Len(Trace) /\ Trace[pos].ts \in Nat /\ pos' = pos + 1 /\ now' = now
    BY <1>1 DEF ReadInput, bounds
  <2>2. CASE trace_limit = 0  BY <2>2 DEF ThrottleInv, ThrottleHolds
  <2>3. CASE trace_limit > 0 /\ trace_start_ts < 0
    <3>1. trace_start_ts' = Trace[pos].ts /\ real_start_ts' = now
      BY <1>1, <2>3 DEF ReadInput
    <3>2. \A i \in 1 .. pos - 1 : ~Trace[i].raw  BY <2>3 DEF ThrottleInv
    <3> QED BY <2>1, <2>3, <3>1, <3>2 DEF ThrottleInv, ThrottleHolds, Ahead
  <2>4. CASE trace_limit > 0 /\ trace_start_ts >= 0
    <3>1. trace_start_ts' = trace_start_ts /\ real_start_ts' = real_start_ts
      BY <1>1, <2>4 DEF ReadInput
    <3>2. Ahead(Trace[pos].ts) <= trace_limit + 1
      BY <1>1, <2>4 DEF ReadInput, MayWrite
    <3> QED BY <2>1, <2>4, <3>1, <3>2, SMTT(60) DEF ThrottleInv, ThrottleHolds, Ahead
  <2> QED BY <2>2, <2>3, <2>4
<1>2. CASE ReadInvalid
  <2>1. /\ pos \in 1 .. Len(Trace) /\ ~Trace[pos].raw /\ pos' = pos + 1 /\ now' = now
        /\ trace_start_ts' = trace_start_ts /\ real_start_ts' = real_start_ts
    BY <1>2 DEF ReadInvalid, bounds
  <2> QED BY <2>1, SMTT(60) DEF ThrottleInv, ThrottleHolds, Ahead
<1>3. CASE Tick
  <2>1. UNCHANGED reader /\ now' = now + 1  BY <1>3 DEF Tick
  <2>2. \A i \in 1 .. pos - 1 : Trace[i].ts \in Nat  OBVIOUS
  <2> QED BY <2>1, <2>2, SMTT(60) DEF ThrottleInv, ThrottleHolds, Ahead, reader
<1>4. CASE UNCHANGED <<pos, trace_start_ts, real_start_ts, now>>
  BY <1>4 DEF ThrottleInv, ThrottleHolds, Ahead
<1>5. Next => ReadInput \/ ReadInvalid \/ Tick
              \/ UNCHANGED <<pos, trace_start_ts, real_start_ts, now>>
  <2> USE DEF reader, bounds
  <2>1. ReaderNext => ReadInput \/ ReadInvalid \/ UNCHANGED <<pos, trace_start_ts, real_start_ts, now>>
    BY DEF ReaderNext, Unblock, ReaderSignal, ReadEnd
  <2>2. PostmanNext => UNCHANGED <<pos, trace_start_ts, real_start_ts, now>>
    BY DEF PostmanNext, AcceptConn, AcceptError, ClientBevent, SktRead, SktReadDies,
           PostmanSignal, PostmanEnds
  <2>3. Environment => Tick \/ UNCHANGED <<pos, trace_start_ts, real_start_ts, now>>
    BY DEF Environment, Connect, Drop, Deliver
  <2> QED BY <2>1, <2>2, <2>3 DEF Next
<1> QED BY <1>1, <1>2, <1>3, <1>4, <1>5 DEF vars, reader, bounds

(* With --trace_limit, no record leaves the Reader that is more than the    *)
(* limit and one second ahead of real time, for every trace, time stamps   *)
(* that step back included.                                                *)
THEOREM ThrottleCorrect == Spec => []ThrottleHolds
<1>1. Init => ThrottleInv /\ ThrottleHolds
  BY DEF Init, ThrottleInv, ThrottleHolds
<1>2. TypeOK /\ ThrottleInv /\ ThrottleHolds /\ [Next]_vars => ThrottleInv' /\ ThrottleHolds'
  BY ThrottleStep
<1> QED BY <1>1, <1>2, TypeCorrect, PTL DEF Spec

-----------------------------------------------------------------------------
(* Controller implements Dispatch, and synchronises its clients first: the *)
(* theorems that need to know what is on the way between the Reader, the   *)
(* Postman and the managers.                                               *)
USE FdsAssumption, ManagerAssumption, TraceFacts, NumAssumption

(* What Append and Tail do to the positions of a sequence.                 *)
LEMMA AppendFacts ==
  ASSUME NEW S, NEW s \in Seq(S), NEW e \in S
  PROVE  /\ Append(s, e) \in Seq(S) /\ Len(s) \in Nat
         /\ DOMAIN s = 1 .. Len(s) /\ DOMAIN Append(s, e) = 1 .. Len(s) + 1
         /\ \A k \in DOMAIN s : Append(s, e)[k] = s[k] /\ k # Len(s) + 1
         /\ Append(s, e)[Len(s) + 1] = e /\ Append(s, e) # <<>>
  BY SMTT(60)

LEMMA FirstTwo ==
  ASSUME NEW S, NEW a \in Seq(S), a = <<>>, NEW y \in S, NEW e \in S,
         NEW b, b = Append(a, y), NEW c, c = Append(b, e)
  PROVE  /\ b # <<>> /\ DOMAIN b = {1} /\ b[1] = y
         /\ c # <<>> /\ DOMAIN c = {1, 2} /\ c[1] = y /\ c[2] = e
<1>1. Len(a) = 0  OBVIOUS
<1>2. b \in Seq(S) /\ Len(b) = 1 /\ DOMAIN b = 1 .. 1 /\ b[1] = y /\ b # <<>>
  BY <1>1, AppendFacts
<1>3. DOMAIN c = 1 .. 2 /\ c[1] = y /\ c[2] = e /\ c # <<>>
  <2> HIDE <1>1
  <2> QED BY <1>2, AppendFacts
<1>4. 1 .. 2 = {1, 2} /\ 1 .. 1 = {1}  OBVIOUS
<1> QED BY <1>2, <1>3, <1>4

LEMMA TailFacts ==
  ASSUME NEW S, NEW s \in Seq(S), s # <<>>
  PROVE  /\ Tail(s) \in Seq(S) /\ Head(s) \in S /\ Head(s) = s[1] /\ 1 \in DOMAIN s
         /\ DOMAIN s = 1 .. Len(s) /\ Len(s) \in Nat /\ DOMAIN Tail(s) = 1 .. Len(s) - 1
         /\ \A k \in DOMAIN Tail(s) : Tail(s)[k] = s[k + 1] /\ k + 1 \in DOMAIN s
  OBVIOUS

-----------------------------------------------------------------------------
(* The order of the queries on their way.  The socket pair holds records   *)
(* of the trace in its order; all that was read from it comes before all   *)
(* it holds.  A query on a wire is on that of the descriptor its source is *)
(* mapped to, so all of a source are on one wire, in order, and those      *)
(* received come before them.                                              *)

(* The queries that are still in the socket pair come after n.             *)
BeforeSkt(n) == n < pos /\ \A j \in DOMAIN skt : n < skt[j]

SktInv ==
  /\ \A j \in DOMAIN skt : skt[j] < pos
  /\ \A j, k \in DOMAIN skt : j < k => skt[j] < skt[k]
WireInv ==
  \A f \in Fds : \A k \in DOMAIN wire[f] : ~wire[f][k].sync =>
    /\ BeforeSkt(wire[f][k].idx)
    /\ client_src2fd[Trace[wire[f][k].idx].src] = f
    /\ \A j \in DOMAIN wire[f] : j < k /\ ~wire[f][j].sync => wire[f][j].idx < wire[f][k].idx
GotInv ==
  \A m \in Managers : \A i \in DOMAIN got[m] : ~got[m][i].sync =>
    /\ BeforeSkt(got[m][i].idx)
    /\ \A f \in Fds : \A k \in DOMAIN wire[f] :
         ~wire[f][k].sync /\ Trace[got[m][i].idx].src = Trace[wire[f][k].idx].src
           => got[m][i].idx < wire[f][k].idx
LinkInv == \A m \in Managers : link[m] # NoFd => peer[link[m]] = m
OrderInv == SktInv /\ WireInv /\ GotInv /\ LinkInv

(* The messages on the wires and at the managers are records of the trace. *)
LEMMA WireFacts ==
  ASSUME TypeOK, NEW f \in Fds, NEW k \in DOMAIN wire[f]
  PROVE  /\ wire[f][k] \in Message /\ wire[f][k].sync \in BOOLEAN /\ wire[f][k].idx \in Nat
         /\ wire[f][k].idx \in 1 .. Len(Trace) /\ Trace[wire[f][k].idx].src \in Srcs
<1>1. wire[f] \in Seq(Message)  BY DEF TypeOK
<1>2. wire[f][k] \in Message    BY <1>1
<1> QED BY <1>2 DEF Message

LEMMA GotFacts ==
  ASSUME TypeOK, NEW c \in Managers, NEW k \in DOMAIN got[c]
  PROVE  /\ got[c][k] \in Message /\ got[c][k].sync \in BOOLEAN /\ got[c][k].idx \in Nat
         /\ got[c][k].idx \in 1 .. Len(Trace) /\ Trace[got[c][k].idx].src \in Srcs
<1>1. got[c] \in Seq(Message)  BY DEF TypeOK
<1>2. got[c][k] \in Message    BY <1>1
<1> QED BY <1>2 DEF Message

LEMMA ReadInputOrder ==
  ASSUME TypeOK, OrderInv, ReadInput
  PROVE  OrderInv'
<1>1. /\ skt' = Append(skt, pos) /\ pos' = pos + 1 /\ pos \in 1 .. Len(Trace)
      /\ UNCHANGED <<wire, got, client_src2fd, link, peer>>
  BY DEF ReadInput, TypeOK, postman, maps, network
<1>2. /\ DOMAIN skt' = DOMAIN skt \cup {Len(skt) + 1} /\ skt'[Len(skt) + 1] = pos
      /\ \A k \in DOMAIN skt : skt'[k] = skt[k] /\ k < Len(skt) + 1 /\ skt[k] \in Nat
      /\ Len(skt) \in Nat
  BY <1>1, AppendFacts, SMTT(60) DEF TypeOK
<1>3. SktInv'
  BY <1>1, <1>2 DEF OrderInv, SktInv
<1>4. ASSUME NEW n \in Nat, BeforeSkt(n) PROVE BeforeSkt(n)'
  BY <1>1, <1>2, <1>4 DEF BeforeSkt
<1>5. WireInv'
  <2>1. \A f \in Fds : \A k \in DOMAIN wire[f] : wire[f][k].idx \in Nat  BY WireFacts
  <2> QED BY <1>1, <1>4, <2>1 DEF OrderInv, WireInv
<1>6. GotInv'
  <2>1. \A c \in Managers : \A k \in DOMAIN got[c] : got[c][k].idx \in Nat  BY GotFacts
  <2> QED BY <1>1, <1>4, <2>1 DEF OrderInv, GotInv
<1> QED BY <1>1, <1>3, <1>5, <1>6 DEF OrderInv, LinkInv

(* A message leaves the socket pair and the rest stays as it is, whether   *)
(* the Postman sends it or dies of it.                                     *)
LEMMA SktTail ==
  ASSUME TypeOK, SktInv, skt # <<>>, skt' = Tail(skt), pos' = pos,
         NEW i \in Nat, i = Head(skt)
  PROVE  /\ SktInv' /\ BeforeSkt(i)'
         /\ \A n \in Nat : BeforeSkt(n) => BeforeSkt(n)' /\ n < i
<1>1. /\ \A k \in DOMAIN skt' : skt'[k] = skt[k + 1] /\ k + 1 \in DOMAIN skt /\ k \in Nat
      /\ Head(skt) = skt[1] /\ 1 \in DOMAIN skt /\ DOMAIN skt \subseteq Nat
      /\ \A k \in DOMAIN skt : skt[k] \in Nat
      /\ DOMAIN skt' \subseteq Nat \ {0}
  BY TailFacts, SMTT(60) DEF TypeOK
<1>2. pos \in Nat  BY DEF TypeOK
<1>3. SktInv'
  BY <1>1, <1>2, SMTT(60) DEF SktInv
<1>4. BeforeSkt(i)'
  <2>1. \A k \in DOMAIN skt' : 1 < k + 1  BY <1>1
  <2> QED BY <1>1, <1>2, <2>1 DEF SktInv, BeforeSkt
<1>5. ASSUME NEW n \in Nat, BeforeSkt(n) PROVE BeforeSkt(n)' /\ n < i
  BY <1>1, <1>2, <1>5 DEF BeforeSkt
<1> QED BY <1>3, <1>4, <1>5

(* The sync message adds no query to a wire.                               *)
LEMMA SyncAllFacts ==
  ASSUME TypeOK, NEW i \in 1 .. Len(Trace), NEW f \in Fds
  PROVE  /\ SyncAll(i)[f] \in Seq(Message)
         /\ \A k \in DOMAIN SyncAll(i)[f] : ~SyncAll(i)[f][k].sync =>
              k \in DOMAIN wire[f] /\ SyncAll(i)[f][k] = wire[f][k]
<1>1. SyncAll(i)[f] \in Seq(Message)  BY SyncAllType
<1>2. PICK y \in Message : y = [idx |-> i, sync |-> TRUE]  BY DEF Message
<1>3. SyncAll(i)[f] = wire[f] \/ SyncAll(i)[f] = Append(wire[f], y)
  BY <1>2 DEF SyncAll, TypeOK
<1>4. wire[f] \in Seq(Message)  BY DEF TypeOK
<1>5. y.sync  BY <1>2
<1>6. \A k \in DOMAIN Append(wire[f], y) : ~Append(wire[f], y)[k].sync =>
        k \in DOMAIN wire[f] /\ Append(wire[f], y)[k] = wire[f][k]
  <2> HIDE <1>2, <1>3
  <2> QED BY <1>4, <1>5, AppendFacts
<1> QED BY <1>1, <1>3, <1>6

LEMMA SktReadOrder ==
  ASSUME TypeOK, MapInv, OrderInv, SktRead
  PROVE  OrderInv'
<1>0. \A f \in Fds : DOMAIN wire'[f] \subseteq Nat
  <2>1. TypeOK'  BY PostmanType DEF PostmanNext
  <2> QED BY <2>1, SMTT(60) DEF TypeOK
<1>1. PICK i \in 1 .. Len(Trace) : i = Head(skt)
  BY TailFacts DEF SktRead, TypeOK
<1> DEFINE s == Trace[i].src
<1>2. PICK fd \in RandClient(s) :
        /\ fd \in client_fd2bev
        /\ client_src2fd' = [client_src2fd EXCEPT ![s] = fd]
        /\ wire' = WriteTo(SyncAll(i), fd, [idx |-> i, sync |-> FALSE])
  BY <1>1 DEF SktRead
<1>3. fd \in Fds /\ s \in Srcs /\ i \in Nat
  BY <1>2 DEF TypeOK
<1>4. client_src2fd[s] = NoFd \/ client_src2fd[s] = fd
  BY <1>2 DEF RandClient
<1>5. /\ skt # <<>> /\ skt' = Tail(skt) /\ pos' = pos
      /\ UNCHANGED <<got, link, peer>>
  BY DEF SktRead, reader
<1>6. /\ SktInv' /\ BeforeSkt(i)'
      /\ \A n \in Nat : BeforeSkt(n) => BeforeSkt(n)' /\ n < i
  BY <1>1, <1>3, <1>5, SktTail DEF OrderInv
<1>7. \A f \in Fds : \A k \in DOMAIN wire'[f] : ~wire'[f][k].sync =>
           \/ k \in DOMAIN wire[f] /\ wire'[f][k] = wire[f][k]
           \/ /\ f = fd /\ wire'[f][k].idx = i
              /\ \A j \in DOMAIN wire'[f] : j < k \/ j = k
  <2>1. ASSUME NEW f \in Fds
        PROVE  wire'[f] = IF f = fd THEN Append(SyncAll(i)[f], [idx |-> i, sync |-> FALSE])
                                    ELSE SyncAll(i)[f]
    BY <1>2, SyncAllType DEF WriteTo
  <2>2. ASSUME NEW f \in Fds, NEW k \in DOMAIN wire'[f], ~wire'[f][k].sync
        PROVE  \/ k \in DOMAIN wire[f] /\ wire'[f][k] = wire[f][k]
               \/ /\ f = fd /\ wire'[f][k].idx = i
                  /\ \A j \in DOMAIN wire'[f] : j < k \/ j = k
    <3>1. CASE f # fd
      <4>1. wire'[f] = SyncAll(i)[f]  BY <2>1, <3>1
      <4> QED BY <2>2, <4>1, SyncAllFacts
    <3>2. CASE f = fd
      <4>1. PICK b \in Seq(Message) : b = SyncAll(i)[f]  BY SyncAllFacts
      <4>2. PICK q \in Message : q = [idx |-> i, sync |-> FALSE]  BY DEF Message
      <4>3. wire'[f] = Append(b, q)  BY <2>1, <3>2, <4>1, <4>2
      <4>4. q.idx = i  BY <4>2
      <4>5. \/ k \in DOMAIN b /\ wire'[f][k] = b[k]
            \/ wire'[f][k].idx = i /\ \A j \in DOMAIN wire'[f] : j < k \/ j = k
        <5> HIDE <4>1, <4>2
        <5> QED BY <2>2, <4>3, <4>4, AppendFacts
      <4>6. k \in DOMAIN b /\ wire'[f][k] = b[k] =>
              k \in DOMAIN wire[f] /\ wire'[f][k] = wire[f][k]
        BY <2>2, <4>1, SyncAllFacts
      <4> QED BY <3>2, <4>5, <4>6
    <3> QED BY <3>1, <3>2
  <2> QED BY <2>2
<1>8. \A f \in Fds : \A k \in DOMAIN wire[f] : wire[f][k].idx \in Nat /\ k \in Nat
  <2> SUFFICES ASSUME NEW f \in Fds, NEW k \in DOMAIN wire[f]
               PROVE  wire[f][k].idx \in Nat /\ k \in Nat
    OBVIOUS
  <2>1. wire[f][k].idx \in Nat  BY WireFacts
  <2>2. DOMAIN wire[f] = 1 .. Len(wire[f])  BY DEF TypeOK
  <2> QED BY <2>1, <2>2
<1>9. \A r \in Srcs : client_src2fd[r] # NoFd => client_src2fd'[r] = client_src2fd[r]
  BY <1>2, <1>3, <1>4 DEF TypeOK
<1>10. client_src2fd'[s] = fd
  BY <1>2, <1>3 DEF TypeOK
<1>11. WireInv'
  <2> SUFFICES ASSUME NEW f \in Fds, NEW k \in DOMAIN wire'[f], ~wire'[f][k].sync
               PROVE  /\ BeforeSkt(wire[f][k].idx)'
                      /\ client_src2fd'[Trace[wire'[f][k].idx].src] = f
                      /\ \A j \in DOMAIN wire'[f] :
                           j < k /\ ~wire'[f][j].sync => wire'[f][j].idx < wire'[f][k].idx
    BY DEF WireInv
  <2>1. CASE k \in DOMAIN wire[f] /\ wire'[f][k] = wire[f][k]
    <3> DEFINE n == wire[f][k].idx
    <3>1. n \in Nat /\ Trace[n].src \in Srcs /\ ~wire[f][k].sync
      BY <2>1, WireFacts
    <3>2. BeforeSkt(n) /\ client_src2fd[Trace[n].src] = f
      BY <2>1, <3>1 DEF OrderInv, WireInv
    <3>3. BeforeSkt(wire[f][k].idx)'
      BY <1>6, <2>1, <3>1, <3>2 DEF BeforeSkt
    <3>4. client_src2fd'[Trace[wire'[f][k].idx].src] = f
      BY <1>9, <2>1, <3>1, <3>2
    <3>5. ASSUME NEW j \in DOMAIN wire'[f], j < k, ~wire'[f][j].sync
          PROVE  wire'[f][j].idx < wire'[f][k].idx
      <4>1. DOMAIN wire'[f] \subseteq Nat  BY <1>0
      <4>2. ~(k < j) /\ k # j  BY <3>5, <4>1
      <4>3. j \in DOMAIN wire[f] /\ wire'[f][j] = wire[f][j]
        BY <1>7, <3>5, <4>2
      <4> QED BY <2>1, <3>1, <3>5, <4>3 DEF OrderInv, WireInv
    <3> QED BY <3>3, <3>4, <3>5
  <2>2. CASE f = fd /\ wire'[f][k].idx = i /\ \A j \in DOMAIN wire'[f] : j < k \/ j = k
    <3>1. BeforeSkt(wire[f][k].idx)'
      BY <1>6, <2>2 DEF BeforeSkt
    <3>2. client_src2fd'[Trace[wire'[f][k].idx].src] = f
      BY <1>10, <2>2
    <3>3. ASSUME NEW j \in DOMAIN wire'[f], j < k, ~wire'[f][j].sync
          PROVE  wire'[f][j].idx < wire'[f][k].idx
      <4>1. DOMAIN wire'[f] \subseteq Nat  BY <1>0
      <4>2. ~(k < j) /\ k # j  BY <3>3, <4>1
      <4>3. j \in DOMAIN wire[f] /\ wire'[f][j] = wire[f][j]
        BY <1>7, <3>3, <4>2
      <4>4. BeforeSkt(wire[f][j].idx)  BY <3>3, <4>3 DEF OrderInv, WireInv
      <4> QED BY <1>6, <1>8, <2>2, <4>3, <4>4
    <3> QED BY <3>1, <3>2, <3>3
  <2> QED BY <1>7, <2>1, <2>2
<1>12. GotInv'
  <2> SUFFICES ASSUME NEW c \in Managers, NEW l \in DOMAIN got[c], ~got[c][l].sync
               PROVE  /\ BeforeSkt(got[c][l].idx)'
                      /\ \A f \in Fds : \A k \in DOMAIN wire'[f] :
                           /\ ~wire'[f][k].sync
                           /\ Trace[got[c][l].idx].src = Trace[wire'[f][k].idx].src
                           => got[c][l].idx < wire'[f][k].idx
    BY <1>5 DEF GotInv
  <2>1. got[c][l].idx \in Nat /\ BeforeSkt(got[c][l].idx)
    BY GotFacts DEF OrderInv, GotInv
  <2>2. BeforeSkt(got[c][l].idx)'
    BY <1>5, <1>6, <2>1 DEF BeforeSkt
  <2>3. ASSUME NEW f \in Fds, NEW k \in DOMAIN wire'[f], ~wire'[f][k].sync,
               Trace[got[c][l].idx].src = Trace[wire'[f][k].idx].src
        PROVE  got[c][l].idx < wire'[f][k].idx
    BY <1>6, <1>7, <2>1, <2>3, ZenonT(60) DEF OrderInv, GotInv
  <2> QED BY <2>2, <2>3
<1> QED BY <1>5, <1>6, <1>11, <1>12 DEF OrderInv, LinkInv

(* A wire that loses all it holds, with its connection, keeps what is said *)
(* of the wires; so does a source that forgets its descriptor once the     *)
(* wire of that descriptor is empty.                                       *)
LEMMA EmptiedOrder ==
  ASSUME TypeOK, OrderInv, skt' = skt, pos' = pos, got' = got,
         \A f \in Fds : wire'[f] = <<>> \/
           /\ wire'[f] = wire[f]
           /\ \A s \in Srcs : client_src2fd[s] = f => client_src2fd'[s] = f
  PROVE  SktInv' /\ WireInv' /\ GotInv'
<1>1. \A n : BeforeSkt(n)' <=> BeforeSkt(n)  BY DEF BeforeSkt
<1>2. SktInv'  BY DEF OrderInv, SktInv
<1>3. \A f \in Fds : \A k \in DOMAIN wire'[f] :
        /\ wire'[f] = wire[f]
        /\ \A s \in Srcs : client_src2fd[s] = f => client_src2fd'[s] = f
  OBVIOUS
<1>4. WireInv'
  <2> SUFFICES ASSUME NEW f \in Fds, NEW k \in DOMAIN wire'[f], NEW n,
                      n = wire'[f][k].idx, ~wire'[f][k].sync
               PROVE  /\ BeforeSkt(n)'
                      /\ client_src2fd'[Trace[n].src] = f
                      /\ \A j \in DOMAIN wire'[f] :
                           j < k /\ ~wire'[f][j].sync => wire'[f][j].idx < n
    BY DEF WireInv
  <2>1. wire'[f] = wire[f] /\ k \in DOMAIN wire[f]  BY <1>3
  <2>2. Trace[n].src \in Srcs  BY <2>1, WireFacts
  <2>3. /\ BeforeSkt(n) /\ client_src2fd[Trace[n].src] = f
        /\ \A j \in DOMAIN wire'[f] : j < k /\ ~wire'[f][j].sync => wire'[f][j].idx < n
    BY <2>1 DEF OrderInv, WireInv
  <2>4. client_src2fd'[Trace[n].src] = f  BY <1>3, <2>2, <2>3
  <2> QED BY <1>1, <2>3, <2>4
<1>5. GotInv'
  <2> SUFFICES ASSUME NEW c \in Managers, NEW l \in DOMAIN got[c], NEW n,
                      n = got[c][l].idx, ~got[c][l].sync
               PROVE  /\ BeforeSkt(n)'
                      /\ \A f \in Fds : \A k \in DOMAIN wire'[f] :
                           ~wire'[f][k].sync /\ Trace[n].src = Trace[wire'[f][k].idx].src
                           => n < wire'[f][k].idx
    BY DEF GotInv
  <2>1. BeforeSkt(n)'  BY <1>1 DEF OrderInv, GotInv
  <2>2. ASSUME NEW f \in Fds, NEW k \in DOMAIN wire'[f],
               ~wire'[f][k].sync, Trace[n].src = Trace[wire'[f][k].idx].src
        PROVE  n < wire'[f][k].idx
    <3>1. wire'[f] = wire[f]  BY <1>3
    <3> QED BY <2>2, <3>1 DEF OrderInv, GotInv
  <2> QED BY <2>1, <2>2
<1> QED BY <1>2, <1>4, <1>5

LEMMA AcceptOrder ==
  ASSUME TypeOK, OrderInv, NEW m \in Managers, NEW fd \in Fds, AcceptConn(m, fd)
  PROVE  OrderInv'
<1>1. UNCHANGED <<skt, pos, got, wire, client_src2fd>>
  BY DEF AcceptConn, reader
<1>2. SktInv' /\ WireInv' /\ GotInv'  BY <1>1, EmptiedOrder
<1>3. LinkInv'
  <2>1. /\ \A f \in Fds : peer'[f] = IF f = fd THEN m ELSE peer[f]
        /\ \A c \in Managers : link'[c] = IF c = m THEN fd ELSE link[c]
        /\ peer[fd] = NoManager
        /\ \A c \in Managers : link[c] # NoFd => link[c] \in Fds
    BY DEF AcceptConn, LowestFree, TypeOK
  <2> QED BY <2>1 DEF OrderInv, LinkInv
<1> QED BY <1>2, <1>3 DEF OrderInv

LEMMA CloseOrder ==
  ASSUME TypeOK, MapInv, OrderInv, NEW fd \in Fds, ClientBevent(fd)
  PROVE  OrderInv'
<1>1. UNCHANGED <<skt, pos, got, link>>
  BY DEF ClientBevent, reader
<1>2. \A f \in Fds : wire'[f] = IF f = fd THEN <<>> ELSE wire[f]
  BY DEF ClientBevent, TypeOK
<1>3. \A s \in Srcs : client_src2fd'[s] =
        IF s \in client_fd2src[fd] THEN NoFd ELSE client_src2fd[s]
  BY DEF ClientBevent
<1>4. \A s \in Srcs : s \in client_fd2src[fd] => client_src2fd[s] = fd
  BY DEF MapInv, MapsAgree
<1>5. SktInv' /\ WireInv' /\ GotInv'
  BY <1>1, <1>2, <1>3, <1>4, EmptiedOrder
<1>6. LinkInv'
  <2>1. /\ \A f \in Fds : peer'[f] = IF f = fd THEN NoManager ELSE peer[f]
        /\ link[peer[fd]] # fd
        /\ \A c \in Managers : link[c] # NoFd => link[c] \in Fds
    BY DEF ClientBevent, TypeOK
  <2> QED BY <1>1, <2>1 DEF OrderInv, LinkInv
<1> QED BY <1>5, <1>6 DEF OrderInv

LEMMA SktReadDiesOrder ==
  ASSUME TypeOK, OrderInv, SktReadDies
  PROVE  OrderInv'
<1>1. /\ skt # <<>> /\ skt' = Tail(skt) /\ pos' = pos
      /\ UNCHANGED <<wire, got, client_src2fd, link, peer>>
  BY DEF SktReadDies, reader, maps, network
<1>2. PICK i \in Nat : i = Head(skt)  BY <1>1, TailFacts DEF TypeOK
<1>3. SktInv' /\ \A n \in Nat : BeforeSkt(n) => BeforeSkt(n)'
  BY <1>1, <1>2, SktTail DEF OrderInv
<1>4. WireInv'
  <2>1. \A f \in Fds : \A k \in DOMAIN wire[f] : wire[f][k].idx \in Nat  BY WireFacts
  <2> QED BY <1>1, <1>3, <2>1 DEF OrderInv, WireInv
<1>5. GotInv'
  <2>1. \A c \in Managers : \A k \in DOMAIN got[c] : got[c][k].idx \in Nat  BY GotFacts
  <2> QED BY <1>1, <1>3, <2>1 DEF OrderInv, GotInv
<1> QED BY <1>1, <1>3, <1>4, <1>5 DEF OrderInv, LinkInv

LEMMA EndsOrder ==
  ASSUME TypeOK, OrderInv, PostmanEnds
  PROVE  OrderInv'
<1>1. /\ UNCHANGED <<skt, pos, got>>
      /\ \A f \in Fds : wire'[f] = <<>>
      /\ \A c \in Managers : link'[c] = NoFd
  BY DEF PostmanEnds, reader
<1> QED BY <1>1, EmptiedOrder DEF OrderInv, LinkInv

LEMMA DropOrder ==
  ASSUME TypeOK, OrderInv, NEW m \in Managers, Drop(m)
  PROVE  OrderInv'
<1>1. /\ UNCHANGED <<skt, pos, got, client_src2fd, peer>>
      /\ \A f \in Fds : wire'[f] = IF f = link[m] THEN <<>> ELSE wire[f]
      /\ \A c \in Managers : link'[c] = IF c = m THEN NoFd ELSE link[c]
  BY DEF Drop, reader, postman, maps, TypeOK
<1>2. SktInv' /\ WireInv' /\ GotInv'  BY <1>1, EmptiedOrder
<1> QED BY <1>1, <1>2 DEF OrderInv, LinkInv

(* A manager receives the first message of its wire.  It comes before the  *)
(* other queries of its source: those are behind it on the same wire.      *)
LEMMA DeliverOrder ==
  ASSUME TypeOK, OrderInv, NEW m \in Managers, Deliver(m)
  PROVE  OrderInv'
<1>1. PICK fd \in Fds : fd = link[m]  BY DEF Deliver, TypeOK
<1>2. /\ UNCHANGED <<skt, pos, client_src2fd, peer, link>>
      /\ \A f \in Fds : wire'[f] = IF f = fd THEN Tail(wire[fd]) ELSE wire[f]
      /\ \A c \in Managers : got'[c] = IF c = m THEN Append(got[m], Head(wire[fd])) ELSE got[c]
      /\ wire[fd] # <<>>
  BY <1>1 DEF Deliver, reader, postman, maps, TypeOK
<1>3. /\ wire[fd] \in Seq(Message) /\ got[m] \in Seq(Message)  BY DEF TypeOK
<1>4. PICK h \in Message : h = Head(wire[fd]) /\ h = wire[fd][1] /\ 1 \in DOMAIN wire[fd]
  BY <1>2, <1>3, TailFacts
<1>5. \A f \in Fds : \A k \in DOMAIN wire'[f] : k \in Nat /\
        IF f = fd THEN k + 1 \in DOMAIN wire[f] /\ wire'[f][k] = wire[f][k + 1] /\ 1 < k + 1
                  ELSE k \in DOMAIN wire[f] /\ wire'[f][k] = wire[f][k]
  <2>1. \A f \in Fds : DOMAIN wire[f] \subseteq Nat  BY DEF TypeOK
  <2>2. \A k \in DOMAIN Tail(wire[fd]) : k \in Nat /\ k + 1 \in DOMAIN wire[fd]
          /\ Tail(wire[fd])[k] = wire[fd][k + 1] /\ 1 < k + 1
    BY <1>2, <1>3, TailFacts
  <2> QED BY <1>2, <2>1, <2>2
<1>6. \A c \in Managers : \A l \in DOMAIN got'[c] :
        \/ l \in DOMAIN got[c] /\ got'[c][l] = got[c][l]
        \/ got'[c][l] = h
  <2>1. \A l \in DOMAIN Append(got[m], h) :
          \/ l \in DOMAIN got[m] /\ Append(got[m], h)[l] = got[m][l]
          \/ Append(got[m], h)[l] = h
    BY <1>3, AppendFacts
  <2> QED BY <1>2, <1>4, <2>1
<1>7. ASSUME NEW n, BeforeSkt(n) PROVE BeforeSkt(n)'
  BY <1>2, <1>7 DEF BeforeSkt
<1>8. WireInv'
  <2> SUFFICES ASSUME NEW f \in Fds, NEW k \in DOMAIN wire'[f], NEW n,
                      n = wire'[f][k].idx, ~wire'[f][k].sync
               PROVE  /\ BeforeSkt(n)'
                      /\ client_src2fd'[Trace[n].src] = f
                      /\ \A j \in DOMAIN wire'[f] :
                           j < k /\ ~wire'[f][j].sync => wire'[f][j].idx < n
    BY DEF WireInv
  <2>1. CASE f = fd
    BY <1>2, <1>5, <1>7, <2>1 DEF OrderInv, WireInv
  <2>2. CASE f # fd
    BY <1>2, <1>5, <1>7, <2>2 DEF OrderInv, WireInv
  <2> QED BY <2>1, <2>2
<1>9. GotInv'
  <2> SUFFICES ASSUME NEW c \in Managers, NEW l \in DOMAIN got'[c], NEW n,
                      n = got'[c][l].idx, ~got'[c][l].sync
               PROVE  /\ BeforeSkt(n)'
                      /\ \A f \in Fds : \A k \in DOMAIN wire'[f] :
                           ~wire'[f][k].sync /\ Trace[n].src = Trace[wire'[f][k].idx].src
                           => n < wire'[f][k].idx
    BY DEF GotInv
  <2>1. CASE l \in DOMAIN got[c] /\ got'[c][l] = got[c][l]
    <3>1. BeforeSkt(n)  BY <2>1 DEF OrderInv, GotInv
    <3>2. ASSUME NEW f \in Fds, NEW k \in DOMAIN wire'[f],
                 ~wire'[f][k].sync, Trace[n].src = Trace[wire'[f][k].idx].src
          PROVE  n < wire'[f][k].idx
      <4>1. PICK j \in DOMAIN wire[f] : wire'[f][k] = wire[f][j]  BY <1>5
      <4> QED BY <2>1, <3>2, <4>1 DEF OrderInv, GotInv
    <3> QED BY <1>7, <3>1, <3>2
  <2>2. CASE got'[c][l] = h
    <3>1. BeforeSkt(n) /\ client_src2fd[Trace[n].src] = fd
      BY <1>4, <2>2 DEF OrderInv, WireInv
    <3>2. ASSUME NEW f \in Fds, NEW k \in DOMAIN wire'[f],
                 ~wire'[f][k].sync, Trace[n].src = Trace[wire'[f][k].idx].src
          PROVE  n < wire'[f][k].idx
      <4>1. CASE f = fd
        <5>1. ~wire[f][1].sync /\ n = wire[f][1].idx /\ 1 \in DOMAIN wire[f]
          BY <1>4, <2>2, <4>1
        <5>2. PICK j \in DOMAIN wire[f] : wire'[f][k] = wire[f][j] /\ 1 < j
          BY <1>5, <4>1
        <5> QED BY <3>2, <5>1, <5>2 DEF OrderInv, WireInv
      <4>2. CASE f # fd
        <5>1. k \in DOMAIN wire[f] /\ wire'[f][k] = wire[f][k]  BY <1>5, <4>2
        <5>2. client_src2fd[Trace[wire[f][k].idx].src] = f
          BY <3>2, <5>1 DEF OrderInv, WireInv
        <5> QED BY <3>1, <3>2, <4>2, <5>1, <5>2
      <4> QED BY <4>1, <4>2
    <3> QED BY <1>7, <3>1, <3>2
  <2> QED BY <1>6, <2>1, <2>2
<1> QED BY <1>2, <1>8, <1>9 DEF OrderInv, SktInv, LinkInv

LEMMA InitOrder == Init => OrderInv
  BY DEF Init, OrderInv, SktInv, WireInv, GotInv, LinkInv

LEMMA NextOrder == TypeOK /\ MapInv /\ OrderInv /\ [Next]_vars => OrderInv'
<1> SUFFICES ASSUME TypeOK, MapInv, OrderInv, [Next]_vars PROVE OrderInv'
  OBVIOUS
<1>1. CASE UNCHANGED <<skt, wire, got, client_src2fd, link, peer>>
           /\ (pos' = pos \/ pos' = pos + 1)
  <2>1. ASSUME NEW n \in Nat, BeforeSkt(n) PROVE BeforeSkt(n)'
    BY <1>1, <2>1 DEF BeforeSkt, TypeOK
  <2>2. SktInv'
    <3>1. \A j \in DOMAIN skt : skt[j] \in Nat  BY DEF TypeOK
    <3> QED BY <1>1, <3>1 DEF OrderInv, SktInv, TypeOK
  <2>3. WireInv'
    <3>1. \A f \in Fds : \A k \in DOMAIN wire[f] : wire[f][k].idx \in Nat  BY WireFacts
    <3> QED BY <1>1, <2>1, <3>1 DEF OrderInv, WireInv
  <2>4. GotInv'
    <3>1. \A c \in Managers : \A k \in DOMAIN got[c] : got[c][k].idx \in Nat  BY GotFacts
    <3> QED BY <1>1, <2>1, <3>1 DEF OrderInv, GotInv
  <2> QED BY <1>1, <2>2, <2>3, <2>4 DEF OrderInv, LinkInv
<1> USE DEF reader, postman, maps, network, bounds
<1>2. CASE ReaderNext
  BY <1>1, <1>2, ReadInputOrder
  DEF ReaderNext, Unblock, ReaderSignal, ReadInvalid, ReadEnd
<1>3. CASE PostmanNext
  <2>1. CASE AcceptError \/ PostmanSignal
    BY <1>1, <2>1 DEF AcceptError, PostmanSignal
  <2> QED BY <1>3, <2>1, AcceptOrder, CloseOrder, SktReadOrder, SktReadDiesOrder, EndsOrder
          DEF PostmanNext
<1>4. CASE Environment
  <2>1. ASSUME NEW m \in Managers, Connect(m) PROVE OrderInv'
    BY <1>1, <2>1 DEF Connect
  <2>2. CASE Tick  BY <1>1, <2>2 DEF Tick
  <2> QED BY <1>4, <2>1, <2>2, DropOrder, DeliverOrder DEF Environment
<1>5. CASE UNCHANGED vars
  BY <1>1, <1>5 DEF vars
<1> QED BY <1>2, <1>3, <1>4, <1>5 DEF Next

-----------------------------------------------------------------------------
LEMMA InitRefines == Init => Abstract!DInit
<1> SUFFICES ASSUME Init PROVE Abstract!DInit
  OBVIOUS
<1>1. ownerBar = [s \in Srcs |-> NoManager]
  BY DEF Init, ownerBar
<1>2. handedBar = [m \in Managers |-> {}]
  BY DEF Init, handedBar
<1> QED BY <1>1, <1>2 DEF Abstract!DInit

LEMMA AcceptRefines ==
  ASSUME TypeOK, MapInv, NEW m \in Managers, NEW fd \in Fds, AcceptConn(m, fd)
  PROVE  UNCHANGED <<ownerBar, handedBar>>
<1>1. \A s \in Srcs : client_src2fd[s] # NoFd => peer[client_src2fd[s]] # NoManager
  BY DEF AcceptConn, MapInv, MapsAgree, OpenFds
<1>2. \A s \in Srcs : client_src2fd[s] # fd
  BY <1>1 DEF AcceptConn, LowestFree
<1>3. \A f \in Fds : peer'[f] = IF f = fd THEN m ELSE peer[f]
  BY DEF AcceptConn, TypeOK
<1>4. client_src2fd' = client_src2fd /\ got' = got
  BY DEF AcceptConn
<1>5. \A s \in Srcs : client_src2fd[s] # NoFd => client_src2fd[s] \in Fds
  BY DEF TypeOK
<1>6. ownerBar' = ownerBar  BY <1>2, <1>3, <1>4, <1>5 DEF ownerBar
<1>7. handedBar' = handedBar  BY <1>4 DEF handedBar
<1> QED BY <1>6, <1>7

(* A connection ends: the sources of its descriptor lose their owner.      *)
LEMMA CloseRefines ==
  ASSUME TypeOK, MapInv, NEW fd \in Fds, ClientBevent(fd)
  PROVE  \E lost \in SUBSET Srcs : Abstract!Lose(lost)
<1>1. \A s \in Srcs : client_src2fd'[s] =
        IF s \in client_fd2src[fd] THEN NoFd ELSE client_src2fd[s]
  BY DEF ClientBevent
<1>2. \A f \in Fds : peer'[f] = IF f = fd THEN NoManager ELSE peer[f]
  BY DEF ClientBevent, TypeOK
<1>3. \A s \in Srcs : (client_src2fd[s] = fd) <=> (s \in client_fd2src[fd])
  BY DEF MapInv, MapsAgree
<1>4. \A s \in Srcs : client_src2fd[s] # NoFd => client_src2fd[s] \in Fds
  BY DEF TypeOK
<1>5. ownerBar' = [s \in Srcs |-> IF s \in client_fd2src[fd] THEN NoManager ELSE ownerBar[s]]
  <2>1. ASSUME NEW s \in Srcs
        PROVE  (IF client_src2fd'[s] = NoFd THEN NoManager ELSE peer'[client_src2fd'[s]])
                 = IF s \in client_fd2src[fd] THEN NoManager ELSE ownerBar[s]
    BY <1>1, <1>2, <1>3, <1>4 DEF ownerBar
  <2> QED BY <2>1 DEF ownerBar
<1>6. handedBar' = handedBar  BY DEF ClientBevent, handedBar
<1>7. Abstract!Lose(client_fd2src[fd])  BY <1>5, <1>6 DEF Abstract!Lose
<1>8. client_fd2src[fd] \in SUBSET Srcs  BY DEF TypeOK
<1> QED BY <1>7, <1>8

(* The Postman closes everything: every source loses its owner.            *)
LEMMA EndsRefines ==
  ASSUME TypeOK, PostmanEnds
  PROVE  \E lost \in SUBSET Srcs : Abstract!Lose(lost)
<1>1. client_src2fd' = client_src2fd /\ \A f \in Fds : peer'[f] = NoManager
  BY DEF PostmanEnds, maps
<1>2. \A s \in Srcs : client_src2fd[s] # NoFd => client_src2fd[s] \in Fds
  BY DEF TypeOK
<1>3. ownerBar' = [s \in Srcs |-> IF s \in Srcs THEN NoManager ELSE ownerBar[s]]
  BY <1>1, <1>2 DEF ownerBar
<1>4. handedBar' = handedBar  BY DEF PostmanEnds, handedBar
<1>5. Abstract!Lose(Srcs)  BY <1>3, <1>4 DEF Abstract!Lose
<1> QED BY <1>5

(* A query is read: its source gets the manager behind the chosen          *)
(* descriptor for its owner, or has it already.                            *)
LEMMA SktReadRefines ==
  ASSUME TypeOK, MapInv, SktRead
  PROVE  \/ \E s \in Srcs, t \in Managers : Abstract!Own(s, t)
         \/ UNCHANGED <<ownerBar, handedBar>>
<1> DEFINE s == Trace[Head(skt)].src
<1>1. s \in Srcs  BY SMTT(60) DEF SktRead, TypeOK
<1>2. PICK fd \in RandClient(s) :
        fd \in client_fd2bev /\ client_src2fd' = [client_src2fd EXCEPT ![s] = fd]
  BY DEF SktRead
<1>3. UNCHANGED <<peer, got>> /\ fd \in Fds  BY <1>2 DEF SktRead, TypeOK
<1>4. client_src2fd[s] = NoFd \/ client_src2fd[s] = fd  BY <1>2 DEF RandClient
<1>5. peer[fd] \in Managers
  BY <1>2, <1>3 DEF SktRead, MapInv, OpenFds, TypeOK
<1>6. handedBar' = handedBar  BY <1>3 DEF handedBar
<1>7. \A r \in Srcs : client_src2fd'[r] = IF r = s THEN fd ELSE client_src2fd[r]
  BY <1>1, <1>2 DEF TypeOK
<1> HIDE DEF s
<1>8. CASE client_src2fd[s] = fd
  <2>1. ownerBar' = ownerBar  BY <1>3, <1>7, <1>8 DEF ownerBar
  <2> QED BY <1>6, <2>1
<1>9. CASE client_src2fd[s] = NoFd
  <2>1. ownerBar[s] = NoManager  BY <1>1, <1>9 DEF ownerBar
  <2>2. ownerBar' = [ownerBar EXCEPT ![s] = peer[fd]]
    BY <1>1, <1>3, <1>7, <1>9 DEF ownerBar
  <2>3. Abstract!Own(s, peer[fd])  BY <1>6, <2>1, <2>2 DEF Abstract!Own
  <2> QED BY <1>1, <1>5, <2>3
<1> QED BY <1>4, <1>8, <1>9

(* A manager receives a message: a sync message is none of Dispatch's      *)
(* business, a query is handed to the owner of its source, behind          *)
(* everything the manager has and after every query of its source.         *)
LEMMA DeliverRefines ==
  ASSUME TypeOK, OrderInv, NEW m \in Managers, Deliver(m)
  PROVE  \/ \E n \in DOMAIN Trace : Abstract!Hand(m, n)
         \/ UNCHANGED <<ownerBar, handedBar>>
<1>1. PICK fd \in Fds : fd = link[m]  BY DEF Deliver, TypeOK
<1>2. /\ UNCHANGED <<client_src2fd, peer>>
      /\ \A c \in Managers : got'[c] = IF c = m THEN Append(got[m], Head(wire[fd])) ELSE got[c]
      /\ wire[fd] # <<>> /\ wire[fd] \in Seq(Message) /\ got[m] \in Seq(Message)
  BY <1>1 DEF Deliver, postman, maps, TypeOK
<1>3. PICK h \in Message : h = Head(wire[fd]) /\ h = wire[fd][1] /\ 1 \in DOMAIN wire[fd]
  BY <1>2, TailFacts
<1>4. ownerBar' = ownerBar  BY <1>2 DEF ownerBar
<1>5. PICK p \in Nat : p = Len(got[m]) + 1  BY <1>2
<1>6. /\ DOMAIN got'[m] = DOMAIN got[m] \cup {p} /\ got'[m][p] = h
      /\ \A i \in DOMAIN got[m] : got'[m][i] = got[m][i] /\ i < p
  <2>1. got'[m] = Append(got[m], h)  BY <1>2, <1>3
  <2>2. \A i \in DOMAIN got[m] : i < Len(got[m]) + 1  BY <1>2, AppendFacts
  <2> HIDE <1>3
  <2> QED BY <1>2, <1>5, <2>1, <2>2, AppendFacts
<1> DEFINE H(c) == {<<i, got[c][i].idx>> : i \in {j \in DOMAIN got[c] : ~got[c][j].sync}}
           N(c) == {<<i, got'[c][i].idx>> : i \in {j \in DOMAIN got'[c] : ~got'[c][j].sync}}
<1>7. handedBar = [c \in Managers |-> H(c)] /\ handedBar' = [c \in Managers |-> N(c)]
  BY DEF handedBar
<1>8. \A c \in Managers : c # m => N(c) = H(c)  BY <1>2
<1>9. N(m) = IF h.sync THEN H(m) ELSE H(m) \cup {<<p, h.idx>>}
  BY <1>6
<1> HIDE DEF H, N
<1>10. CASE h.sync
  <2>1. handedBar' = handedBar  BY <1>7, <1>8, <1>9, <1>10
  <2> QED BY <1>4, <2>1
<1>11. CASE ~h.sync
  <2> DEFINE n == h.idx
  <2>1. n \in 1 .. Len(Trace) /\ n \in DOMAIN Trace /\ Trace[n].src \in Srcs
    BY TraceAssumption DEF Message
  <2>2. ownerBar[Trace[n].src] = m
    <3>1. client_src2fd[Trace[n].src] = fd
      BY <1>3, <1>11 DEF OrderInv, WireInv
    <3>2. peer[fd] = m  BY <1>1 DEF OrderInv, LinkInv
    <3> QED BY <2>1, <3>1, <3>2 DEF ownerBar
  <2>3. \A t \in Managers : \A o \in handedBar[t] : Trace[o[2]].src = Trace[n].src => o[2] < n
    <3>1. ASSUME NEW t \in Managers, NEW o \in H(t), Trace[o[2]].src = Trace[n].src
          PROVE  o[2] < n
      <4>1. PICK i \in DOMAIN got[t] : ~got[t][i].sync /\ o[2] = got[t][i].idx
        BY DEF H
      <4> QED BY <1>3, <1>11, <3>1, <4>1 DEF OrderInv, GotInv
    <3> QED BY <1>7, <3>1
  <2>4. handedBar' = [handedBar EXCEPT ![m] = @ \cup {<<p, n>>}]
    BY <1>7, <1>8, <1>9, <1>11
  <2>5. \A o \in handedBar[m] : o[1] < p
    <3>1. \A o \in H(m) : o[1] < p  BY <1>6 DEF H
    <3> QED BY <1>7, <3>1
  <2>6. \A t \in Managers : \A o \in handedBar[t] : o[2] \in DOMAIN Trace
    <3>1. ASSUME NEW t \in Managers, NEW o \in H(t) PROVE o[2] \in DOMAIN Trace
      <4>1. PICK i \in DOMAIN got[t] : o[2] = got[t][i].idx  BY DEF H
      <4>2. got[t][i].idx \in 1 .. Len(Trace)  BY GotFacts
      <4> QED BY <4>1, <4>2, TraceAssumption
    <3> QED BY <1>7, <3>1
  <2>7. <<p, n>> \in handedBar'[m]  BY <1>7, <1>9, <1>11
  <2> DEFINE src == [i \in DOMAIN Trace |-> Trace[i].src]
  <2>8. ownerBar[src[n]] = m  BY <2>1, <2>2
  <2>9. Abstract!Earlier(n)
    BY <2>1, <2>3, <2>6 DEF Abstract!Earlier
  <2>10. Abstract!Hand(m, n)
    BY <1>4, <2>4, <2>5, <2>7, <2>8, <2>9 DEF Abstract!Hand
  <2> QED BY <2>1, <2>10
<1> QED BY <1>10, <1>11

LEMMA NextRefines ==
  TypeOK /\ MapInv /\ OrderInv /\ [Next]_vars => [Abstract!DNext]_(Abstract!dvars)
<1> SUFFICES ASSUME TypeOK, MapInv, OrderInv, [Next]_vars
             PROVE  Abstract!DNext \/ UNCHANGED <<ownerBar, handedBar>>
  BY DEF Abstract!dvars
<1>1. CASE UNCHANGED <<client_src2fd, peer, got>>
  BY <1>1 DEF ownerBar, handedBar
<1> USE DEF reader, postman, maps, network, bounds
<1>2. CASE ReaderNext
  BY <1>1, <1>2 DEF ReaderNext, Unblock, ReaderSignal, ReadInvalid, ReadInput, ReadEnd
<1>3. CASE PostmanNext
  <2>1. CASE AcceptError \/ PostmanSignal \/ SktReadDies
    BY <1>1, <2>1 DEF AcceptError, PostmanSignal, SktReadDies
  <2>2. (\E lost \in SUBSET Srcs : Abstract!Lose(lost)) => Abstract!DNext
    BY DEF Abstract!DNext
  <2>3. (\E s \in Srcs, t \in Managers : Abstract!Own(s, t)) => Abstract!DNext
    BY DEF Abstract!DNext
  <2> QED BY <1>3, <2>1, <2>2, <2>3, AcceptRefines, CloseRefines, EndsRefines, SktReadRefines
          DEF PostmanNext
<1>4. CASE Environment
  <2>1. ASSUME NEW m \in Managers, Connect(m) \/ Drop(m)
        PROVE  Abstract!DNext \/ UNCHANGED <<ownerBar, handedBar>>
    BY <1>1, <2>1 DEF Connect, Drop
  <2>2. CASE Tick  BY <1>1, <2>2 DEF Tick
  <2>3. ASSUME NEW m \in Managers, NEW n \in DOMAIN Trace, Abstract!Hand(m, n)
        PROVE  Abstract!DNext
    BY <2>3 DEF Abstract!DNext
  <2> QED BY <1>4, <2>1, <2>2, <2>3, DeliverRefines DEF Environment
<1>5. CASE UNCHANGED vars
  BY <1>1, <1>5 DEF vars
<1> QED BY <1>2, <1>3, <1>4, <1>5 DEF Next

(* The controller implements Dispatch: every step of the Reader, of the    *)
(* Postman, of the network and of a manager is one of Dispatch, or changes *)
(* neither the owner of a source nor what has been received.               *)
THEOREM Refinement == Spec => ImplementsDispatch
<1> QED BY InitRefines, NextRefines, InitMaps, NextMaps, InitOrder, NextOrder, TypeCorrect, PTL
        DEF Spec, ImplementsDispatch, Abstract!DSpec

(* What Dispatch promises: that it holds is shown of every step that       *)
(* Dispatch allows.                                                        *)
Source == [i \in DOMAIN Trace |-> Trace[i].src]
DInv == Abstract!DTypeOK /\ Abstract!OnceInOrder

LEMMA InitDispatch == Abstract!DispatchAssumption /\ Abstract!DInit => DInv
  BY DEF Abstract!DispatchAssumption, Abstract!DInit, DInv, Abstract!DTypeOK, Abstract!OnceInOrder

(* A query is handed over in a place of its own, behind all others of its  *)
(* target, and no query of its source that was handed over before, to      *)
(* whatever target, is it or comes after it.                               *)
LEMMA HandKeeps ==
  ASSUME Abstract!DispatchAssumption, DInv, NEW t \in Managers, NEW n \in DOMAIN Source,
         Abstract!Hand(t, n)
  PROVE  DInv'
<1>1. PICK k \in Nat : /\ \A o \in handedBar[t] : o[1] < k
                       /\ handedBar' = [handedBar EXCEPT ![t] = @ \cup {<<k, n>>}]
  BY DEF Abstract!Hand
<1>2. \A u \in Managers : handedBar'[u] = IF u = t THEN handedBar[t] \cup {<<k, n>>} ELSE handedBar[u]
  BY <1>1 DEF DInv, Abstract!DTypeOK
<1>3. Abstract!DTypeOK'
  BY <1>1 DEF Abstract!Hand, DInv, Abstract!DTypeOK, Source
<1>4. \A u \in Managers : \A p \in handedBar[u] :
        p[1] \in Nat /\ p[2] \in Nat /\ (Source[p[2]] = Source[n] => p[2] < n)
  BY DEF Abstract!Hand, Abstract!Earlier, DInv, Abstract!DTypeOK,
         Abstract!DispatchAssumption, Source
<1>5. n \in Nat  BY DEF Abstract!DispatchAssumption, Source
<1>6. ASSUME NEW u \in Managers, NEW v \in Managers,
             NEW p \in handedBar'[u], NEW r \in handedBar'[v]
      PROVE  /\ p[2] = r[2] => u = v /\ p = r
             /\ u = v /\ Source[p[2]] = Source[r[2]] /\ p[1] < r[1] => p[2] < r[2]
  <2>1. CASE p \in handedBar[u] /\ r \in handedBar[v]
    BY <2>1 DEF DInv, Abstract!OnceInOrder, Source
  <2>2. CASE p \in handedBar[u] /\ r \notin handedBar[v]
    <3>1. v = t /\ r = <<k, n>>  BY <1>2, <2>2
    <3> QED BY <1>4, <1>5, <2>2, <3>1
  <2>3. CASE p \notin handedBar[u] /\ r \in handedBar[v]
    <3>1. u = t /\ p = <<k, n>>  BY <1>2, <2>3
    <3>2. v = t => r[1] < k  BY <1>1, <2>3
    <3> QED BY <1>4, <1>5, <2>3, <3>1, <3>2
  <2>4. CASE p \notin handedBar[u] /\ r \notin handedBar[v]
    <3>1. u = t /\ p = <<k, n>> /\ v = t /\ r = <<k, n>>  BY <1>2, <2>4
    <3> QED BY <3>1
  <2> QED BY <2>1, <2>2, <2>3, <2>4
<1>7. Abstract!OnceInOrder'  BY <1>6 DEF Abstract!OnceInOrder, Source
<1> QED BY <1>3, <1>7 DEF DInv

LEMMA NextDispatch ==
  Abstract!DispatchAssumption /\ DInv /\ [Abstract!DNext]_Abstract!dvars => DInv'
<1> SUFFICES ASSUME Abstract!DispatchAssumption, DInv, [Abstract!DNext]_Abstract!dvars PROVE DInv'
  OBVIOUS
<1>1. ASSUME NEW s \in Srcs, NEW t \in Managers, Abstract!Own(s, t) PROVE DInv'
  BY <1>1 DEF Abstract!Own, DInv, Abstract!DTypeOK, Abstract!OnceInOrder
<1>2. ASSUME NEW lost \in SUBSET Srcs, Abstract!Lose(lost) PROVE DInv'
  BY <1>2 DEF Abstract!Lose, DInv, Abstract!DTypeOK, Abstract!OnceInOrder
<1>3. CASE UNCHANGED Abstract!dvars
  BY <1>3 DEF Abstract!dvars, DInv, Abstract!DTypeOK, Abstract!OnceInOrder
<1> QED BY <1>1, <1>2, <1>3, HandKeeps DEF Abstract!DNext, Source

(* No query is received twice, by whatever managers, and a manager gets    *)
(* those of a source in the order of the trace, whatever connections are   *)
(* lost, re-opened or given the number of an older one.                    *)
THEOREM ReceivedOnceInOrder == Spec => []Abstract!OnceInOrder
<1>1. Abstract!DispatchAssumption
  BY TraceAssumption DEF Abstract!DispatchAssumption
<1>2. Abstract!DInit => DInv  BY <1>1, InitDispatch
<1>3. DInv /\ [Abstract!DNext]_<<ownerBar, handedBar>> => DInv'
  BY <1>1, NextDispatch DEF Abstract!dvars
<1>4. DInv => Abstract!OnceInOrder  BY DEF DInv
<1> QED BY <1>2, <1>3, <1>4, Refinement, PTL DEF ImplementsDispatch, Abstract!DSpec, Abstract!dvars

-----------------------------------------------------------------------------
(* Why SyncBeforeQueries holds while no connection is lost.  The           *)
(* descriptors rand_client can choose are the first num_clients accepted;  *)
(* they are all open when the first message is read, so each has had the   *)
(* sync message, on its wire or received, before a query is written to it. *)
FirstFds == {client_fds[i] : i \in {j \in DOMAIN client_fds : j <= num_clients}}
SyncWire ==
  /\ \A c \in backlog : link[c] = NoFd
  /\ ~done_sync_time => (\A f \in Fds : wire[f] = <<>>) /\ (\A c \in Managers : got[c] = <<>>)
  /\ \A c \in Managers : link[c] # NoFd =>
       \A k \in DOMAIN wire[link[c]] : wire[link[c]][k].sync <=> (k = 1 /\ got[c] = <<>>)
SyncOpen ==
  /\ \A f \in Fds : peer[f] # NoManager => link[peer[f]] = f
  /\ \A c \in Managers : link[c] = NoFd => got[c] = <<>>
  /\ \A f \in Fds : peer[f] = NoManager => wire[f] = <<>>
FirstServed ==
  /\ \A i \in DOMAIN client_fds : client_fds[i] \in client_fd2bev
  /\ \A s \in Srcs : client_src2fd[s] # NoFd => client_src2fd[s] \in FirstFds
  /\ done_sync_time => num_clients <= Len(client_fds)
  /\ done_sync_time => \A f \in FirstFds : wire[f] # <<>> \/ got[peer[f]] # <<>>
SyncInv ==
  drops = 0 => SyncWire /\ SyncBeforeQueries /\ (Serving => SyncOpen /\ FirstServed)

LEMMA FirstFacts ==
  ASSUME TypeOK, MapInv, Serving, FirstServed, NEW f \in FirstFds
  PROVE  f \in Fds /\ f \in client_fd2bev /\ peer[f] \in Managers
<1>1. f \in client_fd2bev  BY DEF FirstFds, FirstServed
<1> QED BY <1>1 DEF TypeOK, MapInv, OpenFds

LEMMA AcceptSync ==
  ASSUME TypeOK, MapInv, OrderInv, SyncInv, NEW m \in Managers, NEW fd \in Fds, AcceptConn(m, fd)
  PROVE  SyncInv'
<1> SUFFICES ASSUME drops' = 0 PROVE SyncInv'
  BY DEF SyncInv
<1>1. /\ drops = 0 /\ Serving /\ Serving' /\ m \in backlog /\ peer[fd] = NoManager
      /\ backlog' = backlog \ {m} /\ client_fd2bev' = client_fd2bev \cup {fd}
      /\ client_fds' = Append(client_fds, fd)
      /\ UNCHANGED <<client_src2fd, done_sync_time, wire, got>>
  BY DEF AcceptConn, LowestFree, Serving, bounds
<1>2. SyncWire /\ SyncBeforeQueries /\ SyncOpen /\ FirstServed
  BY <1>1 DEF SyncInv
<1>3. /\ \A f \in Fds : peer'[f] = IF f = fd THEN m ELSE peer[f]
      /\ \A c \in Managers : link'[c] = IF c = m THEN fd ELSE link[c]
      /\ link[m] = NoFd /\ got[m] = <<>> /\ wire[fd] = <<>>
      /\ \A c \in Managers : link[c] # NoFd => link[c] \in Fds
      /\ \A f \in Fds : peer[f] # NoManager => peer[f] \in Managers
  BY <1>1, <1>2 DEF AcceptConn, SyncWire, SyncOpen, TypeOK
<1>4. SyncWire'
  <2>1. \A c \in backlog' : link'[c] = NoFd
    BY <1>1, <1>2, <1>3 DEF SyncWire, TypeOK
  <2>2. ASSUME NEW c \in Managers, link'[c] # NoFd, NEW k \in DOMAIN wire'[link'[c]]
        PROVE  wire'[link'[c]][k].sync <=> (k = 1 /\ got'[c] = <<>>)
    <3>1. c # m  BY <1>1, <1>3, <2>2
    <3>2. link'[c] = link[c]  BY <1>3, <3>1
    <3> QED BY <1>1, <1>2, <2>2, <3>2 DEF SyncWire
  <2> QED BY <1>1, <1>2, <2>1, <2>2 DEF SyncWire
<1>5. SyncOpen'
  <2>1. ASSUME NEW f \in Fds, peer'[f] # NoManager PROVE link'[peer'[f]] = f
    <3>1. CASE f = fd  BY <1>3, <3>1
    <3>2. CASE f # fd
      <4>1. peer'[f] = peer[f] /\ peer[f] \in Managers  BY <1>3, <2>1, <3>2
      <4>2. link[peer[f]] = f /\ peer[f] # m  BY <1>2, <1>3, <2>1, <4>1 DEF SyncOpen
      <4> QED BY <1>3, <4>1, <4>2
    <3> QED BY <3>1, <3>2
  <2>2. \A c \in Managers : link'[c] = NoFd => got'[c] = <<>>
    BY <1>1, <1>2, <1>3 DEF SyncOpen
  <2>3. \A f \in Fds : peer'[f] = NoManager => wire'[f] = <<>>
    BY <1>1, <1>2, <1>3 DEF SyncOpen
  <2> QED BY <2>1, <2>2, <2>3 DEF SyncOpen
<1>6. /\ Len(client_fds) \in Nat /\ DOMAIN client_fds = 1 .. Len(client_fds)
      /\ Len(client_fds') = Len(client_fds) + 1
      /\ DOMAIN client_fds' = DOMAIN client_fds \cup {Len(client_fds) + 1}
      /\ client_fds'[Len(client_fds) + 1] = fd
      /\ \A i \in DOMAIN client_fds : client_fds'[i] = client_fds[i]
  BY <1>1, AppendFacts, SMTT(60) DEF TypeOK
<1>7. FirstFds \subseteq FirstFds'
  BY <1>6 DEF FirstFds
<1>8. num_clients <= Len(client_fds) => FirstFds' = FirstFds
  BY <1>6 DEF FirstFds
<1>9. FirstServed'
  <2>1. \A i \in DOMAIN client_fds' : client_fds'[i] \in client_fd2bev'
    BY <1>1, <1>2, <1>6 DEF FirstServed
  <2>2. \A s \in Srcs : client_src2fd'[s] # NoFd => client_src2fd'[s] \in FirstFds'
    BY <1>1, <1>2, <1>7 DEF FirstServed
  <2>3. done_sync_time' => num_clients <= Len(client_fds')
    BY <1>1, <1>2, <1>6 DEF FirstServed
  <2>4. ASSUME done_sync_time', NEW f \in FirstFds'
        PROVE  wire'[f] # <<>> \/ got'[peer'[f]] # <<>>
    <3>1. f \in FirstFds  BY <1>1, <1>2, <1>8, <2>4 DEF FirstServed
    <3>2. f \in Fds /\ peer[f] \in Managers  BY <1>1, <1>2, <3>1, FirstFacts
    <3>3. peer'[f] = peer[f]  BY <1>1, <1>3, <3>2
    <3> QED BY <1>1, <1>2, <2>4, <3>1, <3>3 DEF FirstServed
  <2> QED BY <2>1, <2>2, <2>3, <2>4 DEF FirstServed
<1> QED BY <1>1, <1>2, <1>4, <1>5, <1>9 DEF SyncInv, SyncBeforeQueries

(* While no connection is lost, no connection is closed.                   *)
LEMMA CloseSync ==
  ASSUME TypeOK, MapInv, SyncInv, NEW fd \in Fds, ClientBevent(fd)
  PROVE  SyncInv'
<1>1. drops' = drops /\ Serving /\ peer[fd] # NoManager /\ link[peer[fd]] # fd
  BY DEF ClientBevent, bounds, MapInv, OpenFds
<1>2. drops # 0  BY <1>1 DEF SyncInv, SyncOpen
<1> QED BY <1>1, <1>2 DEF SyncInv

LEMMA SktReadSync ==
  ASSUME TypeOK, MapInv, CountInv, OrderInv, SyncInv, SktRead
  PROVE  SyncInv'
<1> SUFFICES ASSUME drops' = 0 PROVE SyncInv'
  BY DEF SyncInv
<1>1. /\ drops = 0 /\ Serving /\ Serving' /\ done_sync_time' 
      /\ UNCHANGED <<client_fds, client_fd2bev, backlog, peer, link, got>>
  BY DEF SktRead, Serving, bounds
<1>2. SyncWire /\ SyncBeforeQueries /\ SyncOpen /\ FirstServed
  BY <1>1 DEF SyncInv
<1>3. PICK i \in 1 .. Len(Trace) : i = Head(skt)
  BY TailFacts DEF SktRead, TypeOK
<1>4. PICK s \in Srcs : s = Trace[i].src  OBVIOUS
<1>5. PICK y \in Message, q \in Message :
        y = [idx |-> i, sync |-> TRUE] /\ q = [idx |-> i, sync |-> FALSE]
  BY DEF Message
<1>6. y.sync = TRUE /\ q.sync = FALSE  BY <1>5
<1>7. PICK fd \in RandClient(s) :
        /\ fd \in client_fd2bev
        /\ client_src2fd' = [client_src2fd EXCEPT ![s] = fd]
        /\ wire' = WriteTo(SyncAll(i), fd, q)
  BY <1>3, <1>4, <1>5 DEF SktRead
<1>8. /\ \A r \in Srcs : client_src2fd'[r] = IF r = s THEN fd ELSE client_src2fd[r]
      /\ fd \in Fds
  BY <1>7 DEF TypeOK
<1>9. skt # <<>> /\ num_clients <= Len(client_fds) /\ Len(client_fds) \in Nat
      /\ DOMAIN client_fds = 1 .. Len(client_fds)
  BY DEF SktRead, CountInv, TypeOK
<1>10. fd \in FirstFds
  <2>1. CASE client_src2fd[s] # NoFd
    BY <1>2, <1>7, <2>1 DEF RandClient, FirstServed
  <2>2. CASE client_src2fd[s] = NoFd
    <3>1. PICK j \in ClientIndex : fd = client_fds[j + 1]
      BY <1>7, <2>2 DEF RandClient
    <3>2. j \in Nat /\ j + 1 \in DOMAIN client_fds /\ j + 1 <= num_clients
      BY <1>9
    <3> QED BY <3>1, <3>2 DEF FirstFds
  <2> QED BY <2>1, <2>2
<1>11. \A f \in Fds : wire[f] \in Seq(Message)  BY DEF TypeOK
<1>12. \A f \in Fds : SyncAll(i)[f] =
         IF ~done_sync_time /\ f \in client_fd2bev THEN Append(wire[f], y) ELSE wire[f]
  BY <1>5 DEF SyncAll
<1>13. ASSUME NEW f \in Fds
       PROVE  wire'[f] = IF f = fd THEN Append(SyncAll(i)[f], q) ELSE SyncAll(i)[f]
  BY <1>3, <1>7, SyncAllType DEF WriteTo
<1> HIDE <1>3, <1>5, <1>7
(* Before the first message all wires are empty, and it fills those of all *)
(* buffer events; after it a wire grows by the query at most.              *)
<1>14. ASSUME ~done_sync_time, NEW f \in Fds
       PROVE  IF f \in client_fd2bev
                THEN /\ DOMAIN wire'[f] \subseteq {1, 2} /\ wire'[f] # <<>> /\ wire'[f][1] = y
                     /\ 2 \in DOMAIN wire'[f] => wire'[f][2] = q
                ELSE wire'[f] = <<>>
  <2>1. wire[f] = <<>>  BY <1>2, <1>14 DEF SyncWire
  <2>2. fd \in client_fd2bev  BY <1>7
  <2>3. CASE f \notin client_fd2bev
    BY <1>12, <1>13, <1>14, <2>1, <2>2, <2>3
  <2>4. CASE f \in client_fd2bev
    <3>1. wire'[f] = IF f = fd THEN Append(Append(<<>>, y), q) ELSE Append(<<>>, y)
      BY <1>12, <1>13, <1>14, <2>1, <2>4
    <3>2. CASE f = fd  BY <1>11, <2>1, <2>4, <3>1, <3>2, FirstTwo
    <3>3. CASE f # fd
      <4>1. wire'[f] = Append(<<>>, y)  BY <3>1, <3>3
      <4> QED BY <1>11, <2>1, <2>4, <4>1, FirstTwo
    <3> QED BY <3>2, <3>3
  <2> QED BY <2>3, <2>4
<1>15. ASSUME done_sync_time, NEW f \in Fds
       PROVE  wire'[f] = IF f = fd THEN Append(wire[f], q) ELSE wire[f]
  BY <1>12, <1>13, <1>15
<1>16. SyncWire'
  <2>1. \A c \in backlog' : link'[c] = NoFd  BY <1>1, <1>2 DEF SyncWire
  <2>2. ASSUME NEW c \in Managers, link[c] # NoFd, NEW k \in DOMAIN wire'[link[c]]
        PROVE  wire'[link[c]][k].sync <=> (k = 1 /\ got[c] = <<>>)
    <3>1. PICK f \in Fds : f = link[c]  BY <2>2 DEF TypeOK
    <3>2. CASE ~done_sync_time
      <4>1. got[c] = <<>>  BY <1>2, <3>2 DEF SyncWire
      <4>2. f \in client_fd2bev  BY <1>14, <2>2, <3>1, <3>2
      <4>3. k = 1 \/ k = 2  BY <1>14, <2>2, <3>1, <3>2, <4>2
      <4>4. k = 1 => wire'[f][k] = y  BY <1>14, <3>2, <4>2
      <4>5. k = 2 => wire'[f][k] = q  BY <1>14, <2>2, <3>1, <3>2, <4>2
      <4> QED BY <1>6, <3>1, <4>1, <4>3, <4>4, <4>5
    <3>3. CASE done_sync_time /\ f # fd
      <4>1. wire'[f] = wire[f]  BY <1>15, <3>3
      <4> QED BY <1>2, <2>2, <3>1, <4>1 DEF SyncWire
    <3>4. CASE done_sync_time /\ f = fd
      <4>1. wire'[f] = Append(wire[f], q) /\ wire[f] \in Seq(Message)
        BY <1>11, <1>15, <3>4
      <4>2. /\ Len(wire[f]) \in Nat /\ DOMAIN wire[f] = 1 .. Len(wire[f])
            /\ DOMAIN wire'[f] = 1 .. Len(wire[f]) + 1
            /\ \A l \in DOMAIN wire[f] : wire'[f][l] = wire[f][l]
            /\ wire'[f][Len(wire[f]) + 1] = q
        BY <4>1, AppendFacts
      <4>3. CASE k \in DOMAIN wire[f]
        BY <1>2, <2>2, <3>1, <4>2, <4>3 DEF SyncWire
      <4>4. CASE k = Len(wire[f]) + 1
        <5>1. peer[f] = c  BY <2>2, <3>1 DEF OrderInv, LinkInv
        <5>2. wire[f] # <<>> \/ got[c] # <<>>
          BY <1>2, <1>10, <3>4, <5>1 DEF FirstServed
        <5>3. wire[f] # <<>> => Len(wire[f]) # 0  BY <4>1
        <5>4. ~(k = 1 /\ got[c] = <<>>)  BY <4>2, <4>4, <5>2, <5>3
        <5>5. ~wire'[f][k].sync  BY <1>6, <4>2, <4>4
        <5> QED BY <3>1, <5>4, <5>5
      <4>5. k \in DOMAIN wire[f] \/ k = Len(wire[f]) + 1
        BY <2>2, <3>1, <4>2
      <4> QED BY <4>3, <4>4, <4>5
    <3> QED BY <3>2, <3>3, <3>4
  <2> QED BY <1>1, <2>1, <2>2 DEF SyncWire
<1>17. \A f \in Fds : wire[f] # <<>> => wire'[f] # <<>>
  <2>1. ASSUME NEW f \in Fds, wire[f] # <<>>, done_sync_time PROVE wire'[f] # <<>>
    <3>1. Append(wire[f], q) # <<>>  BY <1>11, SMTT(60)
    <3> QED BY <1>15, <2>1, <3>1
  <2> QED BY <1>2, <2>1 DEF SyncWire
<1>18. SyncOpen'
  <2>1. ASSUME NEW f \in Fds, peer[f] = NoManager PROVE wire'[f] = <<>>
    <3>1. f \notin client_fd2bev /\ wire[f] = <<>> /\ f # fd
      BY <1>1, <1>2, <1>7, <2>1 DEF MapInv, OpenFds, SyncOpen
    <3> QED BY <1>14, <1>15, <3>1
  <2> QED BY <1>1, <1>2, <2>1 DEF SyncOpen
<1>19. FirstServed'
  <2>1. FirstFds' = FirstFds  BY <1>1 DEF FirstFds
  <2>2. ASSUME NEW f \in FirstFds PROVE wire'[f] # <<>> \/ got[peer[f]] # <<>>
    <3>1. f \in Fds /\ f \in client_fd2bev  BY <1>1, <1>2, FirstFacts
    <3>2. CASE ~done_sync_time  BY <1>14, <3>1, <3>2
    <3>3. CASE done_sync_time  BY <1>2, <1>17, <3>1, <3>3 DEF FirstServed
    <3> QED BY <3>2, <3>3
  <2> QED BY <1>1, <1>2, <1>8, <1>9, <1>10, <2>1, <2>2 DEF FirstServed
<1> QED BY <1>1, <1>2, <1>16, <1>18, <1>19 DEF SyncInv, SyncBeforeQueries

LEMMA DeliverSync ==
  ASSUME TypeOK, MapInv, OrderInv, SyncInv, NEW m \in Managers, Deliver(m)
  PROVE  SyncInv'
<1> SUFFICES ASSUME drops' = 0 PROVE SyncInv'
  BY DEF SyncInv
<1>1. PICK fd \in Fds : fd = link[m]  BY DEF Deliver, TypeOK
<1>2. /\ UNCHANGED <<pm, client_fds, client_fd2bev, client_src2fd, done_sync_time, backlog,
                     peer, link>>
      /\ drops = 0 /\ Serving' = Serving
      /\ \A f \in Fds : wire'[f] = IF f = fd THEN Tail(wire[fd]) ELSE wire[f]
      /\ \A c \in Managers : got'[c] = IF c = m THEN Append(got[m], Head(wire[fd])) ELSE got[c]
      /\ wire[fd] # <<>> /\ wire[fd] \in Seq(Message) /\ got[m] \in Seq(Message)
  BY <1>1 DEF Deliver, postman, maps, bounds, Serving, TypeOK
<1>3. /\ SyncWire /\ SyncBeforeQueries /\ (Serving => SyncOpen /\ FirstServed)
  BY <1>2 DEF SyncInv
<1>4. PICK h \in Message : h = Head(wire[fd]) /\ h = wire[fd][1] /\ 1 \in DOMAIN wire[fd]
  BY <1>2, TailFacts
<1>5. got'[m] = Append(got[m], h)  BY <1>2, <1>4
<1>6. h.sync <=> got[m] = <<>>
  <2>1. link[m] # NoFd /\ link[m] = fd  BY <1>1
  <2>2. wire[fd][1].sync <=> got[m] = <<>>  BY <1>3, <1>4, <2>1 DEF SyncWire
  <2> QED BY <1>4, <2>2
<1>7. peer[fd] = m  BY <1>1 DEF OrderInv, LinkInv
<1>8. /\ Len(got[m]) \in Nat /\ DOMAIN got[m] = 1 .. Len(got[m])
      /\ DOMAIN got'[m] = 1 .. Len(got[m]) + 1 /\ got'[m][Len(got[m]) + 1] = h
      /\ \A i \in DOMAIN got[m] : got'[m][i] = got[m][i]
      /\ got'[m] # <<>>
  <2> HIDE <1>4
  <2> QED BY <1>2, <1>5, AppendFacts, SMTT(60)
<1>9. SyncBeforeQueries'
  <2>1. ASSUME NEW i \in DOMAIN got'[m] PROVE got'[m][i].sync <=> i = 1
    <3>1. CASE i \in DOMAIN got[m]
      BY <1>2, <1>3, <1>8, <3>1 DEF SyncBeforeQueries
    <3>2. CASE i = Len(got[m]) + 1
      <4>1. got[m] = <<>> <=> Len(got[m]) = 0  BY <1>2
      <4> QED BY <1>6, <1>8, <3>2, <4>1
    <3> QED BY <1>8, <3>1, <3>2
  <2>2. ASSUME NEW c \in Managers, c # m, NEW i \in DOMAIN got'[c]
        PROVE  got'[c][i].sync <=> i = 1
    BY <1>2, <1>3, <2>2 DEF SyncBeforeQueries
  <2> QED BY <2>1, <2>2 DEF SyncBeforeQueries
<1>10. SyncWire'
  <2>1. \A c \in backlog' : link'[c] = NoFd  BY <1>2, <1>3 DEF SyncWire
  <2>2. done_sync_time'  BY <1>2, <1>3 DEF SyncWire
  <2>3. ASSUME NEW c \in Managers, link[c] # NoFd, NEW k \in DOMAIN wire'[link[c]]
        PROVE  wire'[link[c]][k].sync <=> (k = 1 /\ got'[c] = <<>>)
    <3>1. PICK f \in Fds : f = link[c]  BY <2>3 DEF TypeOK
    <3>2. CASE c = m
      <4>1. k \in DOMAIN Tail(wire[fd]) /\ wire'[fd][k] = Tail(wire[fd])[k]
        BY <1>1, <1>2, <2>3, <3>2
      <4>2. /\ k \in Nat /\ k # 0 /\ k + 1 \in DOMAIN wire[fd]
            /\ Tail(wire[fd])[k] = wire[fd][k + 1]
        BY <1>2, <4>1, TailFacts
      <4>3. k + 1 # 1  BY <4>2
      <4>4. ~wire[fd][k + 1].sync
        BY <1>1, <1>3, <2>3, <3>2, <4>2, <4>3 DEF SyncWire
      <4> QED BY <1>1, <1>8, <3>2, <4>1, <4>2, <4>4
    <3>3. CASE c # m
      <4>1. f # fd  BY <1>7, <2>3, <3>1, <3>3 DEF OrderInv, LinkInv
      <4>2. wire'[f] = wire[f] /\ got'[c] = got[c]  BY <1>2, <3>3, <4>1
      <4> QED BY <1>3, <2>3, <3>1, <4>2 DEF SyncWire
    <3> QED BY <3>2, <3>3
  <2> QED BY <1>2, <2>1, <2>2, <2>3 DEF SyncWire
<1>11. ASSUME Serving PROVE SyncOpen' /\ FirstServed'
  <2>1. SyncOpen'
    BY <1>1, <1>2, <1>3, <1>7, <1>11 DEF SyncOpen, Deliver
  <2>2. FirstFds' = FirstFds  BY <1>2 DEF FirstFds
  <2>3. ASSUME done_sync_time, NEW f \in FirstFds
        PROVE  wire'[f] # <<>> \/ got'[peer[f]] # <<>>
    <3>1. f \in Fds /\ peer[f] \in Managers  BY <1>3, <1>11, FirstFacts
    <3>2. CASE peer[f] = m  BY <1>8, <3>2
    <3>3. CASE peer[f] # m
      <4>1. f # fd  BY <1>7, <3>3
      <4>2. wire'[f] = wire[f] /\ got'[peer[f]] = got[peer[f]]  BY <1>2, <3>1, <3>3, <4>1
      <4> QED BY <1>3, <1>11, <2>3, <4>2 DEF FirstServed
    <3> QED BY <3>2, <3>3
  <2>4. FirstServed'
    BY <1>2, <1>3, <1>11, <2>2, <2>3 DEF FirstServed
  <2> QED BY <2>1, <2>4
<1> QED BY <1>2, <1>9, <1>10, <1>11 DEF SyncInv

LEMMA InitSync == Init => SyncInv
<1> SUFFICES ASSUME Init PROVE SyncInv
  OBVIOUS
<1>1. SyncWire /\ SyncOpen /\ SyncBeforeQueries
  BY DEF Init, SyncWire, SyncOpen, SyncBeforeQueries
<1>2. FirstServed
  <2>1. DOMAIN client_fds = {}  BY DEF Init
  <2> QED BY <2>1 DEF Init, FirstServed
<1> QED BY <1>1, <1>2 DEF SyncInv

LEMMA NextSync ==
  TypeOK /\ MapInv /\ CountInv /\ OrderInv /\ SyncInv /\ [Next]_vars => SyncInv'
<1> SUFFICES ASSUME TypeOK, MapInv, CountInv, OrderInv, SyncInv, [Next]_vars PROVE SyncInv'
  OBVIOUS
<1> DEFINE Same == UNCHANGED <<client_fds, client_fd2bev, client_src2fd, done_sync_time,
                               peer, link, wire, got>>
<1>1. CASE Same /\ drops' = drops /\ (Serving' => Serving)
           /\ \A c \in backlog' : c \in backlog \/ link[c] = NoFd
  <2>1. FirstFds' = FirstFds  BY <1>1 DEF FirstFds
  <2>2. SyncWire => SyncWire'  BY <1>1 DEF SyncWire
  <2>3. SyncOpen => SyncOpen'  BY <1>1 DEF SyncOpen
  <2>4. FirstServed => FirstServed'  BY <1>1, <2>1 DEF FirstServed
  <2>5. SyncBeforeQueries => SyncBeforeQueries'  BY <1>1 DEF SyncBeforeQueries
  <2> QED BY <1>1, <2>2, <2>3, <2>4, <2>5 DEF SyncInv
<1> USE DEF reader, postman, maps, network, bounds
<1>2. CASE ReaderNext
  BY <1>1, <1>2
  DEF ReaderNext, Unblock, ReaderSignal, ReadInvalid, ReadInput, ReadEnd, Serving
<1>3. CASE PostmanNext
  <2>1. CASE AcceptError \/ PostmanSignal
    BY <1>1, <2>1 DEF AcceptError, PostmanSignal, Serving
  <2>2. CASE SktReadDies
    <3>1. ~Serving'  BY <2>2 DEF SktReadDies, RandClientDeaths, Serving
    <3> QED BY <1>1, <2>2, <3>1 DEF SktReadDies
  <2>3. CASE PostmanEnds
    <3>1. ~Serving' /\ drops' = drops /\ got' = got /\ done_sync_time' = done_sync_time
          /\ backlog' = {} /\ (\A f \in Fds : wire'[f] = <<>>)
          /\ (\A c \in Managers : link'[c] = NoFd)
      BY <2>3 DEF PostmanEnds, Serving
    <3>2. SyncWire => SyncWire'  BY <3>1 DEF SyncWire
    <3> QED BY <3>1, <3>2 DEF SyncInv, SyncBeforeQueries
  <2> QED BY <1>3, <2>1, <2>2, <2>3, AcceptSync, CloseSync, SktReadSync DEF PostmanNext
<1>4. CASE Environment
  <2>1. ASSUME NEW m \in Managers, Connect(m) PROVE SyncInv'
    BY <1>1, <2>1 DEF Connect, Serving
  <2>2. CASE Tick  BY <1>1, <2>2 DEF Tick, Serving
  <2>3. ASSUME NEW m \in Managers, Drop(m) PROVE SyncInv'
    <3>1. drops' # 0  BY <2>3 DEF Drop, TypeOK
    <3> QED BY <3>1 DEF SyncInv
  <2> QED BY <1>4, <2>1, <2>2, <2>3, DeliverSync DEF Environment
<1>5. CASE UNCHANGED vars
  BY <1>1, <1>5 DEF vars, Serving
<1> QED BY <1>2, <1>3, <1>4, <1>5 DEF Next

(* While no connection is lost a manager receives exactly one sync message, *)
(* and before any query.                                                   *)
THEOREM SyncCorrect == Spec => []SyncBeforeQueries
<1>1. SyncInv => SyncBeforeQueries  BY DEF SyncInv, SyncBeforeQueries
<1> QED BY <1>1, InitSync, NextSync, InitMaps, NextMaps, InitCount, NextCount,
           InitOrder, NextOrder, TypeCorrect, PTL DEF Spec
=============================================================================
