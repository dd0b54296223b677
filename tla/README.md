# ldplayer in TLA+

ldplayer replays captured DNS queries: a *controller* spreads a trace over
several machines, a *client* on each machine (one manager process, many worker
processes) sends every query at its time from its own source socket, *proxies*
rewrite addresses so that one server can play every authoritative server, a *zone
constructor* makes that server's zones and views from captured answers, and a
*query mutator* converts and changes query streams beforehand.  This directory
holds TLA+ models of these programs, TLC configurations that check them on small
instances, and TLAPS proofs that the safety properties, every invariant and action
property of the passing runs, hold for every instance (section 5 has the hypotheses).

`PROJECT.json` lists for every definition the lines of code it stands for, for
every run its properties, for every property a plausible bug that it catches,
and the hazards of the code with the properties that are about them.

## 1. Inventory

| component | state | operations | hard part | what makes it correct |
|---|---|---|---|---|
| controller, Reader (`reader.cc`) | position in the trace, two time origins | `unblock`, `read_input` | runs ahead of real time; blocks on a full socket pair; waits for a flag | runs ahead by no more than `--trace_limit` and a sleep; comes to its end |
| controller, Postman (`postman.cc`) | `client_fds`, `client_fd2bev`, `client_fd2src`, `client_src2fd`, two flags | accept, client event, message from the Reader, signal, clean up | clients come and go while sources are mapped to them; descriptor numbers are used again | maps agree; one client per source; each query once and in order; sync message first |
| controller, Filter (`filter.cc`) | `weight`, `total_weight`, `client_index` | `Init` from file or string, validation | signed weights, unsigned bounds, half-read files | an accepted filter gives each client its share |
| framing (all programs) | one byte buffer per stream | write length and body, read callback, cutting loop | a read returns any part of the stream | messages come out whole, in order, all of them |
| client, Manager (`manager.cc`) | `client_src2fd`, `com_msg_buffer`, retry count, reader thread | commander's messages or a file, routing, reconnecting, signals, join | blocking writes to workers; two threads; lost connections | a query goes to one worker, always that of its source; sync message first; it exits |
| client, worker timing (`client.cc`) | two time origins, timers, counters | `manager_read_cb`, timers | libevent's cached clock | not sent too early; none forgotten; counters true |
| client, worker sockets (`client.cc`) | UDP sockets and TCP connections per source, `query_table` | send over UDP or TCP, answers, timeouts, closes, reports | descriptor reuse, duplicates, split answers | maps agree; own socket per source; each answer reported |
| input sources (`input_source.cc`, `input_stream.cc`) | position in the input | `get` for trace, text, raw | three formats, errors inside them | the same stream whatever the format |
| query mutator (`mutator.cc`, `dns_util.cc`) | stored queries, loop index | options, mutation, conversion, endless loop | order of option maps, wrap of the index, death in a write | changes only what the options say; a client can read what it writes |
| client, `main` (`main.cc`) | processes forked | option checks, forks, wait | SIGINT before the handlers are there; a fork or a worker that fails | after a signal or an error no process is left |
| proxy (`proxy.cc`, `socket_util.cc`) | packets in flight | read from TUN, rewrite, send | several threads; ones' complement sums; two proxies that must undo each other | every packet forwarded once, with a valid checksum; answers come from the address that was asked |
| safe_queue (`safe_queue.cc`) | queue, mutex, condition variable | `push`, `pop` | one condition variable for two kinds of waiters, notify after unlock | a FIFO queue; no lost wake-up |
| zone constructor (`converter.py`, `dns_zone.py`) | zones by name, zones by address | root hints, one directory of captured answers at a time, views, `fix_delegation` | directories and views come in no defined order; names are compared as text | what a server answered is served again at its address; delegations are not hidden |
| route setup (`route_setup.sh`) | | marks packets for the TUN device | | packets of a proxy do not come back to it |
| helpers, example scripts | | | | not modelled, see section 7 |

How they interact: Reader and Postman share a socket pair; the Postman and the
managers talk over TCP; a manager and each of its workers share a socket pair
that is in blocking mode at the manager's side; workers talk to DNS servers over
UDP, TCP or TLS; the mutator and a client share a file or a pipe; proxies sit
between a recursive and the authoritative server, whose zones the constructor has
written.  All messages but DNS over UDP
are preceded by their length.

## 2. Modules

| module | models | notes |
|---|---|---|
| `Controller` | Reader, Postman, connections of the managers | one action per callback; a message is an index of the trace |
| `Dispatch` | what the controller promises of a replay | the abstract specification of `Controller` |
| `ControllerProofs` | | theorems about `Controller`; that `Controller` implements `Dispatch`, and what follows |
| `Filter` | `Filter::Init`, the two readers of weights, validation | integers wrap at `UMod` where the code has `unsigned` |
| `Framing` | the four cutting loops over a stream of bytes | `skt_read_cb` (do-while), `com_read_cb`, `manager_read_cb`, `server_read_cb` (16 bit `left`) |
| `PostmanProofs` | | theorems about `Framing` and `Filter` |
| `Manager` | manager process in both modes, its threads, its workers' socket pairs | one step per `write()`, which may block |
| `ClientMain` | `main` of the client: options, forks, signals, wait | extends `Manager`, whose process it starts |
| `ManagerProofs` | | theorems about `Manager` as `ClientMain` starts it |
| `ReplayTimer` | `manager_read_cb` and `send_query_helper` of a worker | the clock, and libevent's cached copy of it |
| `ReplayTimerProofs` | | theorems about `ReplayTimer` |
| `DNSClient` | sending and receiving of a worker | descriptor numbers and sockets are told apart |
| `DNSClientProofs` | | theorems about `DNSClient` |
| `InputSource` | `get()` for the three formats | operators only; an item of the input is a record |
| `Mutator` | `main`, `Mutator::start`, `mutate_query`, `change_dns_pkt`, output, and a client that reads it back with `InputSource` | composition of two programs |
| `MutatorProofs` | | theorems about `Mutator` |
| `SafeQueue` | `push` and `pop`, step by step | one step per access to mutex, queue or condition variable |
| `FifoQueue` | what a bounded queue promises | the abstract specification of `SafeQueue` |
| `Checksum` | `cksum`, `udp_tcp_cksum`, and a receiver's test | operators only |
| `Proxy` | threads of `DNSReplayProxy` over `SafeQueue`, with `Checksum`; the routing rules | composition |
| `ProxyProofs` | | theorems about `SafeQueue` and `Checksum`, and about `Proxy` over them |
| `ZoneConstructor` | `Converter` and `DNSZone` | a name is a sequence of labels, a zone a set of records |
| `ZoneProofs` | | theorems about `ZoneConstructor` |
| `MC*` | the instances for TLC | |

Conventions.  Variables and actions keep the names of the code where TLA+ allows
it (`client_src2fd`, `rand_client` becomes `RandClient`).  An action is a whole
callback or a whole iteration of a loop, except where another thread or process
can get in between: then each blocking or shared access is a step.  Definitions
marked `mutant` are plausible bugs, used to see that a property can fail; they
are part of no specification.  Constants that bound a model are commented
`bound:`.  Options of the programs that a run should vary are records of a set
(`Setups`, `Readers`, `Jobs`, `Streams`, `Inputs`), one of which is chosen in the
initial state.

### Controller

`rd`, `pos`, `trace_start_ts`, `real_start_ts` are the Reader's; `skt` and `flag`
are the two directions of the socket pair; `client_*`, `start_read_input` and
`done_sync_time` are the Postman's members.  `peer`, `link`, `wire` and `got` are
the network: a connection has two ends, which learn of its loss at different
times, and what was on its way is lost with it.  `accept` returns the lowest free
descriptor number, so that a number that is still in `client_fds` is used again.
`RandClient` is the set of what `rand_client` may return, `RandClientDeaths` the
ways in which it, or the assert on its result, ends the process.  The loop of
`skt_read_cb` over several messages is a sequence of `SktRead` steps: nothing
else the Postman does could be told apart in between.

`Dispatch` forgets all of it but two functions: the target of each source and what
each target has received.  A source may get a target only when it has none, and a
query is handed to the target of its source only after all that its source has
sent.  The mapping takes the manager at the other end of the mapped descriptor for
the target.

### Client: main and manager

`ClientMain` has the parent and the start; `alive` are the workers that run and
`status` says what the manager does ("absent" before its fork, "sleeping" for its
five seconds).  SIGINT from the terminal reaches all processes.  One that has no
handler yet dies; the parent ignores it once it waits.  The five seconds are taken
to be enough for the parent to come to its wait.  A worker exits after a signal,
after the SIGTERM that `log_err` sends, or once, for an error of its own, at any
time (`WorkerFails`); forks may fail.

`todo` holds the `write()` calls a handler has still to make.  A write to a full
pair blocks, in the kernel (`blocked`), and a descriptor that another thread then
closes does not wake it.  No write to a worker ever fails because the worker has
exited: socket pairs are made before the forks and every process keeps both
ends of all of them.  `com_msg_buffer` survives a lost connection; half a message
in it makes everything after it garbage, which `garbled` and message number 0
stand for.

### Worker

`ReplayTimer` decides when `send_query` is called and `DNSClient` what it does;
they share no state but the call.  `DNSClient` calls `send_query` in any order.
A UDP socket has a number of its own besides its descriptor; the pending write
event of a descriptor that was closed fires for whatever socket gets the number
next, as epoll does it.  A key of `query_table` has two forms: `get_query_rr_str`
writes tabs, `fmt_str` turns them into blanks; the table is filled with the
second and searched for a free id with the first.

### Proxy

A packet is its addresses, protocol, IP options and the bytes behind them, so that
`cksum` works on bytes: it adds words of the host's order, folds the carries and
stores the complement, and `Verifies` adds the words in network order, as a receiver
does.  There is one proxy per behaviour, beside either server; `HierarchyKept`
follows each of its packets through the rules of `route_setup.sh`, the answer of the
other server and the rewriting of the other proxy.  `ExactlyOnce`,
`BoundedReordering`, `NoLostWakeup` and `ImplementsFifo` are about its threads.

### Zone constructor

`ProcessDir` is `process_dir` up to the pushing of records, `PushMessage` one message
of that loop, `FixDelegation` one view of `write_to_file`.  The order of directories
(`os.listdir`) and of views (a Python 2 dictionary) is a choice.  `EndsWith` is
the comparison of names as text: `PartialLabels` tells which labels end in which
others, and `Capitals` which names of servers were captured with capital letters
(`EndsAsWritten`); all other comparisons are made in lower case.  A record outside a zone raises `KeyError` in dnspython (`Misplaced`).

### Mutator

A query is a record of the header and EDNS fields that options can change.
Options are applied in an order that is not defined (`unordered_map`), so every
order is tried.  `rand()` is a choice among values on both sides of the
percentages used.  `Kill` ends the mutator at any time with any part of its
output written, inside a length or a body as well.

## 3. Runs

All configurations are checked with `tlc -config X.cfg MCModule`.  Every run is
exhaustive for its instance.

| run | instance | shows |
|---|---|---|
| `controller` | 2 managers, 3 descriptors, 4 records with one to be skipped, limit 1 s, two faults (lost connections, signals, failed accepts) | `TypeOK`, `MapsAgree`, `IndexInRange`, `SyncBeforeQueries`, `ThrottleHolds`, `ImplementsDispatch`, `ReplayCompletes` |
| `controller_null_bev` | 2 managers, 3 descriptors, 3 records, one fault | `BevNotNull` is violated (section 6) |
| `filter` | 3 clients, total weight 4, `unsigned` of 4 bits, all files and strings of up to 4 numbers out of -3 .. 7 and "not a number" | `FillMatchesWeights`, `ValidCovers` |
| `framing` | 5 messages of 1 to 4 bytes, reads of up to 6 bytes, all four loops | `Reassembled`, `NothingLeftBehind`, `AllParsed` |
| `manager` | 2 workers whose pairs hold one message, 4 messages, 3 retries; distributed mode, a file with limit, with fixed pace, without mapping; no worker at all; options that are refused; failing forks and one failing worker | `RoutedOnce`, `SyncFirst`, `LimitHolds`, `AllWritten`, `ShutdownCompletes` |
| `timer` | a good stream with equal and decreasing times, one without sync message first, one with two, two that begin at time 0; with and without `--fast` | `Accounting`, `EarlyOnlyByLag`, `AbortsExactly`, `AllIssued` |
| `client` | 3 or 4 queries of 2 sources, 3 descriptors, one UDP timeout, answers delivered up to twice, 3 TCP connections; UDP, one UDP socket, TCP, adaptive; all outputs | `SocketMaps`, `OwnSocket`, `LatencyOnce`, `EachAnswerReported`, `AllSent` |
| `client_same_key` | 2 queries for one name, 2 ids | `NoOverwrite` is violated (section 6) |
| `proxy` | 1 reader, 2 workers, `unsigned` of 3 values; packets of all protocols with odd and even lengths, sums that carry once and twice, IP options, fragments, IPv6, at either server | `ExactlyOnce`, `BoundedReordering`, `NoLostWakeup`, `ChecksumValid`, `HierarchyKept`, `ImplementsFifo`, `AllForwarded` |
| `mutator` | inputs with each kind of item in the three formats, once or for ever; all pairs of options at 0, 50, 100 and more percent, one with a value that its field cuts off | `EncodingTransparent`, `OptionsHonoured`, `ConversionCompletes` |
| `zone` | up to three directories out of a small hierarchy with zones that share servers, servers without address, names that end alike, names in capitals, zones that sort before and after the zone that delegates them, in every order | `TypeOK`, `ServedUnlessShadowed`, `AbortsExplained`, `DelegationFixed` |
| `zone_delegation` | the two directories of the comment above `fix_delegation` | `DelegationServed` is violated (section 6) |

Each module's `TypeOK` is checked in one run, by itself or as the first conjunct of
an invariant.  What the properties say is in the
comments above them; a few need a word here.

* `ImplementsDispatch` is the reason for the map of sources: when a manager is lost
  and a source moves to another, nothing of the old connection can arrive after
  the first query on the new one, and no query arrives twice.
* `ReplayCompletes`: without a fault every query arrives, and with faults Reader and
  Postman never wait for each other.
* `ShutdownCompletes`: after a signal, or when the manager gives up, parent, manager
  and workers all end, unless the manager is in a write to a worker that is gone.
* `ServedUnlessShadowed`: a zone that becomes known at an address only through a later
  directory hides what was put into an outer one before; this is the only way to
  lose a record, but for the types of which dnspython keeps one record of a name (SOA
  and the others in `Singletons`), which the property exempts.
* `SyncBeforeQueries` and `SyncFirst` are what `AbortsExactly` of the worker
  relies on: a worker aborts on a query before the sync message or on a second
  one.  Both hold while connections hold.
* `EarlyOnlyByLag`: a query is sent before its time by at most the time its
  callback had been running when the timer was added; the code computes the delay
  from the clock and libevent adds it to a cached, older time.
* `NoLostWakeup` holds when the limit of the queue is at least the number of
  threads less one.  The proxy passes -1, which as `unsigned` is no limit in
  practice.  With less, `notify_one` can wake a thread of the kind that must sleep
  again: with a limit of 1, one pusher and two poppers suffice.
* `BoundedReordering`: with n workers at most n - 1 packets are overtaken at any
  time; one worker keeps the order.

Bounds.  Two of everything that can be confused (managers, sources, workers) and
one more descriptor than connections, so that a closed number is used again while
others are open; with two lost connections the descriptors can also run out and
`accept` fails.  Streams are long enough that the first, a middle and the last
message of a source differ, and that a limit makes the reader wait.  Buffers hold
one or two messages, so that full and empty both happen.  Clocks run a fixed time
beyond the event that starts them, past every stamp of the traces.

`CHECK_DEADLOCK FALSE` is in the runs: the programs come to an end, or the bounded
environment does.  Waiting for each other is what the liveness properties exclude.

## 4. Fairness

* `Controller`: the Reader is scheduled, the Postman's event loop serves each
  kind of event, managers connect, TCP delivers, time passes (weak fairness of
  each).  Losses and signals owe nothing.
* `ClientMain`, `Manager`: the processes and the manager's two threads run, workers
  that have not exited read, and exit when they are told to (their loops end two
  seconds later), the commander connects and sends.  Faults and signals owe nothing.
* `ReplayTimer`: due timers fire and callbacks end; strong fairness for the
  handling of a message, because a callback may be entered while only a part of
  it has arrived, but not for ever.
* `DNSClient`: timers fire and writable sockets are written to.  Answers owe
  nothing.
* `Proxy`: threads are scheduled; strong fairness for the steps inside the queue,
  because a thread that wants the mutex competes for it with others.  The C++
  standard does not promise this; the operating systems the proxy runs on do not
  starve a thread for ever.  Spurious wake-ups are allowed and owe nothing.
* `Framing`, `Mutator`: the programs do not stop by themselves.

## 5. Proofs

All theorems are about every value of the constants, under the named assumptions of
the modules that declare them, which TLC evaluates in the runs.  Most of them say
only what kind of thing a constant is (`FdsAssumption`, `ManagerAssumption`,
`TraceAssumption`, `NumAssumption`, `QueueAssumption`, `ProxyAssumption`,
`TimerAssumption`, `ClientAssumption`, `CommandAssumption`, `FramingAssumption`,
`FilterAssumption`, `ZoneAssumption`, `CapitalsAssumption`, `SingletonsAssumption`,
`RollsAssumption`).  Three say more:
`DoWhileAssumption` that the loop without a test in front is at the end of a socket
pair, `InputsAssumption` that the name of a weight file is not itself a list of
weights, and `JobsAssumption` that the messages of an input can be told apart and that
no option is given twice for a field.  Hypotheses that one theorem needs are in its
statement.

Hardly any of the properties is inductive.  The invariants they rest on are
definitions of the proof modules, with comments; each was checked with TLC on the
instance of its run before it was proved.  In each module one lemma per action shows
that it keeps the invariant.

Some properties compare what a loop computes with a definition by recursion.  The
library states induction for an operator that is a parameter, which the provers cannot
instantiate; but that `<` is well founded on the naturals is a fact about sets, so that
a set of counterexamples that is not empty has a least element.  `Climb` of
`MutatorProofs`, and its like in the other modules, put induction that way: a *set*
that has 0, and n + 1 with n, has every number.  That a function defined by recursion
exists and does what its definition says comes from the same (`CourseExists`,
`StartExists`).

### Controller

* `TypeCorrect`: `TypeOK` is inductive; `ReadInput` and `SktRead` need that
  positions stay within the trace.
* `MapsCorrect`: `accept_conn_cb` clears the sources of the number it is given, which
  is right only if no source is mapped to it.  `OpenFds` says that a descriptor with
  a buffer event is open, so that `accept` cannot return it; with `MapsAgree` a source
  is mapped only to such descriptors.
* `IndexCorrect`: `CountInv` links the number of connections to the length of
  `client_fds` (which never shrinks), the flag to the moment at which `num_clients`
  were connected, and messages in the socket pair to the flag.
* `ThrottleCorrect`: `ThrottleInv`: until the two origins are set only records without
  payload were passed over.
* `Refinement` and `ReceivedOnceInOrder`. `OrderInv` says where the records of a
  source can be: in the socket pair they are in order (`SktInv`); on a wire they are
  in order, before all in the socket pair, and only on the wire of the descriptor the
  source is mapped to (`WireInv`); those that a manager has got are before all on any
  wire (`GotInv`); and a manager is linked only to the descriptor whose peer it is
  (`LinkInv`). So what is delivered next is behind everything of its source that was
  received, by whatever manager, also when a connection is lost and its number used
  again.
* `SyncCorrect`: while no connection was lost, each open connection has the sync
  message at the head of what was sent to it (`SyncInv`); the Postman writes it to
  all that are connected when the first message comes, which `CountInv` makes those
  that the Reader has waited for.

### Filter

* `FillMatchesWeightsCorrect` and `ValidCoversCorrect`.  `FilInv` follows the reading of
  the weights (`Reading`, `Totals`: the total is the sum of those read) and the filling
  of the table: `start` is the sum of the weights that have been passed, modulo `UMod`
  (`StartIsSum`), every place in front of it is taken (`PassedAreFilled`), and where no
  weight is negative each client has exactly its places (`Exact`).  A negative weight
  can pass validation when the others make up for it; then `start` wraps and comes back,
  and what is left is that nobody's place stays empty.

### Framing

* `ReassembledCorrect`, `NothingLeftBehindCorrect`, for all four loops, any sizes of
  messages and any way in which reads cut the stream.  `Start` gives the place of each
  message in the stream.  `Window` says that buffer and socket together hold, in order,
  the bytes between the end of the last message parsed and the end of what was written;
  `FieldThere`, that the body of a loop finds a whole length field.  The latter is where
  `skt_read_cb` needs `DoWhileAssumption`: it enters its body without a test.

### Queue and proxy

* `TypeCorrect` with the invariant that a pusher carries an item until
  it has put it into the queue.
* `Refinement`: under the mapping of program counters to "idle",
  "called" and "done" each step of `SafeQueue` is a step of `FifoQueue` or changes
  nothing of it.  Mutual exclusion need not be proved for it, since an enqueue or a
  dequeue is one step of the model; that it is one is what the mutex is for.
* `WakeupCorrect`, for a limit of at least the number of threads less
  one (`EnoughRoom`).  `WakeInv` counts: while a popper waits, each item in the queue
  has a thread that was woken or is about to notify; while a pusher waits, each free
  place has one; and poppers and pushers never wait at the same time.  The last is
  what the hypothesis is for, and without it the property is false (section 3).
* `ProxyQueueFifo` and `ProxyWakeup`: every step of the proxy is a step of
  its queue or leaves that alone, so the theorems about the queue carry over.  The
  length that the proxy passes, -1, is `UintMod - 1`, so the hypothesis becomes that
  an `unsigned` can count the threads.
* `ExactlyOnceCorrect`, `ReorderingCorrect`: `PipeInv` says that packets are popped in
  the order they were read, none twice, and that each is with the reader, in the
  queue, with one worker or sent; and that when all workers have a packet, one of
  them has the last that was popped, so that at most the others can have been
  overtaken.
* `HierarchyCorrect`, for packets with port numbers in them which are not addressed to
  the two servers themselves (`WellFormedInputs`): the rules of `route_setup.sh` look
  at the ports, and a query of the recursive server is addressed to some server of
  the hierarchy, an answer to the address the query came from.  What was sent is the
  rewritten form of what was read (`SentInv`); the theorem follows the packet through
  the rules, the other server and the other proxy.

* `ChecksumCorrect`, for packets that have the bytes of the field (`WholeHeaders`; the
  code writes it without a test).  `Fold` is a number of 1 .. 65535 that is congruent to
  its argument modulo 65535, or 0 for 0.  256 times a sum of words in one byte order is
  congruent to the sum in the other, so the word that `cksum` stores, as its bytes lie,
  makes the receiver's sum congruent to 0; and the protocol number in the pseudo header
  keeps that sum above 0, so it folds to 65535, which is what `Verifies` asks for.

### Worker

* `ReplayTimerProofs`: `AccountInv` (each query taken was issued or has one timer, and
  the counters are the cardinalities), `EarlyInv` (when a timer is due, relative to
  the two origins), `AbortInv` (the origins are set by the first sync message whose
  time is not 0).
* `SocketMapsCorrect`: `SocketMaps` with the types is inductive.
* `OwnSocketCorrect`: a pending write event has an open descriptor that belongs to the
  query's source (`OwnInv`), as long as none was closed.
* `LatencyOnceCorrect` and `AnswersReported` are for queries of different names when
  the latency is reported (`DistinctNames`): with equal names an entry of
  `query_table` is replaced, which is the finding of `client_same_key`.  `FlightInv` and
  `PairInv` say what can be on its way; `TableInv` that an entry is the query's own,
  that it goes when the query is reported, and that a query without report still has
  it; `OnceInv` that a query is sent on one connection, its answer is there once, and
  the buffer keeps a length that was read until its body has come.

### Client: main and manager

The theorems are about `MainSpec`, so options, forks and signals are in them.

* `RoutedCorrect`: the units of the commander's messages are in order, perhaps with
  gaps, in `com_msg_buffer` and behind it on the stream (`OrderInv`), and ahead of what
  was taken (`AheadInv`).  Then what is handed to a worker is behind all that was
  (`SortedInv`, `ApartInv`), and to the worker of its source (`MappedInv`).  A garbled
  buffer yields number 0 only, and nothing else later.
* `SyncFirstCorrect`, for a commander that sends the sync message first and no other
  (`SyncIsFirst`, what `SyncCorrect` proves of the controller; for a file there is no
  hypothesis).  Without a lost connection the stream has no gaps (`NoGapInv`); the
  workers that have no sync message are those that the running handler has still to
  write to (`SyncInv`).
* `LimitCorrect`: `ClockInv` with `PaceInv`, which gives the made-up time of a query by
  the number of queries before it.

### Zone constructor

* `InvCorrect`, and from it `TypeCorrect`, `AbortsCorrect` and `ServedCorrect`.
  `ZoneInv` says that everything the directories have shown is in `addr2name`
  (`KnownIn`) and that each record pushed is in the zone that answers for it, as far as
  that was known when it was pushed (`AllSettled`).  `fix_delegation` and later
  directories only add records, but a later directory can add an inner zone: that is the
  exception of `ServedUnlessShadowed`.
* `DelegationFixedCorrect` follows one pass of `fix_delegation` along `NameOrder`.  An
  earlier form of `DelegationFixed`, that afterwards no zone of the view hides any
  delegation, could not be proved and is false: a zone that sorts late can hand a
  delegation to one whose own turn is over, and the innermost zone is searched for by
  the ends of texts.  Nor does a server's address always come with the delegation, since
  the code compares that name with its capital letters.  The property now says what does
  hold, for any `Capitals`, and the run has directories in which each exception occurs.

### Mutator

* `EncodingCorrect` and `OptionsCorrect`, over `MutatorInv`.  `InputInv`: what is left of
  the input is its end, and nothing in front of it has ended the process; `StreamInv`:
  without options the n-th message written is the n-th that a client would have read
  itself, counted modulo their number in loop mode; `OriginInv`: each message kept,
  written or read comes from one with the same id as the options allow.  The options are
  applied in the order of some sequence of all of them; `ChangeAllFacts` says what any such
  order leaves in a field: what its one option put there, or 0 in an EDNS field when the
  DO bit was unset afterwards.

### Only model-checked

All liveness properties: `ReplayCompletes`, `AllParsed`, `AllWritten`,
`ShutdownCompletes`, `AllIssued`, `AllSent`, `AllForwarded`, `ConversionCompletes`.
Fairness and `ENABLED` are out of the prover's reach.

## 6. Where code and words differ

Three disagreements have a run of their own.

* `controller_null_bev`: after a client disconnects, its descriptor stays in
  `client_fds`, from which `rand_client` draws; the `assert(bev)` in `skt_read_cb`
  then ends the Postman although other clients are connected.
* `client_same_key`: the loop in `send_query_udp` that avoids a key in use looks
  it up in a form in which no key is stored; a second query with the same id and
  name replaces the entry of the first.
* `zone_delegation`: the comment above `fix_delegation` describes a name with two
  hierarchies, whose delegation "will be broken" without it.  It stays broken when
  the directory with the short hierarchy is read first: the NS records of the inner
  zone are then pushed into that zone, and `fix_delegation`, which looks for them in
  the outer one, does nothing.

Others were met while modelling.  The models do what the code does, and the
property that comes closest carries the exception:

* A client that connects after the first message gets no sync message, and its
  workers abort (`SyncBeforeQueries`, while no connection is lost).
* `client_fds` keeps clients that left before the start, so an index of the filter
  need not be the client it was meant for; and more than `--num_clients` clients
  are accepted.
* `server_read_cb` counts the bytes left in 16 bits; with 64 KiB or more in the
  buffer a complete message waits for the next read (`NothingLeftBehind` and
  `AllParsed`, unless `Wrapped`).
* A UDP socket that times out leaves its pending write events; the descriptor is
  used again and a query leaves from another source's socket (`OwnSocket`, while
  no socket has timed out).
* With latency output over TCP each read is taken for one answer
  (`EachAnswerReported`, UDP or timing).
* `com_fail_retry` is never reset: a manager exits at the fifth lost connection of
  its life, not after five attempts in a row.
* A `write()` of the manager to a worker that has exited never returns once the pair
  is full: the replay stops, and after a signal the manager and the parent stay
  (`AllWritten`, `ShutdownCompletes`).
* `check_gt0` says "must be > 0" and lets 0 pass; with `-n 0`, or where the number of
  cores is not known, the manager divides by zero (`AllWritten`).
* The usage text says that `-f` sets the limit to none; `main` leaves it.
* A trace that begins at time 0 looks unsynchronised to the workers, which abort
  (`AbortsExactly`).
* The proxy's checksum is wrong for packets with IP options and for fragments
  (`ChecksumValid` excludes them).
* The passes of `fix_delegation` over different views share zones, so that a later
  pass can undo what an earlier one has repaired, and within a pass the outcome depends
  on the sort order of the zones (`DelegationFixed` is about what was in the zones
  before the pass, at the moment after it).
* Within a pass, `ns_server.endswith(tmp_z)` (`converter.py:125`) compares a server's name
  as it was captured, everything else lower case: with NS.EBC.NET.TW a delegation is
  moved without the server's addresses (`DelegationFixed` promises them for names in
  lower case, and the run has one of either kind).
* Half a message in `com_msg_buffer` when a connection is lost makes garbage of the next
  one (`RoutedOnce` and `SyncFirst` say nothing of what is parsed then).
* In the mutator, decoding seven digits of microseconds pads for ever
  (`ConversionCompletes`), `--edns-extended-rcode` is refused, and an EDNS size set
  after the DO bit was unset brings the EDNS part back (`OptionsHonoured` says
  what does hold).

## 7. Not modelled

* End of file on the socket pairs (`skt_event_cb` and its like): it cannot occur,
  since every process holds both ends.
* Output: `client_read_cb` of the Postman and `read_client_cb` of the manager copy
  lines to a file; logs and statistics, but for the worker's counters.
* TLS, taken for TCP; libevent and libtrace, as far as the callbacks show them.
* In `DNSClient`, TCP connections have numbers of their own: that a UDP socket and
  a TCP connection can share a descriptor number in turn is left out.
* Sizes of raw messages against the reading buffer; fractions of a second with
  fewer than six digits (the hazards have the latter).
* In `Filter`, an option that is both a file name and a list of weights.
* TUN device and raw sockets of the proxy, which are taken to be there; `main` of the
  other programs but for the options that modules use; string helpers; scripts.
* In the zone constructor, the fsdb files (a blank line ends the reading of one), TTLs,
  classes and the text of the configuration: the exits for a record of another class
  (`dns_zone.py:34`) and for a row without a field or with an unknown section
  (`converter.py:285`, `331`, `346`, `364`) are left out, so `AbortsExplained` is about
  well-formed files of class IN.  A server's name is written in the same letter case in
  all answers; where it is not, dnspython keeps the first writing.
* A signal to one process alone.  A SIGTERM to the manager would end it without a word to
  its workers, which would stay, and with them the parent; `ShutdownCompletes` is about
  signals to all processes and about a manager that gives up by itself.

## 8. What is open

* One theorem for the chain from the trace to the worker: the controller's promise as
  the input of the manager, in place of the hypothesis `SyncIsFirst`, and the manager's
  as the input of `ReplayTimer`.
* The joint behaviour of `ReplayTimer` and `DNSClient`, which share the event loop.
* Answers that end a TCP connection with queries outstanding, and reads of less than
  two bytes with latency output: hazards without a property.
* The liveness properties beyond the instances of the runs.
