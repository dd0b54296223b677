----------------------------- MODULE ClientMain -----------------------------
(***************************************************************************)
(* main of dns-replay-client-1.0 (main.cc), composed with Manager: the     *)
(* options are checked, the workers and the manager are forked, and the    *)
(* parent waits for all of them.  A process that has not yet installed its *)
(* handler dies of SIGINT, which the terminal sends to all of them.        *)
(***************************************************************************)
EXTENDS Manager

CONSTANTS
  Commands,          \* the options of main that do not end up in a Setup:
                     \*   conn_type        it is one of conn_set
                     \*   server_port, command_port, time_out
                     \*   input            format and file, both given and known
                     \*   output           its format is known, or there is none
  ForksMayFail

Command == [conn_type : BOOLEAN, server_port : Int, command_port : Int, time_out : Int,
            input : BOOLEAN, output : BOOLEAN]
ASSUME CommandAssumption == Commands \subseteq Command /\ ForksMayFail \in BOOLEAN

VARIABLES
  cmd,
  main,              \* the parent: "options", "forking", "forked", "waiting",
                     \* "ended", or what ended it: "refused", "failed", "killed"
  forked             \* workers forked so far

mainVars == <<cmd, main, forked>>
allVars  == <<vars, mainVars>>

MainInit ==
  /\ Fresh /\ alive = {} /\ status = "absent"
  /\ cmd \in Commands /\ main = "options" /\ forked = 0

-----------------------------------------------------------------------------
(* check_gt0 looks for a sign and digits: "0" passes.                      *)
check_gt0(i) == i >= 0
check_int(i) == i > 0

Accepted ==
  /\ check_gt0(num_clients) /\ check_gt0(cmd.server_port) /\ check_gt0(cmd.time_out)
  /\ cmd.conn_type /\ check_int(cmd.server_port) /\ cmd.output
  /\ IF dist THEN check_int(cmd.command_port) ELSE cmd.input

CheckOptions ==
  /\ main = "options"
  /\ main' = IF Accepted THEN "forking" ELSE "refused"
  /\ UNCHANGED <<vars, cmd, forked>>

ForkWorker ==
  /\ main = "forking" /\ forked < num_clients
  /\ forked' = forked + 1 /\ alive' = alive \cup {forked'}
  /\ UNCHANGED <<setup, routing, todo, blocked, written, read, pos, comm, file, now, end,
                 cmd, main>>

ForkManager ==
  /\ main = "forking" /\ forked = num_clients
  /\ main' = "forked" /\ status' = "sleeping"
  /\ UNCHANGED <<setup, routing, pairs, pos, comm, file, now, signalled, loop, cmd, forked>>

(* err(1, "[error] fork"): the workers that exist are left to themselves.  *)
ForkFails ==
  /\ ForksMayFail /\ main = "forking"
  /\ main' = "failed"
  /\ UNCHANGED <<vars, cmd, forked>>

(* The manager sleeps five seconds before it starts; the parent is taken   *)
(* to come to its wait in that time.                                       *)
ManagerStarts ==
  /\ status = "sleeping" /\ main # "forked"
  /\ status' = "running"
  /\ UNCHANGED <<setup, routing, pairs, pos, comm, file, now, signalled, loop, mainVars>>

IgnoreSigint ==
  /\ main = "forked"
  /\ main' = "waiting"
  /\ UNCHANGED <<vars, cmd, forked>>

(* wait() fails when there is no child left.                               *)
NoChildren == alive = {} /\ status \notin {"sleeping", "running"}
WaitEnds ==
  /\ main = "waiting" /\ NoChildren
  /\ main' = "ended"
  /\ UNCHANGED <<vars, cmd, forked>>

(* SIGINT from the terminal before the manager has its handler.  The       *)
(* workers exit, with their handlers or without.                           *)
Interrupt ==
  /\ ~signalled /\ status \in {"absent", "sleeping"} /\ main # "refused"
  /\ signalled' = TRUE
  /\ main' = IF main \in {"options", "forking", "forked"} THEN "killed" ELSE main
  /\ status' = IF status = "sleeping" THEN "aborted" ELSE status
  /\ UNCHANGED <<setup, routing, pairs, pos, comm, file, now, loop, cmd, forked>>

-----------------------------------------------------------------------------
Parent == CheckOptions \/ ForkWorker \/ ForkManager \/ IgnoreSigint \/ WaitEnds

MainNext ==
  \/ Next /\ UNCHANGED mainVars
  \/ Parent \/ ForkFails \/ ManagerStarts \/ Interrupt

MainSpec == MainInit /\ [][MainNext]_allVars

(* The processes and their threads run, time passes, workers read until    *)
(* they exit, which they do two seconds after a signal.                    *)
AnyWorker == UNION {1 .. s.num_clients : s \in Setups}
ManagerThreads ==
  /\ WF_allVars((Write \/ WriteBlocks) /\ UNCHANGED mainVars)
  /\ WF_allVars(ComThread /\ UNCHANGED mainVars)
  /\ WF_allVars((Reader \/ RandClientFdDies) /\ UNCHANGED mainVars)
  /\ WF_allVars(EventLoop /\ UNCHANGED mainVars)
FairSpec ==
  /\ MainSpec /\ WF_allVars(Parent) /\ WF_allVars(ManagerStarts) /\ ManagerThreads
  /\ WF_allVars(Tick /\ UNCHANGED mainVars)
  /\ WF_allVars(ComConnected /\ UNCHANGED mainVars) /\ WF_allVars(ComSend /\ UNCHANGED mainVars)
  /\ \A w \in AnyWorker : /\ WF_allVars(WorkerRead(w) /\ UNCHANGED mainVars)
                           /\ WF_allVars(WorkerExit(w) /\ UNCHANGED mainVars)

-----------------------------------------------------------------------------
(* Properties.                                                             *)

(* Every query of an input file is written to a worker, unless a signal    *)
(* arrives, a process fails, or there is no worker: a write to a worker    *)
(* that is gone never returns, and -n 0 is accepted.                       *)
AllWritten ==
  <>(\/ dist \/ signalled \/ main \in {"refused", "failed"}
     \/ main = "waiting" /\ (alive # Workers \/ num_clients = 0)
     \/ \A n \in Msgs : Incoming[n].raw => Places(n) # {})

(* "Signal received, exit in two seconds!": after a signal to all          *)
(* processes (not one to the manager alone), or when the manager gives up, *)
(* no process of the program is left, whatever each of them was doing; but *)
(* a write() to a worker that has exited never returns, and then the       *)
(* manager and the parent wait for ever.                                   *)
ShutdownCompletes ==
  (signalled \/ status = "aborted") ~>
    \/ NoChildren /\ main \notin {"options", "forking", "forked", "waiting"}
    \/ status = "running" /\ blocked /\ Target \notin alive
=============================================================================
