-------------------------------- MODULE Daemon --------------------------------
(***************************************************************************)
(* The life of zia's processes around /run/zia.pid: what main() does with  *)
(* its options (sources/main.cpp), the Daemon singleton that checks,       *)
(* creates, fills and removes the pid file and installs the signal         *)
(* handlers (sources/server/daemon.cpp), the stages of process() that a    *)
(* signal may meet, and the children a master forks, each with a copy of   *)
(* the singleton that removes the file when the child calls exit.  Once a  *)
(* master serves, NetStack says what it does; Config says what it reads.   *)
(*                                                                         *)
(* A process is one run of the command, before and after it daemonizes.    *)
(***************************************************************************)
EXTENDS Integers, FiniteSets, TLC

CONSTANTS
  Procs,       \* the runs of zia; each stands for its process id too
  Watched,     \* those whose progress is checked: they are alike, one stands for all
  Commands,    \* what they are run for, among AllCommands
  NoFile,      \* there is no pid file
  NoPid,       \* the pid file is empty
  MaxCrashes,  \* bound: masters that die without running their destructors
  MaxExits     \* bound: children that exit on their own account

\* What sends a signal to the server.
Sending == {"stop", "quit", "restart", "reload"}
AllCommands == {"start"} \cup Sending

ASSUME DaemonAssumption ==
  /\ Watched \subseteq Procs
  /\ Commands \subseteq AllCommands
  /\ NoFile \notin Procs /\ NoPid \notin Procs /\ NoFile # NoPid
  /\ MaxCrashes \in Nat /\ MaxExits \in Nat

VARIABLES
  pidFile,  \* the content of /run/zia.pid: a process, NoPid, or NoFile
  pc,       \* [Procs -> where the process is]
  alive,    \* [Procs -> BOOLEAN]: Daemon::_killed, true until stop()
  pending,  \* [Procs -> set of signals sent to it and not handled yet]
  holders,  \* the processes whose listening sockets are open, in them or in
            \* the workers that inherited them
  leaving,  \* the processes with workers that were forked after stop(): they
            \* inherit a flag that is down and exit as soon as they look at it
  past,     \* history: "orderly" while nothing happened that OneServer and
            \* PidFileNamesServer cannot stand, "disorderly" afterwards
  crashes,  \* masters that crashed so far, for the bound
  exits     \* children that exited on their own account so far, for the bound

vars == <<pidFile, pc, alive, pending, holders, leaving, past, crashes, exits>>

\* The command is in the foreground: in sendSignal, or on its way through the
\* constructor of the singleton.
Foreground == Sending \cup {"wait", "check", "create", "fork"}
\* The master, from the moment its pid is in the file: inside the constructor of
\* the singleton, reading the configuration, binding, forking its workers, waiting
\* for them, serving, unwinding (after the loop, or after an exception), or blocked
\* for ever in a signal handler.
Server == {"ctor", "conf", "bind", "spawn", "workers", "serve", "return", "failed", "hung"}
\* The stages in which the handlers find a complete singleton.
Handling == Server \ {"ctor", "hung"}
\* "exiting": the quick shutdown has removed the file and calls exit.
Gone == {"done", "dead"}

Signals == {"INT", "QUIT", "HUP", "USR1"}

\* Mutant: the option instead of what it stands for.
SignalNamed(c) == c

SignalOf(c) ==
  CASE c = "stop" -> "INT"
    [] c = "quit" -> "QUIT"
    [] c = "restart" -> "HUP"
    [] c = "reload" -> "USR1"

TypeOK ==
  /\ pidFile \in Procs \cup {NoFile, NoPid}
  /\ pc \in [Procs -> {"idle", "writePid", "exiting"} \cup Foreground \cup Server \cup Gone]
  /\ alive \in [Procs -> BOOLEAN]
  /\ pending \in [Procs -> SUBSET Signals]
  /\ holders \subseteq Procs
  /\ leaving \subseteq Procs
  /\ past \in {"orderly", "disorderly"}
  /\ crashes \in 0 .. MaxCrashes
  /\ exits \in 0 .. MaxExits

Init ==
  /\ pidFile = NoFile
  /\ pc = [p \in Procs |-> "idle"]
  /\ alive = [p \in Procs |-> TRUE]
  /\ pending = [p \in Procs |-> {}]
  /\ holders = {}
  /\ leaving = {}
  /\ past = "orderly"
  /\ crashes = 0
  /\ exits = 0

Goto(p, where) == pc' = [pc EXCEPT ![p] = where]
\* The process ends, and the signals it has not handled are lost.
End(p, where) == Goto(p, where) /\ pending' = [pending EXCEPT ![p] = {}]

-------------------------------------------------------------------------------
(* The command. *)

\* Nothing is going on in the process: it has not started, it has ended, or it
\* serves and has no signal to handle.
Settled(p) ==
  \/ pc[p] \in {"idle"} \cup Gone
  \/ pc[p] = "serve" /\ alive[p] /\ pending[p] = {}

\* A command may be typed at any moment; in good order, when all is settled.
Launch(p, c) ==
  /\ pc[p] = "idle"
  /\ past' = IF \A q \in Procs : Settled(q) THEN past ELSE "disorderly"
  /\ Goto(p, IF c = "start" THEN "check" ELSE c)
  /\ UNCHANGED <<pidFile, alive, pending, holders, leaving, crashes, exits>>

\* killProcess and sendSignal.  Reading an empty file leaves pid as it was, that
\* is uninitialized: the signal may hit any process, among them a server.
Target(q) == pidFile = q \/ pidFile = NoPid
Post(q, s) == pending' = [pending EXCEPT ![q] = @ \cup {s}]

SendSignal(p) ==
  /\ pc[p] \in Sending
  /\ \/ \E q \in Procs : Target(q) /\ pc[q] \in Server /\ Post(q, SignalOf(pc[p]))
     \/ /\ \A q \in Procs : pidFile = q => pc[q] \notin Server
        /\ UNCHANGED pending
  /\ Goto(p, IF pc[p] = "restart" THEN "wait" ELSE "done")
  /\ UNCHANGED <<pidFile, alive, holders, leaving, past, crashes, exits>>

\* restart: `while (fileExist) if (++i < 100) break;' leaves on its first turn,
\* so i is never 100 and SIGINT never sent; the second loop waits for ever.
WaitForFile(p) ==
  /\ pc[p] = "wait"
  /\ pidFile = NoFile
  /\ Goto(p, "check")
  /\ UNCHANGED <<pidFile, alive, pending, holders, leaving, past, crashes, exits>>

-------------------------------------------------------------------------------
(* The constructor of the singleton. *)

\* Mutant: the file is not looked for.
CheckNothing(p) ==
  /\ pc[p] = "check"
  /\ Goto(p, "create")
  /\ UNCHANGED <<pidFile, alive, pending, holders, leaving, past, crashes, exits>>

\* exit(2) if the file is there; no destructor runs, the object is not built.
CheckFile(p) ==
  /\ pc[p] = "check"
  /\ Goto(p, IF pidFile = NoFile THEN "create" ELSE "done")
  /\ UNCHANGED <<pidFile, alive, pending, holders, leaving, past, crashes, exits>>

\* The ofstream creates the file, or truncates one that came in between; if it
\* cannot, exit(2).
CreateFile(p) ==
  /\ pc[p] = "create"
  /\ \/ pidFile' = NoPid /\ Goto(p, "fork")
     \/ Goto(p, "done") /\ UNCHANGED pidFile
  /\ UNCHANGED <<alive, pending, holders, leaving, past, crashes, exits>>

\* closeParent: the child goes on, the parent returns to the shell.  When fork
\* fails the empty file stays.
Fork(p) ==
  /\ pc[p] = "fork"
  /\ \/ Goto(p, "writePid")
     \/ Goto(p, "done")
  /\ UNCHANGED <<pidFile, alive, pending, holders, leaving, past, crashes, exits>>

WritePid(p) ==
  /\ pc[p] = "writePid"
  /\ pidFile' = p
  /\ Goto(p, "ctor")
  /\ UNCHANGED <<alive, pending, holders, leaving, past, crashes, exits>>

\* daemonize closes every descriptor and opens the log: exit(2) if it cannot, and
\* the file stays, for the object is not complete.
Constructed(p) ==
  /\ pc[p] = "ctor"
  /\ \/ Goto(p, "conf") /\ UNCHANGED pending
     \/ End(p, "dead")
  /\ UNCHANGED <<pidFile, alive, holders, leaving, past, crashes, exits>>

\* Every handler calls getInstance(), which is still building the object: the
\* process waits for itself for ever, or terminates.
SignalInConstructor(p) ==
  /\ pc[p] = "ctor"
  /\ pending[p] # {}
  /\ \/ Goto(p, "hung") /\ UNCHANGED pending
     \/ End(p, "dead")
  /\ UNCHANGED <<pidFile, alive, holders, leaving, past, crashes, exits>>

-------------------------------------------------------------------------------
(* process(). *)

\* browser_conf; std::get throws if a port is no number, and process returns 1.
ReadConf(p) ==
  /\ pc[p] = "conf"
  /\ \/ Goto(p, "bind")
     \/ Goto(p, "failed")
  /\ UNCHANGED <<pidFile, alive, pending, holders, leaving, past, crashes, exits>>

\* Mutant: a bind that fails is only logged.
BindGoesOn(p) ==
  /\ pc[p] = "bind"
  /\ holders' = IF holders = {} THEN {p} ELSE holders
  /\ past' = IF holders = {} THEN past ELSE "disorderly"
  /\ Goto(p, "spawn")
  /\ UNCHANGED <<pidFile, alive, pending, leaving, crashes, exits>>

\* The two sockets (SO_REUSEADDR is set to 0), the modules, setConf.  A port that is
\* taken, by a zia or by a foreign program, or that the process may not bind makes
\* the constructor call stop(), and everything else goes on.  The other port, if it
\* was bound, is one more that others find taken.
Bind(p) ==
  /\ pc[p] = "bind"
  /\ \/ holders = {} /\ holders' = {p} /\ UNCHANGED <<alive, past>>
     \/ /\ UNCHANGED holders
        /\ alive' = [alive EXCEPT ![p] = FALSE]
        /\ past' = "disorderly"
  /\ Goto(p, "spawn")
  /\ UNCHANGED <<pidFile, pending, leaving, crashes, exits>>

\* Mutant: a worker's loop takes the flag for its contrary.
SpawnLeaving(p, where) ==
  /\ pc[p] = "spawn"
  /\ leaving' = IF alive[p] THEN leaving \cup {p} ELSE leaving
  /\ Goto(p, where)
  /\ UNCHANGED <<pidFile, alive, pending, holders, past, crashes, exits>>

\* createWorker forks one worker more, or the last one of them.  A worker reads the flag
\* in its own copy of the singleton: one that was down stays down.
Spawn(p, where) ==
  /\ pc[p] = "spawn"
  /\ leaving' = IF alive[p] THEN leaving ELSE leaving \cup {p}
  /\ Goto(p, where)
  /\ UNCHANGED <<pidFile, alive, pending, holders, past, crashes, exits>>

\* The balancer has accepted all its workers.  It waits for ever if fork failed
\* or a worker could not connect, so nothing is assumed about this step.
WorkersConnected(p) ==
  /\ pc[p] = "workers"
  /\ Goto(p, "serve")
  /\ UNCHANGED <<pidFile, alive, pending, holders, leaving, past, crashes, exits>>

\* while (daemon.isAlive()).  The loop comes back to this test unless its master is
\* blocked in the message to a worker that hangs (sendmsg, Balancer.cpp:134), so
\* nothing is assumed about this step either.
LoopEnds(p) ==
  /\ pc[p] = "serve"
  /\ ~alive[p]
  /\ Goto(p, "return")
  /\ UNCHANGED <<pidFile, alive, pending, holders, leaving, past, crashes, exits>>

\* main returns and the singleton is destroyed: ~Daemon removes the file.
Return(p) ==
  /\ pc[p] \in {"return", "failed"}
  /\ pidFile' = NoFile
  /\ End(p, "done")
  /\ UNCHANGED <<alive, holders, leaving, past, crashes, exits>>

-------------------------------------------------------------------------------
(* The signal handlers. *)

Take(p, s) ==
  /\ s \in pending[p]
  /\ pc[p] \in Handling
  /\ pending' = [pending EXCEPT ![p] = @ \ {s}]

\* Mutant: SIGINT is handled like SIGQUIT.
StopOnly(p) ==
  /\ Take(p, "INT")
  /\ alive' = [alive EXCEPT ![p] = FALSE]
  /\ UNCHANGED <<pidFile, pc, holders, leaving, past, crashes, exits>>

\* quickShutdownSignal: the destructor is called by hand...
QuickShutdown(p) ==
  /\ Take(p, "INT")
  /\ pidFile' = NoFile
  /\ Goto(p, "exiting")
  /\ UNCHANGED <<alive, holders, leaving, past, crashes, exits>>

\* ... and once more by exit(0), on an object whose file name is destroyed: it
\* removes the file again, if the name is still legible.
ExitAgain(p) ==
  /\ pc[p] = "exiting"
  /\ pidFile' \in {NoFile, pidFile}
  /\ End(p, "done")
  /\ UNCHANGED <<alive, holders, leaving, past, crashes, exits>>

\* Mutant: the name of the flag taken at its word.
Kill(p) ==
  /\ Take(p, "QUIT") \/ Take(p, "HUP")
  /\ alive' = [alive EXCEPT ![p] = TRUE]
  /\ UNCHANGED <<pidFile, pc, holders, leaving, past, crashes, exits>>

\* gracefullShutdownSignal.
GracefullShutdown(p) ==
  /\ Take(p, "QUIT") \/ Take(p, "HUP")
  /\ alive' = [alive EXCEPT ![p] = FALSE]
  /\ UNCHANGED <<pidFile, pc, holders, leaving, past, crashes, exits>>

\* reloadSignal: what it reads is in Config.  After process has returned, the
\* pointer to the configuration dangles and the process may die of it.
Reload(p) ==
  /\ \/ Take(p, "USR1") /\ UNCHANGED pc
     \/ "USR1" \in pending[p] /\ pc[p] = "return" /\ End(p, "dead")
  /\ UNCHANGED <<pidFile, alive, holders, leaving, past, crashes, exits>>

-------------------------------------------------------------------------------
(* The children of a master. *)

\* A worker that was forked with the flag down leaves loop() at once, or createWorker
\* behind it: exit(1) destroys its copy of the singleton, and the file goes, whoever
\* it names by then.  There may be more such workers.
BornStopped(p) ==
  /\ p \in leaving
  /\ pidFile' = NoFile
  /\ leaving' \in {leaving, leaving \ {p}}
  /\ UNCHANGED <<pc, alive, pending, holders, past, crashes, exits>>

\* A worker gets SIGTERM or SIGINT, or an exception takes it back to main; or the
\* child of the PHP module finds no php-cgi.  They exit as well, and so does the file.
ChildExits(p) ==
  /\ pc[p] \in {"workers", "serve"} \/ (pc[p] \in Gone /\ p \in holders)
  /\ exits < MaxExits
  /\ exits' = exits + 1
  /\ past' = "disorderly"
  /\ pidFile' = NoFile
  /\ UNCHANGED <<pc, alive, pending, holders, leaving, crashes>>

-------------------------------------------------------------------------------
(* What happens around the processes. *)

\* kill -9, a crash of the master: no destructor runs.
Crash(p) ==
  /\ pc[p] \in Server
  /\ crashes < MaxCrashes
  /\ crashes' = crashes + 1
  /\ End(p, "dead")
  /\ UNCHANGED <<pidFile, alive, holders, leaving, past, exits>>

\* The last worker of a master that is gone has ended, and the kernel has let go
\* of its connections.  A worker may stay with a silent client for ever.
PortsFreed(p) ==
  /\ pc[p] \in Gone
  /\ p \in holders
  /\ holders' = holders \ {p}
  /\ UNCHANGED <<pidFile, pc, alive, pending, leaving, past, crashes, exits>>

Program(p) ==
  \/ SendSignal(p)
  \/ WaitForFile(p)
  \/ CheckFile(p)
  \/ CreateFile(p)
  \/ Fork(p)
  \/ WritePid(p)
  \/ Constructed(p)
  \/ SignalInConstructor(p)
  \/ ReadConf(p)
  \/ Bind(p)
  \/ Spawn(p, "workers")
  \/ Return(p)
  \/ QuickShutdown(p)
  \/ ExitAgain(p)
  \/ GracefullShutdown(p)
  \/ Reload(p)

Next ==
  \E p \in Procs :
    \/ \E c \in Commands : Launch(p, c)
    \/ Program(p)
    \/ Spawn(p, "spawn")
    \/ WorkersConnected(p)
    \/ LoopEnds(p)
    \/ BornStopped(p)
    \/ ChildExits(p)
    \/ Crash(p)
    \/ PortsFreed(p)

\* A process goes on while it can; whether its workers connect and take what it
\* sends them, who types what and when ports are released is not in its hands.
Fairness == \A p \in Procs : WF_vars(Program(p))

Spec == Init /\ [][Next]_vars
FairSpec == Spec /\ Fairness

-------------------------------------------------------------------------------
(* What the pid file is for. *)

\* One server at a time: `Can not launch server: ... already exist.'
\* (daemon.cpp:125).
OneServer == \A p, q \in Procs : pc[p] \in Server /\ pc[q] \in Server => p = q

\* The file names the server for as long as there is one, so that signals reach
\* it and systemd follows it (PIDFile=/run/zia.pid in linux/package/zia.service).
PidFileNamesServer == \A p \in Procs : pc[p] \in Server => pidFile = p

\* Both hold while commands are given one after the other to servers that have
\* settled, every server gets its ports, and no child exits: whatever
\* fails meanwhile, crashes and quick stops included.
OrderlyOneServer == past = "orderly" => OneServer
OrderlyPidFile == past = "orderly" => PidFileNamesServer

\* Who goes on serving has the ports, and has them alone: neither the old workers
\* nor another server can accept in its place.
ServerOwnsPorts ==
  \A p \in Procs : pc[p] \in {"spawn", "workers", "serve"} /\ alive[p] => holders = {p}

\* A stop that reached a server ends it, wherever it is in process(), waiting for
\* its workers included.
StopEnds ==
  \A p \in Watched : (pc[p] \in Handling /\ "INT" \in pending[p]) ~> pc[p] \in Gone

\* The server waits for its workers, for ever if one of them hangs: to connect, or to
\* take a message of the loop that has been told to end.
WaitsForWorkers(p) == pc[p] = "workers" \/ (pc[p] = "serve" /\ ~alive[p])

\* A quit or a restart ends a server whose workers do not keep it waiting for ever.
QuitEnds ==
  \A p \in Watched :
    []<>~WaitsForWorkers(p) =>
      ((pc[p] \in Handling /\ pending[p] \cap {"QUIT", "HUP"} # {}) ~> pc[p] \in Gone)

\* A restart does not wait for ever for the server it has signalled, whose loop no
\* worker holds up: `It could take a while, please wait for a moment' (daemon.cpp:45).
RestartGoesOn ==
  \A p, q \in Procs :
    []<>(pc[q] # "serve" \/ alive[q]) =>
      ((pc[p] = "wait" /\ pidFile = q /\ pc[q] \in Handling /\ "HUP" \in pending[q])
         ~> pc[p] # "wait")
===============================================================================
