-------------------------------- MODULE Startup --------------------------------
(***************************************************************************)
(* process() of one master, from its first browser_conf to the loop        *)
(* (sources/main.cpp): the modules are loaded and configured               *)
(* (module_manager), the workers forked and waited for (Balancer.cpp), who *)
(* connect through a path in /tmp that every server uses (Worker.cpp).     *)
(* From the moment the configuration is published, SIGUSR1 reads the file  *)
(* again whatever the master is doing.                                     *)
(*                                                                         *)
(* What happens to the pid file meanwhile is in Daemon, what the loop does *)
(* in NetStack.                                                            *)
(***************************************************************************)
EXTENDS Config

CONSTANTS
  Longs,    \* the values that are whole numbers
  Ports,    \* the keys process() takes a port from
  Loads,    \* what loading and configuring the libraries may come to
  NWorkers  \* _nbWorker

\* "absent": dlopen fails, or the library has no `create'.  "throws": config leaves
\* through an exception, as LogModule's does without a key `Log'.
Outcomes == {"absent", "refused", "throws", "accepted"}

ASSUME StartupAssumption ==
  /\ Loads \subseteq [Names -> Outcomes]
  /\ Longs \subseteq Values
  /\ Ports \subseteq DOMAIN Defaults
  /\ NWorkers \in Nat \ {0}

Ids == 1 .. NWorkers

VARIABLES
  pc,         \* where process() is
  outcome,    \* [Names -> what loading and configuring the library comes to]
  next,       \* the entry of the list that init is at
  loaded,     \* ModuleLoader::_modules: the modules, each with the configuration it got
  worker,     \* [Ids -> where the worker is, and its copy of the configuration]
  listening,  \* createSocket has succeeded
  path,       \* whose socket /tmp/ux_socket is: "nobody", "own" or "other"
  queue,      \* the workers that have connected and are not accepted yet
  streams,    \* _worker: who is at the end of each stream the master has accepted
  shared      \* history: another server used the path while this one started

bootVars == <<pc, outcome, next, loaded, worker, listening, path, queue, streams, shared>>
vars == <<confVars, bootVars>>

Published == {"socket", "fork", "accept", "serve"}
Places == {"none", "sleeping", "connected", "astray", "spinning"}
Foreigner == 0   \* a worker of another server
Broken == -1     \* what accept returns when it fails

TypeOK ==
  /\ ConfigTypeOK
  /\ pc \in {"read", "ports", "modules", "failed"} \cup Published
  /\ outcome \in Loads
  /\ next \in Nat
  /\ loaded \in Seq([name : Names, with : UNION {[K -> Values] : K \in SUBSET Keys}])
  /\ worker \in [Ids -> [at : Places, conf : UNION {[K -> Values] : K \in SUBSET Keys}]]
  /\ listening \in BOOLEAN
  /\ path \in {"nobody", "own", "other"}
  /\ queue \in Seq(Ids \cup {Foreigner})
  /\ streams \in Seq(Ids \cup {Foreigner, Broken})
  /\ shared \in {"no", "yes"}

Init ==
  /\ ConfigInit
  /\ pc = "read"
  /\ outcome \in Loads
  /\ next = 1
  /\ loaded = <<>>
  /\ worker = [w \in Ids |-> [at |-> "none", conf |-> conf]]
  /\ listening = FALSE
  /\ path \in {"nobody", "other"}   \* a server that crashed leaves its socket there
  /\ queue = <<>>
  /\ streams = <<>>
  /\ shared = "no"

-------------------------------------------------------------------------------
(* Configuration and modules. *)

ReadConf ==
  /\ pc = "read"
  /\ BrowserConf
  /\ pc' = "ports"
  /\ UNCHANGED <<outcome, next, loaded, worker, listening, path, queue, streams, shared>>

\* std::get<long long> throws if a port is anything else, and process() returns 1.
OpenPorts ==
  /\ pc = "ports"
  /\ pc' = IF \A k \in Ports : conf[k] \in Longs THEN "modules" ELSE "failed"
  /\ UNCHANGED <<confVars, outcome, next, loaded, worker, listening, path, queue, streams, shared>>

\* Mutant: it throws before it looks.
CloseNothing(ms, n) == ms

\* closeModuleByName: the step that follows an erasure passes over one module.
CloseByName(ms, n) ==
  LET seen[i \in 0 .. Len(ms)] ==
        IF i = 0 THEN [skip |-> FALSE, kept |-> <<>>]
        ELSE LET before == seen[i - 1]
             IN  IF ms[i].name = n /\ ~before.skip
                 THEN [skip |-> TRUE, kept |-> before.kept]
                 ELSE [skip |-> FALSE, kept |-> Append(before.kept, ms[i])]
  IN  seen[Len(ms)].kept

\* init on the next entry: loadModule, config, closeModuleByName.  Whatever is thrown
\* is logged; a module whose config throws stays in the list.
LoadNext ==
  /\ pc = "modules"
  /\ next <= Len(list)
  /\ LET n == list[next][1]
         with == Append(loaded, [name |-> n, with |-> conf])
     IN  loaded' = CASE outcome[n] = "absent" -> loaded
                     [] outcome[n] = "refused" -> CloseByName(with, n)
                     [] OTHER -> with
  /\ next' = next + 1
  /\ UNCHANGED <<confVars, pc, outcome, worker, listening, path, queue, streams, shared>>

\* setConf and setModuleManager.
Publish ==
  /\ pc = "modules"
  /\ next > Len(list)
  /\ pc' = "socket"
  /\ UNCHANGED <<confVars, outcome, next, loaded, worker, listening, path, queue, streams, shared>>

\* reloadSignal: updateConf reads the file again.  Nothing else is told.
Reload ==
  /\ pc \in Published
  /\ BrowserConf
  /\ UNCHANGED bootVars

AdminEdits == Edit /\ UNCHANGED bootVars

-------------------------------------------------------------------------------
(* The workers. *)

\* Mutant: the socket is not created anew when the path exists.
ReuseSocket ==
  /\ pc = "socket"
  /\ \/ listening' = TRUE /\ path' = IF path = "other" THEN path ELSE "own"
     \/ UNCHANGED <<listening, path>>
  /\ pc' = "fork"
  /\ UNCHANGED <<confVars, outcome, next, loaded, worker, queue, streams, shared>>

\* createSocket: whoever has the path loses it, before bind may fail.  When
\* socket, bind or listen fails the balancer goes on.
CreateSocket ==
  /\ pc = "socket"
  /\ \/ listening' \in BOOLEAN /\ path' = "own"
     \/ UNCHANGED listening /\ path' \in {path, "nobody"}
  /\ pc' = "fork"
  /\ UNCHANGED <<confVars, outcome, next, loaded, worker, queue, streams, shared>>

Forked == {w \in Ids : worker[w].at # "none"}

\* createWorker: one child more, with the configuration as it is now; or fork fails,
\* and there will be no more.
ForkWorker ==
  /\ pc = "fork"
  /\ \E w \in Ids \ Forked :
       /\ \A v \in Ids \ Forked : w <= v
       /\ \/ /\ worker' = [worker EXCEPT ![w] = [at |-> "sleeping", conf |-> conf]]
             /\ pc' = IF w = NWorkers THEN "accept" ELSE "fork"
          \/ UNCHANGED worker /\ pc' = "accept"
  /\ UNCHANGED <<confVars, outcome, next, loaded, listening, path, queue, streams, shared>>

\* createSocketWorker, a second after the fork: the worker connects to whoever has the
\* path.  If nobody listens there it goes on into its loop, where every recvmsg fails.
WorkerConnects(w) ==
  /\ worker[w].at = "sleeping"
  /\ LET to == IF path = "own" /\ listening THEN "connected"
               ELSE IF path = "other" THEN "astray" ELSE "spinning"
     IN  /\ worker' = [worker EXCEPT ![w].at = to]
         /\ queue' = IF to = "connected" THEN Append(queue, w) ELSE queue
  /\ UNCHANGED <<confVars, pc, outcome, next, loaded, listening, path, streams, shared>>

\* Nobody is behind the path any more: the server that left it there is gone.
WorkerRefused(w) ==
  /\ worker[w].at = "sleeping"
  /\ path = "other"
  /\ worker' = [worker EXCEPT ![w].at = "spinning"]
  /\ UNCHANGED <<confVars, pc, outcome, next, loaded, listening, path, queue, streams, shared>>

\* Mutant: acceptWorker counts the workers that were forked.
AcceptForked ==
  /\ pc = "accept"
  /\ listening
  /\ queue # <<>>
  /\ streams' = Append(streams, Head(queue))
  /\ queue' = Tail(queue)
  /\ pc' = IF Len(streams') >= Cardinality(Forked) THEN "serve" ELSE "accept"
  /\ UNCHANGED <<confVars, outcome, next, loaded, worker, listening, path, shared>>

\* acceptWorker: as many as there should be, in the order they come.
AcceptWorker ==
  /\ pc = "accept"
  /\ listening
  /\ queue # <<>>
  /\ streams' = Append(streams, Head(queue))
  /\ queue' = Tail(queue)
  /\ pc' = IF Len(streams') = NWorkers THEN "serve" ELSE "accept"
  /\ UNCHANGED <<confVars, outcome, next, loaded, worker, listening, path, shared>>

\* On a socket that does not listen accept returns -1 at once, every time.
AcceptFails ==
  /\ pc = "accept"
  /\ ~listening
  /\ streams' = [i \in Ids |-> Broken]
  /\ pc' = "serve"
  /\ UNCHANGED <<confVars, outcome, next, loaded, worker, listening, path, queue, shared>>

-------------------------------------------------------------------------------
(* Another server that starts at the same time, on the same path. *)

OtherCreatesSocket ==
  /\ pc \in {"socket", "fork", "accept"}
  /\ path' = "other"
  /\ shared' = "yes"
  /\ UNCHANGED <<confVars, pc, outcome, next, loaded, worker, listening, queue, streams>>

OtherWorkerConnects ==
  /\ path = "own" /\ listening
  /\ pc \in {"fork", "accept"}
  /\ Len(queue) < NWorkers
  /\ queue' = Append(queue, Foreigner)
  /\ shared' = "yes"
  /\ UNCHANGED <<confVars, pc, outcome, next, loaded, worker, listening, path, streams>>

Program ==
  \/ ReadConf
  \/ OpenPorts
  \/ LoadNext
  \/ Publish
  \/ CreateSocket
  \/ ForkWorker
  \/ AcceptWorker
  \/ AcceptFails

Next ==
  \/ Program
  \/ \E w \in Ids : WorkerConnects(w) \/ WorkerRefused(w)
  \/ Reload
  \/ AdminEdits
  \/ OtherCreatesSocket
  \/ OtherWorkerConnects

\* The master and each of its workers go on while they can.
Fairness ==
  /\ WF_vars(Program)
  /\ \A w \in Ids : WF_vars(WorkerConnects(w))

Spec == Init /\ [][Next]_vars
FairSpec == Spec /\ Fairness

-------------------------------------------------------------------------------
(* What a start promises. *)

\* What the first file lists and is in a directory; what can be loaded and is not refused.
Listed ==
  IF reads[1] = Unreadable THEN <<>> ELSE Only(reads[1].modules, There(reads[1].dirs))
Willing == {n \in Names : outcome[n] \in {"accepted", "throws"}}

\* The modules that will run are those the first file lists, in its order, without the
\* ones that are nowhere, cannot be loaded or refused their configuration: the loop of
\* closeModuleByName, which skips what follows an erasure, finds the one it has to
\* close and no other, also if a module is listed twice.
ModulesAsListed ==
  pc \in Published =>
    [i \in DOMAIN loaded |-> loaded[i].name] = Only(Listed, Willing)

\* With the path to itself, a master that serves and listens has one stream to each of
\* its workers, whatever order they came in: no client is sent to a stream nobody
\* reads, and a worker that is missing keeps the master from serving.
StreamsToWorkers ==
  pc = "serve" /\ listening /\ shared = "no" =>
    /\ Len(streams) = NWorkers
    /\ \A w \in Ids : \E i \in DOMAIN streams : streams[i] = w

\* A master that could fork its workers and listens to them comes to serve, if nobody
\* else uses its path: it does not wait for a worker that went astray.
StartEnds ==
  pc = "accept" /\ listening /\ Forked = Ids ~> pc = "serve" \/ shared = "yes"

\* A server runs with its configuration as it is: its modules were called with it
\* (`Called after contruct and when config changed', includes/server/api/module.h:16),
\* and its workers have it.
ServerFollowsConf ==
  pc = "serve" =>
    /\ \A i \in DOMAIN loaded : loaded[i].with = conf
    /\ \A w \in Forked : worker[w].conf = conf
===============================================================================
