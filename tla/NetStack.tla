------------------------------- MODULE NetStack -------------------------------
(***************************************************************************)
(* The running server: the loop of process() in sources/main.cpp, its two  *)
(* sockets, the balancer and the workers, and the signals that end it.     *)
(***************************************************************************)
EXTENDS Balancer

CONSTANT MaxSignals   \* bound: signals that interrupt the master's polls

ASSUME MaxSignalsAssumption == MaxSignals \in Nat

VARIABLES
  alive,   \* Daemon::_killed: true until stop() (the field's name is inverted)
  signals  \* signals received so far, for the bound

vars == <<kernelVars, netVars, workerVars, alive, signals>>

TypeOK ==
  /\ KernelTypeOK
  /\ NetTypeOK
  /\ WorkerTypeOK
  /\ alive \in BOOLEAN
  /\ signals \in 0 .. MaxSignals

\* After the Balancer's constructor: all workers connected, nobody accepted yet.
Init ==
  /\ KernelInit
  /\ NetInit
  /\ WorkerInit
  /\ alive = TRUE
  /\ signals = 0

Running == mpc \notin {"exited", "crashed"}

\* sleep(3) is over, or a signal cut it short: while (daemon.isAlive()).
Wake ==
  /\ mpc = "sleep"
  /\ IF alive
       THEN mpc' = "accept" /\ UNCHANGED <<clients, clientFds, req, sock, it, revents>>
       ELSE Exit
  /\ UNCHANGED <<kernelVars, workerVars, alive, signals>>

Master ==
  \/ SocketLoop /\ UNCHANGED <<workerVars, alive, signals>>
  \/ BalancerStep /\ UNCHANGED <<alive, signals>>
  \/ Wake

\* SIGQUIT or SIGHUP: gracefullShutdownSignal calls stop().
GracefullShutdown ==
  /\ Running
  /\ alive
  /\ alive' = FALSE
  /\ UNCHANGED <<kernelVars, netVars, workerVars, signals>>

\* SIGINT or SIGTERM: quickShutdownSignal, wherever the master is.
QuickShutdown ==
  /\ Running
  /\ Exit
  /\ UNCHANGED <<kernelVars, workerVars, alive, signals>>

\* Any handled signal that returns (SIGUSR1, SIGHUP...) while the master polls.
Signal ==
  /\ signals < MaxSignals
  /\ signals' = signals + 1
  /\ PollInterrupted
  /\ UNCHANGED <<workerVars, alive>>

\* Mutant: a stream that has ended is waited for again, like a failed recvmsg.
MasterGoneRetried(w) ==
  /\ ~Running
  /\ wpc[w] = "receivFd"
  /\ chan[w] = <<>>
  /\ UNCHANGED vars

\* The master is gone and the stream drained: recvmsg returns 0 without control
\* data, CMSG_FIRSTHDR is NULL and the worker dies on it.
MasterGone(w) ==
  /\ ~Running
  /\ wpc[w] = "receivFd"
  /\ chan[w] = <<>>
  /\ Die(w)
  /\ UNCHANGED <<peerVars, recvd, answers, backlog, mfd, netVars, alive, signals>>

WorkerProcess(w) ==
  \/ WorkerStep(w) /\ UNCHANGED <<netVars, alive, signals>>
  \/ MasterGone(w)

Environment ==
  \/ Peer /\ UNCHANGED <<netVars, workerVars, alive, signals>>
  \/ GracefullShutdown
  \/ QuickShutdown
  \/ Signal

Next ==
  \/ Master
  \/ \E w \in Workers : WorkerProcess(w)
  \/ Environment

\* Each process runs when it can (the kernel schedules it, polls and sleep time
\* out); clients, and whoever sends signals, may stop at any moment.
Fairness ==
  /\ WF_vars(Master)
  /\ \A w \in Workers : WF_vars(WorkerProcess(w))

Spec == Init /\ [][Next]_vars
FairSpec == Spec /\ Fairness

-------------------------------------------------------------------------------
(* What the stack promises. *)

\* Only the -1 of failed accepts is repeated in a vector of descriptors.
OnceEach(l) ==
  \A i, j \in 1 .. Len(l) : l[i] = l[j] => i = j \/ l[i] = NoFd

\* _clients and _clientFds list the same descriptors, the vector each accepted
\* one once, so the scan never meets a client it does not know (the branch of
\* Network.cpp:170-174 that goes on with a past-the-end iterator).
PollListMatchesMap ==
  /\ mpc # "crashed"
  /\ \A s \in SockType : /\ Range(clientFds[s]) = clients[s]
                         /\ OnceEach(clientFds[s])

\* An accepted connection that its peer has not reset stays among the clients
\* that are polled, whatever was accepted, disconnected or interrupted since; and
\* poll takes its port's list, unless an accept failed on that port before.
NoLostConnection ==
  Running =>
  \A f \in ClientFd :
    mfd[f] # NoConn /\ link[mfd[f]] # "reset" =>
      LET s == TypeOf(mfd[f])
      IN f \in clients[s] /\ (NoFd \in clients[s] \/ PollAccepts(s))

\* Erasing from _clientFds while it is walked skips nobody: whatever poll
\* reported is either still ahead of the iterator or has been acted on.
NoSkippedEvent ==
  mpc = "scan" =>
    \A f \in ClientFd :
      \/ revents[f] = "none"
      \/ \E j \in it .. Len(clientFds[sock]) : clientFds[sock][j] = f
      \/ revents[f] = "in" /\ [fd |-> f, type |-> sock] \in Range(req[sock])
      \/ revents[f] = "err" /\ f \notin clients[sock]

\* One pass of the master queues a client at most once.
NoDoubleRequest == \A s \in SockType : IsInjective(req[s])

\* Whatever was disconnected, repeated or dropped on the way, a worker turns to
\* the very connection whose descriptor travelled with the message it took,
\* though it keeps the first descriptor it got under that number, and treats it
\* as the port it came in by.
RightConnection ==
  [][\A w \in Workers :
       wpc[w] = "receivFd" /\ wpc'[w] \in {"recv", "handshake1"} =>
         /\ Client(w)' = Head(chan[w]).conn
         /\ cliFd'[w].type = TypeOf(Client(w)')]_vars

\* No two workers ever hold the same connection, so the bytes of one client are
\* never shared out between two readers.
OneWorkerPerConnection ==
  \A v, w \in Workers :
    v # w => Range(wfds[v]) \cap Range(wfds[w]) = {}

\* Every answer took at least one byte of its own connection: repeated messages
\* for a client that was already served, and clients that left, earn none.
AnswersBacked == \A c \in Conns : answers[c] <= recvd[c]

-------------------------------------------------------------------------------
(* The inductive invariant behind RightConnection and OneWorkerPerConnection: *)
(* a descriptor number of the master means one connection for ever, because   *)
(* the master never closes one, and everything that names a number agrees on  *)
(* the connection, its port and its worker.                                   *)

\* Numbers and connections correspond one to one, and a connection waits in its
\* port's queue only before it has a number.
TableInv ==
  /\ \A f, g \in ClientFd : mfd[f] # NoConn /\ mfd[f] = mfd[g] => f = g
  /\ \A f \in ClientFd : mfd[f] # NoConn => link[mfd[f]] # "none"
  /\ \A s \in SockType : \A i \in 1 .. Len(backlog[s]) :
       /\ link[backlog[s][i]] # "none"
       /\ TypeOf(backlog[s][i]) = s
       /\ \A f \in ClientFd : mfd[f] # backlog[s][i]
       /\ \A j \in 1 .. Len(backlog[s]) : backlog[s][i] = backlog[s][j] => i = j

\* f is a number of port s.
Registered(f, s) == mfd[f] # NoConn /\ TypeOf(mfd[f]) = s

\* What the master keeps about its clients names registered numbers only.
MasterInv ==
  \A s \in SockType :
    /\ \A i \in 1 .. Len(clientFds[s]) :
         clientFds[s][i] # NoFd => Registered(clientFds[s][i], s)
    /\ \A i \in 1 .. Len(req[s]) :
         Registered(req[s][i].fd, s) /\ req[s][i].type = s

\* Messages on their way carry the connection of their number to its worker.
ChanInv ==
  \A w \in Workers : \A i \in 1 .. Len(chan[w]) :
    /\ chan[w][i].conn = mfd[chan[w][i].fd]
    /\ chan[w][i].type = TypeOf(chan[w][i].conn)
    /\ Shard(chan[w][i].fd) = w

\* A worker holds connections of its own numbers only, and its history maps a
\* number to that number's connection.
HeldInv ==
  \A w \in Workers :
    /\ \A i \in 1 .. Len(wfds[w]) :
         \E f \in ClientFd : mfd[f] = wfds[w][i] /\ Shard(f) = w
    /\ \A f \in ClientFd : hist[w][f] # 0 =>
         hist[w][f] \in 1 .. Len(wfds[w]) /\ wfds[w][hist[w][f]] = mfd[f]

RoutingInv == TableInv /\ MasterInv /\ ChanInv /\ HeldInv

\* What typing needs besides the types: nobody reads bytes that were not sent,
\* and a worker is only busy with a descriptor it has.
BusyInv ==
  /\ \A c \in Conns : recvd[c] <= sent[c]
  /\ \A w \in Workers :
       wpc[w] \in {"recv", "interpret", "handshake1", "handshake2"} =>
         cliFd[w].fd \in 1 .. Len(wfds[w])

-------------------------------------------------------------------------------
(* What the promises about the poll lists, the requests and the answers rest  *)
(* on, each one inductive together with them and with the invariant above.    *)

\* Requests outlive the walk that queued them only until the balancer: each list
\* is empty again when its socket is next walked (a request is queued once), and
\* during the walk it holds clients that the iterator has passed.
QueuedBehind ==
  /\ mpc \in {"accept", "poll", "sleep"} => req[sock] = <<>>
  /\ mpc \in {"accept", "poll", "scan", "sleep"} /\ sock = "PLAIN" => req["SSL"] = <<>>
  /\ mpc = "balance" /\ sock = "SSL" => req["PLAIN"] = <<>>
  /\ mpc = "sleep" => sock = "PLAIN"
  /\ mpc = "scan" =>
       \A i \in 1 .. Len(req[sock]) : \E j \in 1 .. Len(clientFds[sock]) :
         j < it /\ clientFds[sock][j] = req[sock][i].fd

\* An error that poll reported stays true until the walk acts on it, however long
\* that takes: a number keeps its connection and a reset is final.
ErrorsLast ==
  \A f \in ClientFd :
    revents[f] = "err" => mfd[f] # NoConn /\ link[mfd[f]] = "reset"

WalkInv == QueuedBehind /\ ErrorsLast

\* The bytes of the request a worker is assembling are its client's and are not
\* in any answer yet.
UnansweredInv ==
  \A w \in Workers :
    IF wpc[w] \in {"recv", "interpret"}
      THEN answers[Client(w)] + got[w] <= recvd[Client(w)]
      ELSE got[w] = 0

-------------------------------------------------------------------------------
(* What comes about under the fairness above. *)

NoWorkerHangs == \A w \in Workers : []<>(wpc[w] \in {"receivFd", "dead"})

\* Unless a worker waits for ever for a silent client, the master keeps coming
\* back to its sleep, dead workers notwithstanding, and a graceful shutdown ends
\* it.
MasterProgress ==
  NoWorkerHangs => /\ []<>(mpc = "sleep" \/ ~Running)
                   /\ ~alive ~> ~Running

\* Once the master is gone no worker stays behind waiting for work: it dies, or
\* it is stuck with a client.
WorkersFollowMaster ==
  ~Running ~> \A w \in Workers : wpc[w] # "receivFd"

\* While the workers keep coming back for work, and the copies of -1 that failed
\* accepts leave have not outgrown poll's limit, a client of the plain port whose
\* bytes wait at the server gets an answer (or has reset the connection).
RequestAnswered ==
  (/\ [](Running /\ PollAccepts("PLAIN") /\ \A w \in Workers : wpc[w] # "dead")
   /\ NoWorkerHangs) =>
    \A c \in Conns \ SslConns, n \in 0 .. MaxSent :
      (c \in Range(mfd) /\ Unread(c) > 0 /\ answers[c] = n) ~>
        (answers[c] > n \/ link[c] = "reset")
===============================================================================
