-------------------------------- MODULE Network -------------------------------
(***************************************************************************)
(* Network::Socket (sources/server/NetStack/Network.cpp), its Client and   *)
(* its RequestList: the part of the master that accepts connections, polls *)
(* them and queues a request for each one that has input.  The master has  *)
(* two such objects, one per SockType, and serves them in turn             *)
(* (sources/main.cpp, process).                                            *)
(***************************************************************************)
EXTENDS Kernel

VARIABLES
  clients,    \* [SockType -> SUBSET fds]: the keys of Socket::_clients
  clientFds,  \* [SockType -> Seq(fds)]: Socket::_clientFds
  req,        \* [SockType -> Seq([fd, type])]: Socket::_req
  mpc,        \* where the master is in process()
  sock,       \* the socket whose loop() or queue it works on
  it,         \* the iterator of the scan, as an index of _clientFds
  revents     \* [ClientFd -> event]: the revents fields poll filled in

netVars == <<clients, clientFds, req, mpc, sock, it, revents>>

Fds == ClientFd \cup {NoFd}
Request == [fd : ClientFd, type : SockType]
Quiet == [f \in ClientFd |-> "none"]

NetTypeOK ==
  /\ clients \in [SockType -> SUBSET Fds]
  /\ clientFds \in [SockType -> Seq(Fds)]
  /\ req \in [SockType -> Seq(Request)]
  /\ mpc \in {"accept", "poll", "scan", "balance", "sleep", "exited", "crashed"}
  /\ sock \in SockType
  /\ it \in Nat \ {0}
  /\ revents \in [ClientFd -> {"none", "in", "err"}]

NetInit ==
  /\ clients = [s \in SockType |-> {}]
  /\ clientFds = [s \in SockType |-> <<>>]
  /\ req = [s \in SockType |-> <<>>]
  /\ mpc = "accept"
  /\ sock = "PLAIN"
  /\ it = 1
  /\ revents = Quiet

\* Mutant: the next walk starts before the first entry.
LoopReturnsToZero ==
  /\ sock' = IF sock = "PLAIN" THEN "SSL" ELSE "PLAIN"
  /\ mpc' = IF sock = "PLAIN" THEN "accept" ELSE "balance"
  /\ it' = 0
  /\ revents' = Quiet

\* loop() returns: the master turns to inet_ssl.loop(), then to the balancer.
LoopReturns ==
  /\ sock' = IF sock = "PLAIN" THEN "SSL" ELSE "PLAIN"
  /\ mpc' = IF sock = "PLAIN" THEN "accept" ELSE "balance"
  /\ it' = 1
  /\ revents' = Quiet

\* The process ends: its lists go with it.  mfd keeps what it had open.
Exit ==
  /\ mpc' = "exited"
  /\ clients' = [s \in SockType |-> {}]
  /\ clientFds' = [s \in SockType |-> <<>>]
  /\ req' = [s \in SockType |-> <<>>]
  /\ sock' = "PLAIN"
  /\ it' = 1
  /\ revents' = Quiet

-------------------------------------------------------------------------------
(* The first half of loop(): one connection, if poll saw one in the queue. *)

\* Mutant: both sockets share the lists of the first one.
RegisterElsewhere(fd) ==
  /\ clients' = [clients EXCEPT !["PLAIN"] = @ \cup {fd}]
  /\ clientFds' = [clientFds EXCEPT !["PLAIN"] = Append(@, fd)]

\* new Client(_fd): accept, then _clients.insert and _clientFds.push_back.
Register(fd) ==
  /\ clients' = [clients EXCEPT ![sock] = @ \cup {fd}]
  /\ clientFds' = [clientFds EXCEPT ![sock] = Append(@, fd)]

AcceptClient ==
  /\ mpc = "accept"
  /\ backlog[sock] # <<>>
  /\ \E fd \in ClientFd :
       /\ LowestFree(fd)
       /\ mfd' = [mfd EXCEPT ![fd] = Head(backlog[sock])]
       /\ Register(fd)
  /\ backlog' = [backlog EXCEPT ![sock] = Tail(@)]
  /\ mpc' = "poll"
  /\ UNCHANGED <<link, sent, recvd, answers, chan, req, sock, it, revents>>

\* poll takes as many entries as the process may have descriptors
\* (RLIMIT_NOFILE) and fails with EINVAL beyond, whatever the entries hold.
PollAccepts(s) == Len(clientFds[s]) <= LastFd + 1

\* EMFILE: accept returns -1, which only earns a log line; the Client with
\* descriptor -1 is inserted all the same, the connection stays queued and the
\* next loop fails again.  The map holds -1 once, the vector once more for every
\* loop.  Past poll's limit the vector is never walked or shortened again, and
\* the model stops counting its copies there.
AcceptFails ==
  /\ mpc = "accept"
  /\ backlog[sock] # <<>>
  /\ TableFull
  /\ IF PollAccepts(sock) THEN Register(NoFd) ELSE UNCHANGED <<clients, clientFds>>
  /\ mpc' = "poll"
  /\ UNCHANGED <<kernelVars, req, sock, it, revents>>

NothingToAccept ==
  /\ mpc = "accept"
  /\ backlog[sock] = <<>>
  /\ mpc' = "poll"
  /\ UNCHANGED <<kernelVars, clients, clientFds, req, sock, it, revents>>

-------------------------------------------------------------------------------
(* The second half: poll the clients, then walk _clientFds. *)

Polled == Range(clientFds[sock]) \ {NoFd}
Pending(fd) == Event(mfd[fd])

PollClients ==
  /\ mpc = "poll"
  /\ clients[sock] # {}
  /\ PollAccepts(sock)
  /\ \E fd \in Polled : Pending(fd) # "none"
  /\ revents' = [f \in ClientFd |-> IF f \in Polled THEN Pending(f) ELSE "none"]
  /\ mpc' = "scan"
  /\ it' = 1
  /\ UNCHANGED <<kernelVars, clients, clientFds, req, sock>>

\* _clients is empty, poll timed out after its 10 ms, or it refused the list.
NoEvent ==
  /\ mpc = "poll"
  /\ \/ clients[sock] = {}
     \/ ~PollAccepts(sock)
     \/ \A fd \in Polled : Pending(fd) = "none"
  /\ LoopReturns
  /\ UNCHANGED <<kernelVars, clients, clientFds, req>>

\* A signal handler ran during one of the two polls: EINTR, check = -1.
PollInterrupted ==
  /\ \/ /\ mpc = "accept"
        /\ mpc' = "poll"
        /\ UNCHANGED <<sock, it, revents>>
     \/ /\ mpc = "poll"
        /\ LoopReturns
  /\ UNCHANGED <<kernelVars, clients, clientFds, req>>

ScanFd == clientFds[sock][it]
Seen == IF ScanFd = NoFd THEN "none" ELSE revents[ScanFd]

\* Mutants of Disconnect: close the descriptor as well; advance the iterator
\* after erase; forget one of the two lists.
DisconnectAndClose ==
  /\ clients' = [clients EXCEPT ![sock] = @ \ {ScanFd}]
  /\ clientFds' = [clientFds EXCEPT ![sock] = RemoveAt(@, it)]
  /\ mfd' = [mfd EXCEPT ![ScanFd] = NoConn]
  /\ UNCHANGED <<link, sent, recvd, answers, backlog, chan, req, it>>

DisconnectThenNext ==
  /\ clients' = [clients EXCEPT ![sock] = @ \ {ScanFd}]
  /\ clientFds' = [clientFds EXCEPT ![sock] = RemoveAt(@, it)]
  /\ it' = it + 1
  /\ UNCHANGED <<kernelVars, req>>

DisconnectFromMapOnly ==
  /\ clients' = [clients EXCEPT ![sock] = @ \ {ScanFd}]
  /\ UNCHANGED <<kernelVars, clientFds, req, it>>

\* POLLERR, POLLHUP or POLLNVAL: drop the client.  Neither the Client object nor
\* its descriptor is released (no delete, so ~Client and its close never run).
Disconnect ==
  /\ clients' = [clients EXCEPT ![sock] = @ \ {ScanFd}]
  /\ clientFds' = [clientFds EXCEPT ![sock] = RemoveAt(@, it)]
  /\ UNCHANGED <<kernelVars, req, it>>

\* Mutants of NewInput: stay on the entry; drop the client once it is queued.
NewInputNoAdvance ==
  /\ req' = [req EXCEPT ![sock] = Append(@, [fd |-> ScanFd, type |-> sock])]
  /\ UNCHANGED <<kernelVars, clients, clientFds, it>>

NewInputOneShot ==
  /\ req' = [req EXCEPT ![sock] = Append(@, [fd |-> ScanFd, type |-> sock])]
  /\ clients' = [clients EXCEPT ![sock] = @ \ {ScanFd}]
  /\ clientFds' = [clientFds EXCEPT ![sock] = RemoveAt(@, it)]
  /\ UNCHANGED <<kernelVars, it>>

\* POLLIN: one request for the balancer.
NewInput ==
  /\ req' = [req EXCEPT ![sock] = Append(@, [fd |-> ScanFd, type |-> sock])]
  /\ it' = it + 1
  /\ UNCHANGED <<kernelVars, clients, clientFds>>

NextEntry ==
  /\ it' = it + 1
  /\ UNCHANGED <<kernelVars, clients, clientFds, req>>

\* One turn of the while loop.  For an entry that _clients does not know, the
\* code erases it and goes on with a past-the-end clientIt: undefined behaviour,
\* taken here as the end of the master.
ScanEntry ==
  /\ mpc = "scan"
  /\ it <= Len(clientFds[sock])
  /\ IF ScanFd \notin clients[sock]
       THEN mpc' = "crashed" /\ UNCHANGED <<kernelVars, clients, clientFds, req, it>>
       ELSE /\ mpc' = "scan"
            /\ CASE Seen = "err"  -> Disconnect
                 [] Seen = "in"   -> NewInput
                 [] Seen = "none" -> NextEntry
  /\ UNCHANGED <<sock, revents>>

ScanDone ==
  /\ mpc = "scan"
  /\ it > Len(clientFds[sock])
  /\ LoopReturns
  /\ UNCHANGED <<kernelVars, clients, clientFds, req>>

SocketLoop ==
  \/ AcceptClient
  \/ AcceptFails
  \/ NothingToAccept
  \/ PollClients
  \/ NoEvent
  \/ ScanEntry
  \/ ScanDone
===============================================================================
