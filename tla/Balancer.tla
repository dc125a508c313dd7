------------------------------- MODULE Balancer -------------------------------
(***************************************************************************)
(* Balancer::balancer (sources/server/NetStack/Balancer.cpp): the master   *)
(* empties the request list of a socket, sending each client's descriptor  *)
(* to the worker its number designates.  Composes Network and Worker,      *)
(* which meet in the streams `chan'.                                       *)
(***************************************************************************)
EXTENDS Network, Worker

\* Mutant: when the designated worker is busy, take the next one.
ShardByLoad(fd) ==
  IF Len(chan[fd % NbWorker]) = ChanCap THEN (fd + 1) % NbWorker ELSE fd % NbWorker

\* _worker[client.first->getFd() % _nbWorker]
Shard(fd) == fd % NbWorker

\* popFrontReq
PopFrontReq == req' = [req EXCEPT ![sock] = Tail(@)]

\* Mutant: a dead worker goes unnoticed, its stream stays open.
DescriptorOpen(r) == mfd[r.fd] # NoConn

\* sendmsg fails at once on a closed stream (EPIPE) or descriptor (EBADF); the
\* error is logged, balancer's result ignored and the request forgotten.
Deliverable(r) == mfd[r.fd] # NoConn /\ wpc[Shard(r.fd)] # "dead"

SendToWorker ==
  /\ mpc = "balance"
  /\ req[sock] # <<>>
  /\ LET r == Head(req[sock]) IN
       /\ Deliverable(r)
       /\ Len(chan[Shard(r.fd)]) < ChanCap        \* else sendmsg blocks
       /\ chan' = [chan EXCEPT ![Shard(r.fd)] =
                     Append(@, [fd |-> r.fd, type |-> r.type, conn |-> mfd[r.fd]])]
  /\ PopFrontReq
  /\ UNCHANGED <<peerVars, recvd, answers, backlog, mfd,
                 clients, clientFds, mpc, sock, it, revents, workerVars>>

SendFails ==
  /\ mpc = "balance"
  /\ req[sock] # <<>>
  /\ ~Deliverable(Head(req[sock]))
  /\ PopFrontReq
  /\ UNCHANGED <<kernelVars, clients, clientFds, mpc, sock, it, revents, workerVars>>

\* The list is empty: on to the SSL list, then to sleep(3).
Balanced ==
  /\ mpc = "balance"
  /\ req[sock] = <<>>
  /\ sock' = IF sock = "PLAIN" THEN "SSL" ELSE "PLAIN"
  /\ mpc' = IF sock = "PLAIN" THEN "balance" ELSE "sleep"
  /\ UNCHANGED <<kernelVars, clients, clientFds, req, it, revents, workerVars>>

BalancerStep ==
  \/ SendToWorker
  \/ SendFails
  \/ Balanced
===============================================================================
