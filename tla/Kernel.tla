-------------------------------- MODULE Kernel --------------------------------
(***************************************************************************)
(* What zia's network stack takes from the operating system and from the   *)
(* HTTP clients: TCP connections, the accept queues of the two listening   *)
(* sockets, the descriptor table of the master process and the AF_UNIX     *)
(* stream from the master to each worker.  None of it is zia's code: it is *)
(* modelled from how Network.cpp, Client.cpp, Balancer.cpp and Worker.cpp  *)
(* use it.                                                                 *)
(*                                                                         *)
(* A connection is a model value, used for one TCP connection only.  Bytes *)
(* are counted, never spelled: of their content only one thing matters     *)
(* here, whether they hold a request line (Blank) and whether the request  *)
(* lists a directory (Listing).                                            *)
(***************************************************************************)
EXTENDS Integers, SequencesExt

CONSTANTS
  Conns,          \* the TCP connections clients may open
  SslConns,       \* those that clients open to the SSL port
  Blank,          \* those whose bytes never hold a request line
  Listing,        \* those whose requests list a directory
  NoConn,         \* a descriptor that is not open
  NbWorker,       \* Balancer::_nbWorker
  FirstFd,        \* lowest client descriptor of the master
  LastFd,         \* highest one its RLIMIT_NOFILE allows
  WorkerFdLimit,  \* client descriptors a worker may hold
  BuffSize,       \* BUFFSIZE: bytes one recv takes at most
  ChanCap,        \* messages the stream to a worker holds before sendmsg blocks
  MaxSent         \* bound: bytes a client sends on one connection

ASSUME KernelAssumption ==
  /\ SslConns \subseteq Conns
  /\ Blank \subseteq Conns
  /\ Listing \subseteq Conns
  /\ NoConn \notin Conns
  /\ NbWorker \in Nat \ {0}
  /\ FirstFd \in Nat /\ LastFd \in Nat
  /\ WorkerFdLimit \in Nat \ {0}
  /\ BuffSize \in Nat \ {0}
  /\ ChanCap \in Nat \ {0}
  /\ MaxSent \in Nat

SockType == {"PLAIN", "SSL"}
Workers == 0 .. NbWorker - 1
ClientFd == FirstFd .. LastFd
NoFd == -1                            \* what a failed accept returns

TypeOf(c) == IF c \in SslConns THEN "SSL" ELSE "PLAIN"

\* The message of Balancer::sendToWorker: its text "TYPE|fd" and, in conn, the
\* open connection that travels beside it as SCM_RIGHTS.
Message == [fd : ClientFd, type : SockType, conn : Conns]

VARIABLES
  link,     \* [Conns -> {"none", "open", "fin", "reset"}], as the peer left it
  sent,     \* [Conns -> 0..MaxSent], bytes that reached the server
  recvd,    \* [Conns -> 0..MaxSent], bytes the workers took out
  answers,  \* [Conns -> Nat], answers delivered to the client
  backlog,  \* [SockType -> Seq(Conns)], accept queues
  mfd,      \* [ClientFd -> Conns \cup {NoConn}], master's descriptor table
  chan      \* [Workers -> Seq(Message)], AF_UNIX streams

peerVars == <<link, sent>>
kernelVars == <<link, sent, recvd, answers, backlog, mfd, chan>>

KernelTypeOK ==
  /\ link \in [Conns -> {"none", "open", "fin", "reset"}]
  /\ sent \in [Conns -> 0 .. MaxSent]
  /\ recvd \in [Conns -> 0 .. MaxSent]
  /\ answers \in [Conns -> Nat]
  /\ backlog \in [SockType -> Seq(Conns)]
  /\ mfd \in [ClientFd -> Conns \cup {NoConn}]
  /\ chan \in [Workers -> Seq(Message)]

KernelInit ==
  /\ link = [c \in Conns |-> "none"]
  /\ sent = [c \in Conns |-> 0]
  /\ recvd = [c \in Conns |-> 0]
  /\ answers = [c \in Conns |-> 0]
  /\ backlog = [s \in SockType |-> <<>>]
  /\ mfd = [f \in ClientFd |-> NoConn]
  /\ chan = [w \in Workers |-> <<>>]

Unread(c) == sent[c] - recvd[c]

\* recv returns at once: there is data, or the peer is gone.
Readable(c) == Unread(c) > 0 \/ link[c] \in {"fin", "reset"}

\* What poll reports for a connection: POLLERR|POLLHUP once it was reset, else
\* POLLIN while recv would not block, as long as nobody reads (level-triggered).
Event(c) ==
  IF link[c] = "reset" THEN "err"
  ELSE IF Readable(c) THEN "in"
  ELSE "none"

\* open(2)'s rule, which accept follows: the lowest free descriptor.
LowestFree(f) == 
  /\ mfd[f] = NoConn
  /\ \A g \in ClientFd : g < f => mfd[g] # NoConn
TableFull == \A f \in ClientFd : mfd[f] # NoConn

-------------------------------------------------------------------------------
(* The clients: they owe the server nothing, so no fairness is assumed. *)

Connect(c) ==
  /\ link[c] = "none"
  /\ link' = [link EXCEPT ![c] = "open"]
  /\ backlog' = [backlog EXCEPT ![TypeOf(c)] = Append(@, c)]
  /\ UNCHANGED <<sent, recvd, answers, mfd, chan>>

Send(c, n) ==
  /\ link[c] = "open"
  /\ sent[c] + n <= MaxSent
  /\ sent' = [sent EXCEPT ![c] = @ + n]
  /\ UNCHANGED <<link, recvd, answers, backlog, mfd, chan>>

\* The peer stops sending but still reads (FIN).
Finish(c) ==
  /\ link[c] = "open"
  /\ link' = [link EXCEPT ![c] = "fin"]
  /\ UNCHANGED <<sent, recvd, answers, backlog, mfd, chan>>

\* The peer aborts the connection (RST); bytes already here stay readable.
Reset(c) ==
  /\ link[c] \in {"open", "fin"}
  /\ link' = [link EXCEPT ![c] = "reset"]
  /\ UNCHANGED <<sent, recvd, answers, backlog, mfd, chan>>

Peer ==
  \E c \in Conns :
    \/ Connect(c)
    \/ \E n \in 1 .. MaxSent : Send(c, n)
    \/ Finish(c)
    \/ Reset(c)
===============================================================================
