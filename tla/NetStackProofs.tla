---------------------------- MODULE NetStackProofs ----------------------------
(***************************************************************************)
(* Theorems about NetStack, for every set of connections, number of        *)
(* workers, size of the descriptor tables and bound: the routing of the    *)
(* connections; the two lists each socket keeps of its clients, with the   *)
(* walk that erases from one while it goes and the requests it leaves; the *)
(* account of bytes and answers, and the refinement of ClientService.      *)
(***************************************************************************)
EXTENDS NetStackRefinement, TLAPS, SequenceTheorems, FiniteSetTheorems

LEMMA ShardInRange ==
  ASSUME NEW f \in ClientFd
  PROVE  Shard(f) \in Workers
  BY KernelAssumption DEF Shard, Workers, ClientFd, KernelAssumption

LEMMA RemoveAtType ==
  ASSUME NEW S, NEW s \in Seq(S), NEW i \in 1 .. Len(s)
  PROVE  /\ RemoveAt(s, i) \in Seq(S)
         /\ Len(RemoveAt(s, i)) = Len(s) - 1
         /\ \A j \in 1 .. Len(s) - 1 :
              RemoveAt(s, i)[j] = IF j < i THEN s[j] ELSE s[j + 1]
<1> DEFINE a == SubSeq(s, 1, i - 1)
           b == SubSeq(s, i + 1, Len(s))
<1>1. a \in Seq(S) /\ Len(a) = i - 1 /\ \A j \in 1 .. i - 1 : a[j] = s[j]
  OBVIOUS
<1>2. b \in Seq(S) /\ Len(b) = Len(s) - i /\ \A j \in 1 .. Len(s) - i : b[j] = s[i + j]
  OBVIOUS
<1> HIDE DEF a, b
<1>3. /\ a \o b \in Seq(S)
      /\ Len(a \o b) = Len(s) - 1
      /\ \A j \in 1 .. Len(s) - 1 :
           (a \o b)[j] = IF j < i THEN a[j] ELSE b[j - (i - 1)]
  <2>1. Len(a) + Len(b) = Len(s) - 1
    BY <1>1, <1>2, LenProperties
  <2>2. /\ a \o b \in Seq(S)
        /\ Len(a \o b) = Len(a) + Len(b)
        /\ \A j \in 1 .. Len(a) + Len(b) :
             (a \o b)[j] = IF j <= Len(a) THEN a[j] ELSE b[j - Len(a)]
    BY <1>1, <1>2, ConcatProperties
  <2> QED
    BY <1>1, <2>1, <2>2
<1>4. \A j \in 1 .. Len(s) - 1 : j >= i => b[j - (i - 1)] = s[j + 1]
  BY <1>2
<1>5. RemoveAt(s, i) = a \o b
  BY DEF RemoveAt, a, b
<1> QED
  BY <1>1, <1>3, <1>4, <1>5

LEMMA AppendElements ==
  ASSUME NEW S, NEW s \in Seq(S), NEW e \in S, NEW i \in 1 .. Len(Append(s, e))
  PROVE  \/ i \in 1 .. Len(s) /\ Append(s, e)[i] = s[i]
         \/ i = Len(s) + 1 /\ Append(s, e)[i] = e
  BY AppendProperties, LenProperties

LEMMA TailElements ==
  ASSUME NEW S, NEW s \in Seq(S), s # <<>>, NEW i \in 1 .. Len(Tail(s))
  PROVE  i + 1 \in 1 .. Len(s) /\ Tail(s)[i] = s[i + 1]
  BY HeadTailProperties, LenProperties

-------------------------------------------------------------------------------
(* Types. *)

TypeInv == TypeOK /\ BusyInv

LEMMA TypeInit == Init => TypeInv
  BY KernelAssumption, MaxSignalsAssumption
  DEF Init, TypeInv, TypeOK, KernelTypeOK, NetTypeOK, WorkerTypeOK, BusyInv,
      KernelInit, NetInit, WorkerInit, KernelAssumption, MaxSignalsAssumption,
      SockType, Quiet

LEMMA TypePeer ==
  ASSUME TypeInv, Peer
  PROVE  KernelTypeOK' /\ \A c \in Conns : recvd'[c] <= sent'[c]
<1> USE DEF TypeInv, TypeOK, KernelTypeOK, BusyInv
<1> PICK c \in Conns : \/ Connect(c)
                       \/ \E n \in 1 .. MaxSent : Send(c, n)
                       \/ Finish(c)
                       \/ Reset(c)
  BY DEF Peer
<1>1. CASE Connect(c)
  BY <1>1 DEF Connect, SockType, TypeOf
<1>2. CASE \E n \in 1 .. MaxSent : Send(c, n)
  BY <1>2, KernelAssumption DEF Send, KernelAssumption
<1>3. CASE Finish(c)
  BY <1>3 DEF Finish
<1>4. CASE Reset(c)
  BY <1>4 DEF Reset
<1> QED
  BY <1>1, <1>2, <1>3, <1>4

LEMMA RegisterType ==
  ASSUME NetTypeOK, NEW fd \in Fds, Register(fd)
  PROVE  /\ clients' \in [SockType -> SUBSET Fds]
         /\ clientFds' \in [SockType -> Seq(Fds)]
<1>1. Append(clientFds[sock], fd) \in Seq(Fds)
  BY AppendProperties DEF NetTypeOK
<1> QED
  BY <1>1 DEF NetTypeOK, Register

LEMMA TypeSocketLoop ==
  ASSUME TypeInv, SocketLoop
  PROVE  KernelTypeOK' /\ NetTypeOK' /\ UNCHANGED <<sent, recvd>>
<1> USE DEF TypeInv, TypeOK, KernelTypeOK, NetTypeOK
<1>1. CASE AcceptClient
  <2>1. PICK fd \in ClientFd : /\ mfd' = [mfd EXCEPT ![fd] = Head(backlog[sock])]
                               /\ Register(fd)
    BY <1>1 DEF AcceptClient
  <2>2. Head(backlog[sock]) \in Conns /\ Tail(backlog[sock]) \in Seq(Conns)
    BY <1>1, HeadTailProperties DEF AcceptClient
  <2>3. mfd' \in [ClientFd -> Conns \cup {NoConn}]
    BY <2>1, <2>2
  <2>4. backlog' \in [SockType -> Seq(Conns)]
    BY <1>1, <2>2 DEF AcceptClient
  <2> QED
    BY <1>1, <2>1, <2>3, <2>4, RegisterType DEF AcceptClient, Fds
<1>2. CASE AcceptFails
  BY <1>2, RegisterType DEF AcceptFails, Fds, kernelVars
<1>3. CASE NothingToAccept
  BY <1>3 DEF NothingToAccept, kernelVars
<1>4. CASE PollClients
  BY <1>4 DEF PollClients, Pending, Event, kernelVars
<1>5. CASE NoEvent
  BY <1>5 DEF NoEvent, LoopReturns, kernelVars, SockType, Quiet
<1>6. CASE ScanEntry
  <2>1. it \in 1 .. Len(clientFds[sock]) /\ ScanFd \in Fds
    BY <1>6, ElementOfSeq DEF ScanEntry, ScanFd
  <2>2. Seen \in {"none", "in", "err"} /\ (Seen # "none" => ScanFd \in ClientFd)
    BY <2>1 DEF Seen, Fds
  <2>3. KernelTypeOK' /\ mpc' \in {"scan", "crashed"} /\ UNCHANGED <<sent, recvd, sock, revents>>
    BY <1>6, <2>2 DEF ScanEntry, Disconnect, NewInput, NextEntry, kernelVars
  <2>4. CASE UNCHANGED <<clients, clientFds, req, it>>
    BY <2>3, <2>4
  <2>5. CASE Disconnect
    <3>1. RemoveAt(clientFds[sock], it) \in Seq(Fds)
      BY <2>1, RemoveAtType
    <3> QED
      BY <2>3, <2>5, <3>1 DEF Disconnect
  <2>6. CASE NewInput /\ Seen = "in"
    <3>1. [fd |-> ScanFd, type |-> sock] \in Request
      BY <2>2, <2>6 DEF Request
    <3>2. Append(req[sock], [fd |-> ScanFd, type |-> sock]) \in Seq(Request)
      BY <3>1, AppendProperties
    <3> QED
      BY <2>3, <2>6, <3>2 DEF NewInput
  <2>7. CASE NextEntry
    BY <2>3, <2>7 DEF NextEntry
  <2> QED
    BY <1>6, <2>2, <2>4, <2>5, <2>6, <2>7 DEF ScanEntry
<1>7. CASE ScanDone
  BY <1>7 DEF ScanDone, LoopReturns, kernelVars, SockType, Quiet
<1> QED
  BY <1>1, <1>2, <1>3, <1>4, <1>5, <1>6, <1>7 DEF SocketLoop

LEMMA TypeBalancer ==
  ASSUME TypeInv, BalancerStep
  PROVE  KernelTypeOK' /\ NetTypeOK' /\ UNCHANGED <<sent, recvd, workerVars>>
<1> USE DEF TypeInv, TypeOK, KernelTypeOK, NetTypeOK
<1>1. CASE SendToWorker
  <2> DEFINE r == Head(req[sock])
             m == [fd |-> r.fd, type |-> r.type, conn |-> mfd[r.fd]]
  <2>1. r \in Request /\ Tail(req[sock]) \in Seq(Request)
    BY <1>1, HeadTailProperties DEF SendToWorker
  <2>2. m \in Message /\ Shard(r.fd) \in Workers
    BY <1>1, <2>1, ShardInRange DEF SendToWorker, Deliverable, Request, Message
  <2>3. Append(chan[Shard(r.fd)], m) \in Seq(Message)
    BY <2>2, AppendProperties
  <2>4. chan' = [chan EXCEPT ![Shard(r.fd)] = Append(@, m)]
    BY <1>1 DEF SendToWorker
  <2> HIDE DEF r, m
  <2>5. chan' \in [Workers -> Seq(Message)]
    BY <2>2, <2>3, <2>4
  <2>6. req' \in [SockType -> Seq(Request)]
    BY <1>1, <2>1 DEF SendToWorker, PopFrontReq
  <2> QED
    BY <1>1, <2>5, <2>6 DEF SendToWorker, peerVars
<1>2. CASE SendFails
  BY <1>2 DEF SendFails, PopFrontReq, kernelVars
<1>3. CASE Balanced
  BY <1>3 DEF Balanced, kernelVars, SockType
<1> QED
  BY <1>1, <1>2, <1>3 DEF BalancerStep

\* The end of a worker, or of a request, leaves types and busy workers in order.
LEMMA DieType ==
  ASSUME TypeInv, NEW w \in Workers, Die(w), UNCHANGED <<peerVars, recvd, answers, backlog, mfd>>
  PROVE  KernelTypeOK' /\ WorkerTypeOK' /\ BusyInv'
<1> USE DEF TypeInv, TypeOK, KernelTypeOK, WorkerTypeOK
<1>1. KernelTypeOK'
  BY DEF Die, peerVars
<1>2. WorkerTypeOK'
  BY DEF Die, SockType
<1>3. BusyInv'
  BY DEF Die, BusyInv, peerVars
<1> QED
  BY <1>1, <1>2, <1>3

LEMMA ResetType ==
  ASSUME TypeInv, NEW w \in Workers, ResetClient(w), leaked' \in [Workers -> Nat]
  PROVE  /\ WorkerTypeOK'
         /\ UNCHANGED <<sent, recvd>> => BusyInv'
<1> USE DEF TypeInv, TypeOK, WorkerTypeOK
<1>1. WorkerTypeOK'
  BY DEF ResetClient, SockType
<1>2. UNCHANGED <<sent, recvd>> => BusyInv'
  BY DEF ResetClient, BusyInv
<1> QED
  BY <1>1, <1>2

LEMMA TypeReceivFd ==
  ASSUME TypeInv, RoutingInv, NEW w \in Workers, ReceivFd(w)
  PROVE  KernelTypeOK' /\ WorkerTypeOK' /\ BusyInv'
<1> USE DEF TypeInv, TypeOK, KernelTypeOK, WorkerTypeOK
<1> DEFINE msg == Head(chan[w])
           n == Len(wfds[w])
<1>1. msg \in Message /\ Tail(chan[w]) \in Seq(Message)
  BY HeadTailProperties DEF ReceivFd
<1>2. /\ Append(wfds[w], msg.conn) \in Seq(Conns)
      /\ Len(Append(wfds[w], msg.conn)) = n + 1
      /\ n \in Nat
  BY <1>1, AppendProperties, SMTT(30) DEF Message
<1>3. /\ wfds' = [wfds EXCEPT ![w] = Append(@, msg.conn)]
      /\ HistoryClient(w, msg, n + 1)
      /\ chan' = [chan EXCEPT ![w] = Tail(@)]
      /\ wpc' = [wpc EXCEPT ![w] = IF msg.type = "PLAIN" THEN "recv" ELSE "handshake1"]
      /\ UNCHANGED <<link, sent, recvd, answers, backlog, mfd, got, leaked>>
  BY DEF ReceivFd, peerVars
<1>4. hist[w][msg.fd] \in 0 .. n
  <2>1. msg.fd \in ClientFd
    BY <1>1 DEF Message
  <2>2. hist[w][msg.fd] # 0 => hist[w][msg.fd] \in 1 .. n
    BY <2>1 DEF RoutingInv, HeldInv
  <2> HIDE DEF msg, n
  <2> QED
    BY <1>2, <2>2
<1> HIDE DEF msg, n
<1>5. KernelTypeOK'
  BY <1>1, <1>3
<1> DEFINE fd == IF hist[w][msg.fd] = 0 THEN n + 1 ELSE hist[w][msg.fd]
<1>6. fd \in 1 .. n + 1 /\ cliFd' = [cliFd EXCEPT ![w] = [fd |-> fd, type |-> msg.type]]
  <2>1. fd \in 1 .. n + 1
    BY <1>2, <1>4
  <2>2. CASE hist[w][msg.fd] = 0
    BY <1>3, <2>1, <2>2 DEF HistoryClient
  <2>3. CASE hist[w][msg.fd] # 0
    BY <1>3, <2>1, <2>3 DEF HistoryClient
  <2> QED
    BY <2>2, <2>3
<1> HIDE DEF fd
<1>7. hist' \in [Workers -> [ClientFd -> Nat]]
  <2>1. msg.fd \in ClientFd /\ hist[w] \in [ClientFd -> Nat]
    BY <1>1 DEF Message
  <2>2. CASE UNCHANGED hist
    BY <2>2
  <2>3. CASE hist' = [hist EXCEPT ![w][msg.fd] = n + 1]
    <3>1. hist' = [hist EXCEPT ![w] = [hist[w] EXCEPT ![msg.fd] = n + 1]]
      BY <2>3
    <3>2. [hist[w] EXCEPT ![msg.fd] = n + 1] \in [ClientFd -> Nat]
      BY <1>2, <2>1
    <3> QED
      BY <3>1, <3>2
  <2> QED
    BY <1>3, <2>2, <2>3 DEF HistoryClient
<1>8. WorkerTypeOK'
  <2>1. [fd |-> fd, type |-> msg.type] \in [fd : Nat, type : SockType]
    BY <1>1, <1>2, <1>6 DEF Message
  <2> QED
    BY <1>2, <1>3, <1>6, <1>7, <2>1
<1>9. BusyInv'
  <2>1. \A v \in Workers : v # w => wfds'[v] = wfds[v] /\ wpc'[v] = wpc[v]
    BY <1>3
  <2>2. Len(wfds'[w]) = n + 1
    BY <1>2, <1>3
  <2> QED
    BY <1>3, <1>6, <2>1, <2>2 DEF BusyInv
<1> QED
  BY <1>5, <1>8, <1>9

LEMMA TypeWorkerStep ==
  ASSUME TypeInv, RoutingInv, NEW w \in Workers, WorkerStep(w)
  PROVE  KernelTypeOK' /\ WorkerTypeOK' /\ BusyInv'
<1> USE DEF TypeInv, TypeOK, KernelTypeOK, WorkerTypeOK
<1> DEFINE c == Client(w)
<1>0. wpc[w] \in {"recv", "interpret", "handshake1", "handshake2"} =>
        c \in Conns /\ Unread(c) \in 0 .. MaxSent /\ recvd[c] + Unread(c) = sent[c]
  <2> HAVE wpc[w] \in {"recv", "interpret", "handshake1", "handshake2"}
  <2>1. c \in Conns
    BY ElementOfSeq DEF BusyInv, Client
  <2> HIDE DEF c
  <2>2. recvd[c] \in 0 .. MaxSent /\ sent[c] \in 0 .. MaxSent /\ recvd[c] <= sent[c]
    BY <2>1 DEF BusyInv
  <2> QED
    BY <2>1, <2>2, KernelAssumption DEF Unread, KernelAssumption
<1>1. CASE ReceivFd(w)
  BY <1>1, TypeReceivFd
<1>2. CASE ReceivNoFd(w)
  BY <1>2, DieType DEF ReceivNoFd
<1>3. CASE Recv(w)
  <2> DEFINE bytes == IF Unread(c) < BuffSize THEN Unread(c) ELSE BuffSize
  <2>1. bytes \in 0 .. MaxSent /\ recvd[c] + bytes <= sent[c] /\ c \in Conns
    BY <1>0, <1>3, KernelAssumption, SMTT(30) DEF Recv, KernelAssumption
  <2>2. /\ recvd' = [recvd EXCEPT ![c] = @ + bytes]
        /\ got' = [got EXCEPT ![w] = @ + bytes]
        /\ wpc' = [wpc EXCEPT ![w] = IF bytes = BuffSize THEN "recv" ELSE "interpret"]
        /\ UNCHANGED <<link, sent, answers, backlog, mfd, chan, wfds, hist, cliFd, leaked>>
    BY <1>3 DEF Recv, peerVars
  <2>3. wpc[w] = "recv"
    BY <1>3 DEF Recv
  <2> HIDE DEF bytes, c
  <2>4. KernelTypeOK'
    <3>1. recvd[c] + bytes \in 0 .. MaxSent
      BY <2>1, KernelAssumption DEF KernelAssumption
    <3> QED
      BY <2>1, <2>2, <3>1
  <2>5. WorkerTypeOK'
    BY <2>1, <2>2, SMTT(30)
  <2>6. BusyInv'
    BY <2>1, <2>2, <2>3 DEF BusyInv
  <2> QED
    BY <2>4, <2>5, <2>6
<1>4. CASE Interpret(w)
  <2>1. /\ UNCHANGED <<link, sent, recvd, backlog, mfd, chan>>
        /\ answers' = [answers EXCEPT ![c] = IF link[c] = "reset" THEN @ ELSE @ + 1]
    BY <1>4 DEF Interpret, peerVars
  <2> HIDE DEF c
  <2>a. answers' \in [Conns -> Nat]
    <3>1. c \in Conns
      BY <1>0, <1>4 DEF Interpret
    <3>2. (IF link[c] = "reset" THEN answers[c] ELSE answers[c] + 1) \in Nat
      BY <3>1
    <3> QED
      BY <2>1, <3>1, <3>2
  <2>b. leaked' \in [Workers -> Nat]
    BY <1>4 DEF Interpret, ViewDirectory
  <2>2. KernelTypeOK' /\ UNCHANGED <<sent, recvd>>
    BY <2>1, <2>a
  <2> QED
    BY <1>4, <2>2, <2>b, ResetType DEF Interpret
<1>5. CASE InterpretCrash(w)
  BY <1>5, DieType DEF InterpretCrash
<1>6. CASE Handshake(w)
  <2>1. PICK bytes \in 0 .. Unread(c) : recvd' = [recvd EXCEPT ![c] = @ + bytes]
    BY <1>6 DEF Handshake
  <2>2. c \in Conns /\ recvd[c] + bytes <= sent[c] /\ bytes \in Nat
    BY <1>0, <1>6, <2>1 DEF Handshake
  <2>3. UNCHANGED <<link, sent, answers, backlog, mfd, chan>>
    BY <1>6 DEF Handshake, peerVars
  <2>4. wpc[w] \in {"handshake1", "handshake2"}
    BY <1>6 DEF Handshake
  <2> HIDE DEF c
  <2>a. recvd[c] + bytes \in 0 .. MaxSent
    <3>1. recvd[c] \in 0 .. MaxSent /\ sent[c] \in 0 .. MaxSent
      BY <2>2
    <3> QED
      BY <2>2, <3>1, KernelAssumption DEF KernelAssumption
  <2>b. recvd' \in [Conns -> 0 .. MaxSent] /\ \A d \in Conns : recvd'[d] <= sent[d]
    BY <2>1, <2>2, <2>a DEF BusyInv
  <2>5. KernelTypeOK' /\ \A d \in Conns : recvd'[d] <= sent'[d]
    BY <2>3, <2>b
  <2>6. CASE UNCHANGED <<wpc, wfds, hist, cliFd, got, leaked>>
    BY <2>5, <2>6 DEF BusyInv
  <2>7. CASE /\ wpc' = [wpc EXCEPT ![w] = "handshake2"]
             /\ UNCHANGED <<wfds, hist, cliFd, got, leaked>>
    BY <2>4, <2>5, <2>7 DEF BusyInv
  <2>8. CASE ResetClient(w)
    <3>1. WorkerTypeOK'
      BY <1>6, <2>8, ResetType DEF Handshake
    <3>2. BusyInv'
      BY <2>5, <2>8 DEF ResetClient, BusyInv
    <3> QED
      BY <2>5, <3>1, <3>2
  <2> QED
    BY <1>6, <2>6, <2>7, <2>8 DEF Handshake
<1>7. CASE NoSslModule(w)
  <2>1. CASE Die(w)
    BY <1>7, <2>1, DieType DEF NoSslModule
  <2>2. CASE ResetClient(w) /\ UNCHANGED <<chan, leaked>>
    BY <1>7, <2>2, ResetType DEF NoSslModule, peerVars
  <2> QED
    BY <1>7, <2>1, <2>2 DEF NoSslModule
<1> QED
  BY <1>1, <1>2, <1>3, <1>4, <1>5, <1>6, <1>7 DEF WorkerStep

-------------------------------------------------------------------------------
(* Routing: what each kind of step does to the four parts of RoutingInv. *)

LEMMA RoutingInit == Init => RoutingInv
  BY KernelAssumption
  DEF Init, KernelInit, NetInit, WorkerInit, RoutingInv, TableInv, MasterInv,
      ChanInv, HeldInv, KernelAssumption

\* A client's step can only bring a new connection to the end of a queue.
LEMMA TablePeer ==
  ASSUME TypeInv, TableInv, Peer
  PROVE  TableInv' /\ UNCHANGED <<mfd, chan>>
<1>t. /\ backlog \in [SockType -> Seq(Conns)]
      /\ link \in [Conns -> {"none", "open", "fin", "reset"}]
      /\ mfd \in [ClientFd -> Conns \cup {NoConn}]
  BY DEF TypeInv, TypeOK, KernelTypeOK
<1> PICK c \in Conns : \/ Connect(c)
                       \/ \E n \in 1 .. MaxSent : Send(c, n)
                       \/ Finish(c)
                       \/ Reset(c)
  BY DEF Peer
<1>1. CASE Connect(c)
  <2>1. /\ link[c] = "none" /\ TypeOf(c) \in SockType
        /\ link' = [link EXCEPT ![c] = "open"]
        /\ backlog' = [backlog EXCEPT ![TypeOf(c)] = Append(@, c)]
        /\ UNCHANGED <<mfd, chan>>
    BY <1>1 DEF Connect, TypeOf, SockType
  <2>2. \A f \in ClientFd : mfd[f] # c
    BY <2>1, KernelAssumption DEF TableInv, KernelAssumption
  <2>3. \A s \in SockType : \A i \in 1 .. Len(backlog[s]) : backlog[s][i] # c
    BY <2>1 DEF TableInv
  <2>4. link'[c] # "none" /\ \A d \in Conns : link[d] # "none" => link'[d] # "none"
    BY <1>t, <2>1
  <2>5. ASSUME NEW s \in SockType, NEW i \in 1 .. Len(backlog'[s])
        PROVE  \/ s = TypeOf(c) /\ i = Len(backlog[s]) + 1 /\ backlog'[s][i] = c
               \/ i \in 1 .. Len(backlog[s]) /\ backlog'[s][i] = backlog[s][i]
    <3>1. CASE s = TypeOf(c)
      <4>1. backlog'[s] = Append(backlog[s], c) /\ backlog[s] \in Seq(Conns)
        BY <1>t, <2>1, <3>1
      <4> QED
        BY <3>1, <4>1, AppendElements
    <3>2. CASE s # TypeOf(c)
      BY <1>t, <2>1, <3>2
    <3> QED
      BY <3>1, <3>2
  <2>6. ASSUME NEW s \in SockType, NEW i \in 1 .. Len(backlog'[s])
        PROVE  /\ link'[backlog'[s][i]] # "none"
               /\ TypeOf(backlog'[s][i]) = s
               /\ \A f \in ClientFd : mfd'[f] # backlog'[s][i]
               /\ \A j \in 1 .. Len(backlog'[s]) : backlog'[s][i] = backlog'[s][j] => i = j
    <3>1. CASE s = TypeOf(c) /\ i = Len(backlog[s]) + 1 /\ backlog'[s][i] = c
      BY <2>1, <2>2, <2>3, <2>4, <2>5, <3>1
    <3>2. CASE i \in 1 .. Len(backlog[s]) /\ backlog'[s][i] = backlog[s][i]
      <4>1. /\ link[backlog[s][i]] # "none" /\ TypeOf(backlog[s][i]) = s
            /\ \A f \in ClientFd : mfd[f] # backlog[s][i]
            /\ \A j \in 1 .. Len(backlog[s]) : backlog[s][i] = backlog[s][j] => i = j
        BY <3>2 DEF TableInv
      <4>2. backlog[s][i] \in Conns /\ backlog[s][i] # c
        BY <1>t, <2>3, <3>2, ElementOfSeq
      <4>3. \A j \in 1 .. Len(backlog'[s]) : backlog'[s][i] = backlog'[s][j] => i = j
        BY <2>5, <3>2, <4>1, <4>2
      <4> QED
        BY <2>1, <2>4, <3>2, <4>1, <4>2, <4>3
    <3> QED
      BY <2>5, <3>1, <3>2
  <2>7. ASSUME NEW f \in ClientFd, mfd[f] # NoConn
        PROVE  link'[mfd[f]] # "none"
    <3>1. link[mfd[f]] # "none" /\ mfd[f] \in Conns
      BY <1>t, <2>7 DEF TableInv
    <3> QED
      BY <2>4, <3>1
  <2>8. \A f, g \in ClientFd : mfd'[f] # NoConn /\ mfd'[f] = mfd'[g] => f = g
    BY <2>1 DEF TableInv
  <2> QED
    BY <2>1, <2>6, <2>7, <2>8 DEF TableInv
<1>2. CASE \E n \in 1 .. MaxSent : Send(c, n)
  BY <1>2 DEF Send, TableInv
<1>3. CASE Finish(c) \/ Reset(c)
  <2>1. /\ \A d \in Conns : link[d] # "none" => link'[d] # "none"
        /\ UNCHANGED <<backlog, mfd, chan>>
    BY <1>t, <1>3 DEF Finish, Reset
  <2>2. \A s \in SockType : \A i \in 1 .. Len(backlog[s]) : backlog[s][i] \in Conns
    BY <1>t, ElementOfSeq
  <2>3. \A s \in SockType : \A i \in 1 .. Len(backlog[s]) : link'[backlog[s][i]] # "none"
    BY <2>1, <2>2 DEF TableInv
  <2>4. \A f \in ClientFd : mfd[f] # NoConn => link'[mfd[f]] # "none"
    BY <1>t, <2>1 DEF TableInv
  <2> QED
    BY <2>1, <2>3, <2>4 DEF TableInv
<1> QED
  BY <1>1, <1>2, <1>3

\* accept gives a queued connection a number that nothing mentions yet.
LEMMA RoutingAccept ==
  ASSUME TypeInv, RoutingInv, AcceptClient, UNCHANGED workerVars
  PROVE  RoutingInv'
<1>t. /\ backlog \in [SockType -> Seq(Conns)]
      /\ mfd \in [ClientFd -> Conns \cup {NoConn}]
      /\ chan \in [Workers -> Seq(Message)]
      /\ clientFds \in [SockType -> Seq(Fds)]
      /\ req \in [SockType -> Seq(Request)]
      /\ sock \in SockType
      /\ wfds \in [Workers -> Seq(Conns)]
  BY DEF TypeInv, TypeOK, KernelTypeOK, NetTypeOK, WorkerTypeOK
<1> DEFINE c == Head(backlog[sock])
<1>1. PICK fd \in ClientFd : /\ mfd[fd] = NoConn
                             /\ mfd' = [mfd EXCEPT ![fd] = c]
                             /\ Register(fd)
  BY DEF AcceptClient, LowestFree
<1>2. /\ backlog[sock] # <<>> /\ backlog' = [backlog EXCEPT ![sock] = Tail(@)]
      /\ UNCHANGED <<link, chan, req, wfds, hist, sock>>
  BY DEF AcceptClient, workerVars
<1>3. c \in Conns /\ c = backlog[sock][1] /\ 1 \in 1 .. Len(backlog[sock])
  BY <1>t, <1>2, HeadTailProperties, LenProperties
<1>4. /\ link[c] # "none" /\ TypeOf(c) = sock
      /\ \A f \in ClientFd : mfd[f] # c
      /\ \A j \in 1 .. Len(backlog[sock]) : backlog[sock][j] = c => j = 1
  BY <1>t, <1>3 DEF RoutingInv, TableInv
<1> HIDE DEF c
<1>5. /\ mfd'[fd] = c /\ c # NoConn
      /\ \A f \in ClientFd : f # fd => mfd'[f] = mfd[f]
      /\ \A f \in ClientFd : mfd[f] # NoConn => mfd'[f] = mfd[f]
  BY <1>t, <1>1, <1>3, KernelAssumption DEF KernelAssumption
<1>6. TableInv'
  <2>1. ASSUME NEW s \in SockType, NEW i \in 1 .. Len(backlog'[s])
        PROVE  \/ /\ s = sock /\ i + 1 \in 1 .. Len(backlog[s])
                  /\ backlog'[s][i] = backlog[s][i + 1]
               \/ /\ s # sock /\ i \in 1 .. Len(backlog[s])
                  /\ backlog'[s][i] = backlog[s][i]
    <3>1. CASE s = sock
      <4>1. backlog'[s] = Tail(backlog[s]) /\ backlog[s] \in Seq(Conns) /\ backlog[s] # <<>>
        BY <1>t, <1>2, <3>1
      <4> QED
        BY <3>1, <4>1, TailElements
    <3>2. CASE s # sock
      BY <1>t, <1>2, <3>2
    <3> QED
      BY <3>1, <3>2
  <2>2. ASSUME NEW s \in SockType, NEW i \in 1 .. Len(backlog'[s])
        PROVE  /\ link'[backlog'[s][i]] # "none"
               /\ TypeOf(backlog'[s][i]) = s
               /\ \A f \in ClientFd : mfd'[f] # backlog'[s][i]
               /\ \A j \in 1 .. Len(backlog'[s]) : backlog'[s][i] = backlog'[s][j] => i = j
    <3>1. CASE s = sock /\ i + 1 \in 1 .. Len(backlog[s]) /\ backlog'[s][i] = backlog[s][i + 1]
      <4>1. /\ link[backlog[s][i + 1]] # "none" /\ TypeOf(backlog[s][i + 1]) = s
            /\ \A f \in ClientFd : mfd[f] # backlog[s][i + 1]
            /\ \A j \in 1 .. Len(backlog[s]) :
                 backlog[s][i + 1] = backlog[s][j] => i + 1 = j
        BY <3>1 DEF RoutingInv, TableInv
      <4>2. backlog[s][i + 1] # c
        BY <1>4, <3>1
      <4>3. ASSUME NEW j \in 1 .. Len(backlog'[s]), backlog'[s][i] = backlog'[s][j]
            PROVE  i = j
        BY <2>1, <3>1, <4>1, <4>3
      <4> QED
        BY <1>2, <1>5, <3>1, <4>1, <4>2, <4>3
    <3>2. CASE s # sock /\ i \in 1 .. Len(backlog[s]) /\ backlog'[s][i] = backlog[s][i]
      <4>1. /\ link[backlog[s][i]] # "none" /\ TypeOf(backlog[s][i]) = s
            /\ \A f \in ClientFd : mfd[f] # backlog[s][i]
            /\ \A j \in 1 .. Len(backlog[s]) : backlog[s][i] = backlog[s][j] => i = j
        BY <3>2 DEF RoutingInv, TableInv
      <4>2. backlog[s][i] # c
        BY <1>4, <3>2, <4>1
      <4>3. ASSUME NEW j \in 1 .. Len(backlog'[s]), backlog'[s][i] = backlog'[s][j]
            PROVE  i = j
        BY <2>1, <3>2, <4>1, <4>3
      <4> QED
        BY <1>2, <1>5, <3>2, <4>1, <4>2, <4>3
    <3> QED
      BY <2>1, <3>1, <3>2
  <2>3. \A f, g \in ClientFd : mfd'[f] # NoConn /\ mfd'[f] = mfd'[g] => f = g
    BY <1>4, <1>5 DEF RoutingInv, TableInv
  <2>4. \A f \in ClientFd : mfd'[f] # NoConn => link'[mfd'[f]] # "none"
    BY <1>2, <1>4, <1>5 DEF RoutingInv, TableInv
  <2> QED
    BY <2>2, <2>3, <2>4 DEF TableInv
<1>7. /\ mfd'[fd] # NoConn /\ TypeOf(mfd'[fd]) = sock
      /\ \A f \in ClientFd, s \in SockType :
           Registered(f, s) => mfd'[f] # NoConn /\ TypeOf(mfd'[f]) = s
  BY <1>2, <1>4, <1>5 DEF Registered
<1>8. MasterInv'
  <2>1. ASSUME NEW s \in SockType, NEW i \in 1 .. Len(clientFds'[s]), clientFds'[s][i] # NoFd
        PROVE  mfd'[clientFds'[s][i]] # NoConn /\ TypeOf(mfd'[clientFds'[s][i]]) = s
    <3>1. \/ i \in 1 .. Len(clientFds[s]) /\ clientFds'[s][i] = clientFds[s][i]
          \/ s = sock /\ clientFds'[s][i] = fd
      <4>1. CASE s = sock
        <5>1. clientFds'[s] = Append(clientFds[s], fd) /\ clientFds[s] \in Seq(Fds) /\ fd \in Fds
          BY <1>t, <1>1, <4>1 DEF Register, Fds
        <5> QED
          BY <4>1, <5>1, AppendElements
      <4>2. CASE s # sock
        BY <1>t, <1>1, <4>2 DEF Register
      <4> QED
        BY <4>1, <4>2
    <3>2. CASE i \in 1 .. Len(clientFds[s]) /\ clientFds'[s][i] = clientFds[s][i]
      <4>1. clientFds[s][i] \in ClientFd
        BY <1>t, <2>1, <3>2, ElementOfSeq DEF Fds
      <4>2. Registered(clientFds[s][i], s)
        BY <2>1, <3>2 DEF RoutingInv, MasterInv
      <4> QED
        BY <1>7, <3>2, <4>1, <4>2
    <3> QED
      BY <1>2, <1>7, <3>1, <3>2
  <2>2. ASSUME NEW s \in SockType, NEW i \in 1 .. Len(req'[s])
        PROVE  /\ mfd'[req'[s][i].fd] # NoConn /\ TypeOf(mfd'[req'[s][i].fd]) = s
               /\ req'[s][i].type = s
    <3>1. i \in 1 .. Len(req[s]) /\ req[s][i].fd \in ClientFd
      <4>1. i \in 1 .. Len(req[s]) /\ req[s] \in Seq(Request)
        BY <1>t, <1>2
      <4>2. req[s][i] \in Request
        BY <4>1, ElementOfSeq
      <4> QED
        BY <4>1, <4>2 DEF Request
    <3>2. Registered(req[s][i].fd, s) /\ req[s][i].type = s
      BY <3>1 DEF RoutingInv, MasterInv
    <3> QED
      BY <1>2, <1>7, <3>1, <3>2
  <2> QED
    BY <2>1, <2>2 DEF MasterInv, Registered
<1>9. ChanInv'
  <2>1. ASSUME NEW w \in Workers, NEW i \in 1 .. Len(chan[w])
        PROVE  mfd'[chan[w][i].fd] = mfd[chan[w][i].fd]
    <3>1. chan[w][i].fd \in ClientFd /\ chan[w][i].conn \in Conns
      <4>1. chan[w] \in Seq(Message)
        BY <1>t
      <4>2. chan[w][i] \in Message
        BY <4>1, ElementOfSeq
      <4> QED
        BY <4>2 DEF Message
    <3>2. chan[w][i].conn = mfd[chan[w][i].fd]
      BY DEF RoutingInv, ChanInv
    <3> QED
      BY <1>5, <3>1, <3>2, KernelAssumption DEF KernelAssumption
  <2> QED
    BY <1>2, <2>1 DEF RoutingInv, ChanInv, Shard
<1>10. HeldInv'
  <2>1. ASSUME NEW f \in ClientFd, mfd[f] \in Conns
        PROVE  mfd'[f] = mfd[f]
    BY <1>5, <2>1, KernelAssumption DEF KernelAssumption
  <2>2. \A w \in Workers : \A i \in 1 .. Len(wfds[w]) : wfds[w][i] \in Conns
    BY <1>t, ElementOfSeq
  <2>3. ASSUME NEW w \in Workers, NEW i \in 1 .. Len(wfds[w])
        PROVE  \E f \in ClientFd : mfd'[f] = wfds[w][i] /\ Shard(f) = w
    BY <2>1, <2>2 DEF RoutingInv, HeldInv
  <2>4. ASSUME NEW w \in Workers, NEW f \in ClientFd, hist[w][f] # 0
        PROVE  hist[w][f] \in 1 .. Len(wfds[w]) /\ wfds[w][hist[w][f]] = mfd'[f]
    BY <2>1, <2>2, <2>4 DEF RoutingInv, HeldInv
  <2> QED
    BY <1>2, <2>3, <2>4 DEF HeldInv, Shard
<1> QED
  BY <1>6, <1>8, <1>9, <1>10 DEF RoutingInv

\* A part of the invariant stands while the variables it reads do.
LEMMA RoutingSame ==
  ASSUME RoutingInv
  PROVE  /\ UNCHANGED <<link, backlog, mfd>> => TableInv'
         /\ UNCHANGED <<clientFds, req, mfd>> => MasterInv'
         /\ UNCHANGED <<chan, mfd>> => ChanInv'
         /\ UNCHANGED <<wfds, hist, mfd>> => HeldInv'
<1>1. UNCHANGED <<link, backlog, mfd>> => TableInv'
  BY DEF RoutingInv, TableInv
<1>2. UNCHANGED <<clientFds, req, mfd>> => MasterInv'
  BY DEF RoutingInv, MasterInv, Registered
<1>3. UNCHANGED <<chan, mfd>> => ChanInv'
  BY DEF RoutingInv, ChanInv, Shard
<1>4. UNCHANGED <<wfds, hist, mfd>> => HeldInv'
  BY DEF RoutingInv, HeldInv, Shard
<1> QED
  BY <1>1, <1>2, <1>3, <1>4

\* Polling, scanning and disconnecting only shorten the poll list, or copy an
\* entry of it to the request list.
LEMMA MasterScan ==
  ASSUME TypeInv, RoutingInv, ScanEntry
  PROVE  MasterInv' /\ UNCHANGED kernelVars
<1>t. /\ clientFds \in [SockType -> Seq(Fds)]
      /\ req \in [SockType -> Seq(Request)]
      /\ sock \in SockType
      /\ it \in 1 .. Len(clientFds[sock])
      /\ revents \in [ClientFd -> {"none", "in", "err"}]
  BY DEF TypeInv, TypeOK, NetTypeOK, ScanEntry
<1>1. ScanFd \in Fds /\ (ScanFd # NoFd => Registered(ScanFd, sock))
  BY <1>t, ElementOfSeq DEF ScanFd, RoutingInv, MasterInv
<1>2. CASE UNCHANGED <<clientFds, req, mfd>> /\ UNCHANGED kernelVars
  BY <1>2, RoutingSame
<1>3. CASE Disconnect
  <2>1. /\ clientFds' = [clientFds EXCEPT ![sock] = RemoveAt(@, it)]
        /\ UNCHANGED <<req, mfd>> /\ UNCHANGED kernelVars
    BY <1>3 DEF Disconnect, kernelVars
  <2>2. ASSUME NEW s \in SockType, NEW i \in 1 .. Len(clientFds'[s])
        PROVE  \E j \in 1 .. Len(clientFds[s]) : clientFds'[s][i] = clientFds[s][j]
    <3>1. CASE s = sock
      <4>1. clientFds'[s] = RemoveAt(clientFds[s], it) /\ clientFds[s] \in Seq(Fds)
        BY <1>t, <2>1, <3>1
      <4>2. /\ i \in 1 .. Len(clientFds[s]) - 1
            /\ clientFds'[s][i] = IF i < it THEN clientFds[s][i] ELSE clientFds[s][i + 1]
        BY <1>t, <3>1, <4>1, RemoveAtType
      <4>3. Len(clientFds[s]) \in Nat
        BY <4>1
      <4> QED
        BY <4>2, <4>3
    <3>2. CASE s # sock
      BY <1>t, <2>1, <3>2
    <3> QED
      BY <3>1, <3>2
  <2>3. ASSUME NEW s \in SockType, NEW i \in 1 .. Len(clientFds'[s]), clientFds'[s][i] # NoFd
        PROVE  mfd'[clientFds'[s][i]] # NoConn /\ TypeOf(mfd'[clientFds'[s][i]]) = s
    BY <2>1, <2>2, <2>3 DEF RoutingInv, MasterInv, Registered
  <2> QED
    BY <2>1, <2>3 DEF RoutingInv, MasterInv, Registered
<1>4. CASE NewInput /\ Seen = "in"
  <2> DEFINE r == [fd |-> ScanFd, type |-> sock]
  <2>1. /\ req' = [req EXCEPT ![sock] = Append(@, r)]
        /\ UNCHANGED <<clientFds, mfd>> /\ UNCHANGED kernelVars
    BY <1>4 DEF NewInput, kernelVars
  <2>2. ScanFd # NoFd
    BY <1>4 DEF Seen
  <2>3. r \in Request /\ mfd[r.fd] # NoConn /\ TypeOf(mfd[r.fd]) = sock /\ r.type = sock
    BY <1>1, <1>t, <2>2 DEF Request, Fds, Registered
  <2> HIDE DEF r
  <2>4. ASSUME NEW s \in SockType, NEW i \in 1 .. Len(req'[s])
        PROVE  /\ mfd'[req'[s][i].fd] # NoConn /\ TypeOf(mfd'[req'[s][i].fd]) = s
               /\ req'[s][i].type = s
    <3>1. CASE s = sock
      <4>1. req'[s] = Append(req[s], r) /\ req[s] \in Seq(Request)
        BY <1>t, <2>1, <3>1
      <4>2. \/ i \in 1 .. Len(req[s]) /\ req'[s][i] = req[s][i]
            \/ req'[s][i] = r
        BY <2>3, <4>1, AppendElements
      <4> QED
        BY <2>1, <2>3, <3>1, <4>2 DEF RoutingInv, MasterInv, Registered
    <3>2. CASE s # sock
      BY <1>t, <2>1, <3>2 DEF RoutingInv, MasterInv, Registered
    <3> QED
      BY <3>1, <3>2
  <2> QED
    BY <2>1, <2>4 DEF RoutingInv, MasterInv, Registered
<1>5. Seen \in {"none", "in", "err"}
  BY <1>t, <1>1 DEF Seen, Fds
<1>6. CASE ScanFd \notin clients[sock]
  BY <1>2, <1>6 DEF ScanEntry, kernelVars
<1>7. CASE NextEntry
  BY <1>2, <1>7 DEF NextEntry, kernelVars
<1>8. CASE ScanFd \in clients[sock]
  <2>1. CASE Seen = "err"
    <3>1. Disconnect
      BY <1>8, <2>1 DEF ScanEntry
    <3> QED
      BY <1>3, <3>1
  <2>2. CASE Seen = "in"
    <3>1. NewInput
      BY <1>8, <2>2 DEF ScanEntry
    <3> QED
      BY <1>4, <2>2, <3>1
  <2>3. CASE Seen = "none"
    <3>1. NextEntry
      BY <1>8, <2>3 DEF ScanEntry
    <3> QED
      BY <1>7, <3>1
  <2> QED
    BY <1>5, <2>1, <2>2, <2>3
<1> QED
  BY <1>6, <1>8

LEMMA RoutingSocketLoop ==
  ASSUME TypeInv, RoutingInv, SocketLoop, UNCHANGED workerVars
  PROVE  RoutingInv'
<1>1. CASE AcceptClient
  BY <1>1, RoutingAccept
<1>2. CASE AcceptFails
  <2>1. UNCHANGED kernelVars /\ UNCHANGED req /\ (UNCHANGED clientFds \/ Register(NoFd))
    BY <1>2 DEF AcceptFails
  <2>2. clientFds \in [SockType -> Seq(Fds)] /\ sock \in SockType /\ NoFd \in Fds
    BY DEF TypeInv, TypeOK, NetTypeOK, Fds
  <2>3. CASE Register(NoFd)
    <3>1. ASSUME NEW s \in SockType, NEW i \in 1 .. Len(clientFds'[s]), clientFds'[s][i] # NoFd
          PROVE  i \in 1 .. Len(clientFds[s]) /\ clientFds'[s][i] = clientFds[s][i]
      <4>1. CASE s = sock
        <5>1. clientFds'[s] = Append(clientFds[s], NoFd) /\ clientFds[s] \in Seq(Fds)
          BY <2>2, <2>3, <4>1 DEF Register
        <5> QED
          BY <2>2, <3>1, <5>1, AppendElements
      <4>2. CASE s # sock
        BY <2>2, <2>3, <4>2 DEF Register
      <4> QED
        BY <4>1, <4>2
    <3>2. MasterInv'
      BY <2>1, <3>1 DEF RoutingInv, MasterInv, Registered, kernelVars
    <3> QED
      BY <2>1, <3>2, RoutingSame DEF RoutingInv, kernelVars, workerVars
  <2> QED
    BY <2>1, <2>3, RoutingSame DEF RoutingInv, kernelVars, workerVars
<1>3. CASE NothingToAccept \/ PollClients \/ NoEvent \/ ScanDone
  BY <1>3, RoutingSame
  DEF NothingToAccept, PollClients, NoEvent, ScanDone, RoutingInv, kernelVars, workerVars
<1>4. CASE ScanEntry
  BY <1>4, MasterScan, RoutingSame DEF RoutingInv, kernelVars, workerVars
<1> QED
  BY <1>1, <1>2, <1>3, <1>4 DEF SocketLoop

\* The balancer moves a request from the list to the stream of the worker its
\* number designates, or forgets it.
LEMMA RoutingPop ==
  ASSUME TypeInv, RoutingInv, req[sock] # <<>>, PopFrontReq, UNCHANGED <<clientFds, mfd>>
  PROVE  MasterInv'
<1>t. req \in [SockType -> Seq(Request)] /\ sock \in SockType
  BY DEF TypeInv, TypeOK, NetTypeOK
<1>1. ASSUME NEW s \in SockType, NEW i \in 1 .. Len(req'[s])
      PROVE  \E j \in 1 .. Len(req[s]) : req'[s][i] = req[s][j]
  <2>1. CASE s = sock
    <3>1. req'[s] = Tail(req[s]) /\ req[s] \in Seq(Request) /\ req[s] # <<>>
      BY <1>t, <2>1 DEF PopFrontReq
    <3> QED
      BY <3>1, TailElements
  <2>2. CASE s # sock
    BY <1>t, <2>2 DEF PopFrontReq
  <2> QED
    BY <2>1, <2>2
<1>2. ASSUME NEW s \in SockType, NEW i \in 1 .. Len(req'[s])
      PROVE  /\ mfd[req'[s][i].fd] # NoConn /\ TypeOf(mfd[req'[s][i].fd]) = s
             /\ req'[s][i].type = s
  BY <1>1 DEF RoutingInv, MasterInv, Registered
<1> QED
  BY <1>2 DEF RoutingInv, MasterInv, Registered

LEMMA RoutingSend ==
  ASSUME TypeInv, RoutingInv, SendToWorker
  PROVE  ChanInv'
<1>t. /\ req \in [SockType -> Seq(Request)] /\ sock \in SockType
      /\ chan \in [Workers -> Seq(Message)]
  BY DEF TypeInv, TypeOK, KernelTypeOK, NetTypeOK
<1> DEFINE r == Head(req[sock])
           m == [fd |-> r.fd, type |-> r.type, conn |-> mfd[r.fd]]
<1>1. /\ req[sock] # <<>> /\ Deliverable(r) /\ UNCHANGED mfd
      /\ chan' = [chan EXCEPT ![Shard(r.fd)] = Append(@, m)]
  BY DEF SendToWorker
<1>2. r \in Request /\ r = req[sock][1] /\ 1 \in 1 .. Len(req[sock])
  BY <1>t, <1>1, HeadTailProperties, LenProperties
<1>3. Registered(r.fd, sock) /\ r.type = sock
  BY <1>t, <1>2 DEF RoutingInv, MasterInv
<1>4. m \in Message
  <2>1. mfd[r.fd] \in Conns
    BY <1>2, <1>3 DEF TypeInv, TypeOK, KernelTypeOK, Request, Registered
  <2> QED
    BY <1>2, <2>1 DEF Message, Request
<1>5. m.conn = mfd[m.fd] /\ m.type = TypeOf(m.conn) /\ m.fd = r.fd
  BY <1>3 DEF Registered
<1> HIDE DEF m, r
<1>6. ASSUME NEW w \in Workers, NEW i \in 1 .. Len(chan'[w])
      PROVE  /\ chan'[w][i].conn = mfd[chan'[w][i].fd]
             /\ chan'[w][i].type = TypeOf(chan'[w][i].conn)
             /\ Shard(chan'[w][i].fd) = w
  <2>1. CASE w = Shard(r.fd)
    <3>1. chan'[w] = Append(chan[w], m) /\ chan[w] \in Seq(Message)
      BY <1>t, <1>1, <2>1
    <3>2. \/ i \in 1 .. Len(chan[w]) /\ chan'[w][i] = chan[w][i]
          \/ chan'[w][i] = m
      BY <1>4, <3>1, AppendElements
    <3> QED
      BY <1>5, <2>1, <3>2 DEF RoutingInv, ChanInv
  <2>2. CASE w # Shard(r.fd)
    <3>1. chan'[w] = chan[w]
      BY <1>t, <1>1, <2>2
    <3> QED
      BY <3>1 DEF RoutingInv, ChanInv
  <2> QED
    BY <2>1, <2>2
<1> QED
  BY <1>1, <1>6, ZenonT(60) DEF ChanInv, Shard

LEMMA RoutingBalancer ==
  ASSUME TypeInv, RoutingInv, BalancerStep
  PROVE  RoutingInv'
<1>1. CASE SendToWorker
  <2>1. MasterInv'
    BY <1>1, RoutingPop DEF SendToWorker
  <2>2. ChanInv'
    BY <1>1, RoutingSend
  <2> QED
    BY <1>1, <2>1, <2>2, RoutingSame DEF SendToWorker, RoutingInv, peerVars, workerVars
<1>2. CASE SendFails
  <2>1. MasterInv'
    BY <1>2, RoutingPop DEF SendFails, kernelVars
  <2> QED
    BY <1>2, <2>1, RoutingSame DEF SendFails, RoutingInv, kernelVars, workerVars
<1>3. CASE Balanced
  BY <1>3, RoutingSame DEF Balanced, RoutingInv, kernelVars, workerVars
<1> QED
  BY <1>1, <1>2, <1>3 DEF BalancerStep

\* A worker's end empties its stream and its history.
LEMMA RoutingDie ==
  ASSUME TypeInv, RoutingInv, NEW w \in Workers, Die(w), UNCHANGED mfd
  PROVE  ChanInv' /\ HeldInv'
<1>t. /\ chan \in [Workers -> Seq(Message)]
      /\ hist \in [Workers -> [ClientFd -> Nat]]
  BY DEF TypeInv, TypeOK, KernelTypeOK, WorkerTypeOK
<1>1. /\ chan'[w] = <<>> /\ \A v \in Workers : v # w => chan'[v] = chan[v]
      /\ \A f \in ClientFd : hist'[w][f] = 0
      /\ \A v \in Workers : v # w => hist'[v] = hist[v]
      /\ UNCHANGED <<wfds, mfd>>
  BY <1>t DEF Die
<1>2. ChanInv'
  BY <1>1 DEF RoutingInv, ChanInv, Shard
<1>3. HeldInv'
  BY <1>1 DEF RoutingInv, HeldInv, Shard
<1> QED
  BY <1>2, <1>3

\* Taking a message: its connection is the one of its number, and its number is
\* one of this worker's.
LEMMA RoutingReceivFd ==
  ASSUME TypeInv, RoutingInv, NEW w \in Workers, ReceivFd(w)
  PROVE  ChanInv' /\ HeldInv'
<1>t. /\ chan \in [Workers -> Seq(Message)]
      /\ wfds \in [Workers -> Seq(Conns)]
      /\ hist \in [Workers -> [ClientFd -> Nat]]
  BY DEF TypeInv, TypeOK, KernelTypeOK, WorkerTypeOK
<1> DEFINE msg == Head(chan[w])
           n == Len(wfds[w])
<1>1. /\ chan[w] # <<>>
      /\ wfds' = [wfds EXCEPT ![w] = Append(@, msg.conn)]
      /\ HistoryClient(w, msg, n + 1)
      /\ chan' = [chan EXCEPT ![w] = Tail(@)]
      /\ UNCHANGED mfd
  BY DEF ReceivFd
<1>2. msg \in Message /\ msg = chan[w][1] /\ 1 \in 1 .. Len(chan[w])
  BY <1>t, <1>1, HeadTailProperties, LenProperties
<1>3. /\ msg.fd \in ClientFd /\ msg.conn \in Conns
      /\ msg.conn = mfd[msg.fd] /\ Shard(msg.fd) = w
  BY <1>2 DEF RoutingInv, ChanInv, Message
<1>4. n \in Nat /\ wfds[w] \in Seq(Conns)
  BY <1>t
<1> HIDE DEF msg, n
<1>5. ChanInv'
  <2>1. ASSUME NEW v \in Workers, NEW i \in 1 .. Len(chan'[v])
        PROVE  \E j \in 1 .. Len(chan[v]) : chan'[v][i] = chan[v][j]
    <3>1. CASE v = w
      <4>1. chan'[v] = Tail(chan[v]) /\ chan[v] \in Seq(Message) /\ chan[v] # <<>>
        BY <1>t, <1>1, <3>1
      <4> QED
        BY <4>1, TailElements
    <3>2. CASE v # w
      BY <1>t, <1>1, <3>2
    <3> QED
      BY <3>1, <3>2
  <2>2. ASSUME NEW v \in Workers, NEW i \in 1 .. Len(chan'[v])
        PROVE  /\ chan'[v][i].conn = mfd[chan'[v][i].fd]
               /\ chan'[v][i].type = TypeOf(chan'[v][i].conn)
               /\ Shard(chan'[v][i].fd) = v
    BY <2>1 DEF RoutingInv, ChanInv
  <2>3. mfd' = mfd
    BY <1>1
  <2>4. ASSUME NEW v \in Workers, NEW i \in 1 .. Len(chan'[v])
        PROVE  /\ chan'[v][i].conn = mfd'[chan'[v][i].fd]
               /\ chan'[v][i].type = TypeOf(chan'[v][i].conn)
               /\ Shard(chan'[v][i].fd) = v
    BY <2>2, <2>3
  <2> QED
    BY <2>4 DEF ChanInv, Shard
<1>6. /\ wfds'[w] = Append(wfds[w], msg.conn) /\ Len(wfds'[w]) = n + 1
      /\ \A i \in 1 .. n : wfds'[w][i] = wfds[w][i]
      /\ wfds'[w][n + 1] = msg.conn
      /\ \A v \in Workers : v # w => wfds'[v] = wfds[v]
  <2>1. wfds'[w] = Append(wfds[w], msg.conn) /\ \A v \in Workers : v # w => wfds'[v] = wfds[v]
    BY <1>t, <1>1
  <2> QED
    BY <1>3, <1>4, <2>1, AppendProperties DEF n
<1>7. \A v \in Workers, f \in ClientFd :
        \/ hist'[v][f] = hist[v][f]
        \/ v = w /\ f = msg.fd /\ hist'[v][f] = n + 1
  <2>1. CASE UNCHANGED hist
    BY <2>1
  <2>2. CASE hist' = [hist EXCEPT ![w][msg.fd] = n + 1]
    <3>1. hist[w] \in [ClientFd -> Nat]
      BY <1>t
    <3>2. hist' = [hist EXCEPT ![w] = [hist[w] EXCEPT ![msg.fd] = n + 1]]
      BY <2>2
    <3>3. /\ hist'[w] = [hist[w] EXCEPT ![msg.fd] = n + 1]
          /\ \A v \in Workers : v # w => hist'[v] = hist[v]
      BY <1>t, <3>2
    <3> QED
      BY <1>3, <3>1, <3>3
  <2> QED
    BY <1>1, <2>1, <2>2 DEF HistoryClient
<1>8. HeldInv'
  <2>1. ASSUME NEW v \in Workers, NEW i \in 1 .. Len(wfds'[v])
        PROVE  \E f \in ClientFd : mfd[f] = wfds'[v][i] /\ Shard(f) = v
    <3>1. CASE v = w /\ i = n + 1
      BY <1>3, <1>6, <3>1
    <3>2. CASE i \in 1 .. Len(wfds[v]) /\ wfds'[v][i] = wfds[v][i]
      BY <3>2 DEF RoutingInv, HeldInv
    <3>3. v = w => i \in 1 .. n + 1
      BY <1>6
    <3> QED
      BY <1>4, <1>6, <3>1, <3>2, <3>3 DEF n
  <2>2. ASSUME NEW v \in Workers, NEW f \in ClientFd, hist'[v][f] # 0
        PROVE  hist'[v][f] \in 1 .. Len(wfds'[v]) /\ wfds'[v][hist'[v][f]] = mfd[f]
    <3>1. CASE hist'[v][f] = hist[v][f]
      <4>1. hist[v][f] \in 1 .. Len(wfds[v]) /\ wfds[v][hist[v][f]] = mfd[f]
        BY <2>2, <3>1 DEF RoutingInv, HeldInv
      <4>2. CASE v = w
        <5>1. hist[v][f] \in 1 .. n
          BY <4>1, <4>2 DEF n
        <5> QED
          BY <1>4, <1>6, <3>1, <4>1, <4>2, <5>1
      <4>3. CASE v # w
        BY <1>6, <3>1, <4>1, <4>3
      <4> QED
        BY <4>2, <4>3
    <3>2. CASE v = w /\ f = msg.fd /\ hist'[v][f] = n + 1
      BY <1>3, <1>4, <1>6, <3>2
    <3> QED
      BY <1>7, <3>1, <3>2
  <2> QED
    BY <1>1, <2>1, <2>2 DEF HeldInv, Shard
<1> QED
  BY <1>5, <1>8

LEMMA RoutingWorkerStep ==
  ASSUME TypeInv, RoutingInv, NEW w \in Workers, WorkerStep(w), UNCHANGED netVars
  PROVE  RoutingInv'
<1>1. MasterInv' /\ TableInv'
  <2>1. UNCHANGED <<link, backlog, mfd, clientFds, req>>
    BY DEF WorkerStep, ReceivFd, ReceivNoFd, Recv, Interpret, InterpretCrash, Handshake,
           NoSslModule, peerVars, netVars
  <2> QED
    BY <2>1, RoutingSame
<1>2. CASE ReceivFd(w)
  BY <1>1, <1>2, RoutingReceivFd DEF RoutingInv
<1>3. CASE Die(w) /\ UNCHANGED mfd
  BY <1>1, <1>3, RoutingDie DEF RoutingInv
<1>4. CASE UNCHANGED <<chan, mfd, wfds, hist>>
  BY <1>1, <1>4, RoutingSame DEF RoutingInv
<1>5. CASE ReceivNoFd(w) \/ InterpretCrash(w)
  BY <1>3, <1>5 DEF ReceivNoFd, InterpretCrash
<1>6. CASE Recv(w) \/ Interpret(w) \/ Handshake(w)
  BY <1>4, <1>6 DEF Recv, Interpret, Handshake, ResetClient
<1>7. CASE NoSslModule(w)
  BY <1>3, <1>4, <1>7 DEF NoSslModule, ResetClient
<1> QED
  BY <1>2, <1>5, <1>6, <1>7 DEF WorkerStep

-------------------------------------------------------------------------------
(* The inductive invariant. *)

IInv == TypeInv /\ RoutingInv

\* The end of the master drops its lists; its descriptors stay where they were.
LEMMA ExitStep ==
  ASSUME TypeInv, RoutingInv, Exit, UNCHANGED <<kernelVars, workerVars>>
  PROVE  NetTypeOK' /\ RoutingInv'
<1>1. NetTypeOK'
  BY DEF Exit, NetTypeOK, SockType, Quiet, Fds
<1>2. MasterInv'
  BY DEF Exit, MasterInv
<1> QED
  BY <1>1, <1>2, RoutingSame DEF RoutingInv, kernelVars, workerVars

\* Kernel and worker parts of the type invariant read nothing else.
LEMMA TypeSame ==
  ASSUME TypeInv
  PROVE  /\ UNCHANGED kernelVars => KernelTypeOK'
         /\ UNCHANGED netVars => NetTypeOK'
         /\ UNCHANGED workerVars => WorkerTypeOK'
         /\ UNCHANGED <<recvd, sent, workerVars>> => BusyInv'
<1> USE DEF TypeInv, TypeOK
<1>1. UNCHANGED kernelVars => KernelTypeOK'
  BY DEF KernelTypeOK, kernelVars
<1>2. UNCHANGED netVars => NetTypeOK'
  BY DEF NetTypeOK, netVars
<1>3. UNCHANGED workerVars => WorkerTypeOK'
  BY DEF WorkerTypeOK, workerVars
<1>4. UNCHANGED <<recvd, sent, workerVars>> => BusyInv'
  BY DEF BusyInv, workerVars
<1> QED
  BY <1>1, <1>2, <1>3, <1>4

LEMMA MasterStep ==
  ASSUME IInv, Master
  PROVE  IInv'
<1>0. TypeInv /\ RoutingInv /\ alive \in BOOLEAN /\ signals \in 0 .. MaxSignals
  BY DEF IInv, TypeInv, TypeOK
<1>1. CASE SocketLoop /\ UNCHANGED <<workerVars, alive, signals>>
  <2>1. KernelTypeOK' /\ NetTypeOK' /\ UNCHANGED <<sent, recvd>>
    BY <1>0, <1>1, TypeSocketLoop
  <2>2. WorkerTypeOK' /\ BusyInv'
    BY <1>0, <1>1, <2>1, TypeSame
  <2>3. RoutingInv'
    BY <1>0, <1>1, RoutingSocketLoop
  <2> QED
    BY <1>0, <1>1, <2>1, <2>2, <2>3 DEF IInv, TypeInv, TypeOK
<1>2. CASE BalancerStep /\ UNCHANGED <<alive, signals>>
  <2>1. KernelTypeOK' /\ NetTypeOK' /\ UNCHANGED <<sent, recvd, workerVars>>
    BY <1>0, <1>2, TypeBalancer
  <2>2. WorkerTypeOK' /\ BusyInv'
    BY <1>0, <2>1, TypeSame
  <2>3. RoutingInv'
    BY <1>0, <1>2, RoutingBalancer
  <2> QED
    BY <1>0, <1>2, <2>1, <2>2, <2>3 DEF IInv, TypeInv, TypeOK
<1>3. CASE Wake
  <2>1. UNCHANGED <<kernelVars, workerVars, alive, signals>>
    BY <1>3 DEF Wake
  <2>2. NetTypeOK' /\ RoutingInv'
    <3>1. CASE Exit
      BY <1>0, <2>1, <3>1, ExitStep
    <3>2. CASE /\ mpc' = "accept"
               /\ UNCHANGED <<clients, clientFds, req, sock, it, revents>>
      <4>1. NetTypeOK'
        BY <1>0, <3>2 DEF TypeInv, TypeOK, NetTypeOK
      <4> QED
        BY <1>0, <2>1, <3>2, <4>1, RoutingSame DEF RoutingInv, kernelVars, workerVars
    <3> QED
      BY <1>3, <3>1, <3>2 DEF Wake
  <2>3. KernelTypeOK' /\ WorkerTypeOK' /\ BusyInv'
    BY <1>0, <2>1, TypeSame DEF kernelVars
  <2> QED
    BY <1>0, <2>1, <2>2, <2>3 DEF IInv, TypeInv, TypeOK
<1> QED
  BY <1>1, <1>2, <1>3 DEF Master

LEMMA WorkerProcessStep ==
  ASSUME IInv, NEW w \in Workers, WorkerProcess(w)
  PROVE  IInv'
<1>0. TypeInv /\ RoutingInv /\ alive \in BOOLEAN /\ signals \in 0 .. MaxSignals
  BY DEF IInv, TypeInv, TypeOK
<1>1. CASE WorkerStep(w) /\ UNCHANGED <<netVars, alive, signals>>
  <2>1. KernelTypeOK' /\ WorkerTypeOK' /\ BusyInv'
    BY <1>0, <1>1, TypeWorkerStep
  <2>2. NetTypeOK' /\ RoutingInv'
    BY <1>0, <1>1, TypeSame, RoutingWorkerStep
  <2> QED
    BY <1>0, <1>1, <2>1, <2>2 DEF IInv, TypeInv, TypeOK
<1>2. CASE MasterGone(w)
  <2>1. /\ Die(w) /\ UNCHANGED <<peerVars, recvd, answers, backlog, mfd>>
        /\ UNCHANGED netVars /\ UNCHANGED <<alive, signals>>
    BY <1>2 DEF MasterGone, netVars
  <2>2. KernelTypeOK' /\ WorkerTypeOK' /\ BusyInv' /\ NetTypeOK'
    BY <1>0, <2>1, DieType, TypeSame
  <2>3. ChanInv' /\ HeldInv'
    BY <1>0, <2>1, RoutingDie
  <2>4. TableInv' /\ MasterInv'
    BY <1>0, <2>1, RoutingSame DEF netVars, peerVars
  <2> QED
    BY <1>0, <2>1, <2>2, <2>3, <2>4 DEF IInv, TypeInv, TypeOK, RoutingInv
<1> QED
  BY <1>1, <1>2 DEF WorkerProcess

LEMMA EnvironmentStep ==
  ASSUME IInv, Environment
  PROVE  IInv'
<1>0. TypeInv /\ RoutingInv /\ alive \in BOOLEAN /\ signals \in 0 .. MaxSignals
  BY DEF IInv, TypeInv, TypeOK
<1>1. CASE Peer /\ UNCHANGED <<netVars, workerVars, alive, signals>>
  <2>1. KernelTypeOK' /\ \A c \in Conns : recvd'[c] <= sent'[c]
    BY <1>0, <1>1, TypePeer
  <2>2. NetTypeOK' /\ WorkerTypeOK'
    BY <1>0, <1>1, TypeSame
  <2>3. BusyInv'
    BY <1>0, <1>1, <2>1 DEF TypeInv, BusyInv, workerVars
  <2>4. TableInv' /\ UNCHANGED <<mfd, chan>>
    BY <1>0, <1>1, TablePeer DEF RoutingInv
  <2>5. RoutingInv'
    BY <1>0, <1>1, <2>4, RoutingSame DEF RoutingInv, netVars, workerVars
  <2> QED
    BY <1>0, <1>1, <2>1, <2>2, <2>3, <2>5 DEF IInv, TypeInv, TypeOK
<1>2. CASE GracefullShutdown
  <2>1. alive' = FALSE /\ UNCHANGED <<kernelVars, netVars, workerVars, signals>>
    BY <1>2 DEF GracefullShutdown
  <2>2. KernelTypeOK' /\ NetTypeOK' /\ WorkerTypeOK' /\ BusyInv'
    BY <1>0, <2>1, TypeSame DEF kernelVars
  <2>3. RoutingInv'
    BY <1>0, <2>1, RoutingSame DEF RoutingInv, kernelVars, netVars, workerVars
  <2> QED
    BY <1>0, <2>1, <2>2, <2>3 DEF IInv, TypeInv, TypeOK
<1>3. CASE QuickShutdown
  <2>1. Exit /\ UNCHANGED <<kernelVars, workerVars, alive, signals>>
    BY <1>3 DEF QuickShutdown
  <2>2. KernelTypeOK' /\ WorkerTypeOK' /\ BusyInv'
    BY <1>0, <2>1, TypeSame DEF kernelVars
  <2>3. NetTypeOK' /\ RoutingInv'
    BY <1>0, <2>1, ExitStep
  <2> QED
    BY <1>0, <2>1, <2>2, <2>3 DEF IInv, TypeInv, TypeOK
<1>4. CASE Signal
  <2>1. /\ signals' \in 0 .. MaxSignals
        /\ UNCHANGED <<kernelVars, workerVars, alive, clients, clientFds, req>>
    BY <1>0, <1>4, MaxSignalsAssumption DEF Signal, PollInterrupted, MaxSignalsAssumption
  <2>2. NetTypeOK'
    BY <1>0, <1>4 DEF Signal, PollInterrupted, LoopReturns, TypeInv, TypeOK, NetTypeOK, SockType, Quiet
  <2>3. KernelTypeOK' /\ WorkerTypeOK' /\ BusyInv'
    BY <1>0, <2>1, TypeSame DEF kernelVars
  <2>4. RoutingInv'
    BY <1>0, <2>1, RoutingSame DEF RoutingInv, kernelVars, workerVars
  <2> QED
    BY <1>0, <2>1, <2>2, <2>3, <2>4 DEF IInv, TypeInv, TypeOK
<1> QED
  BY <1>1, <1>2, <1>3, <1>4 DEF Environment

LEMMA InvariantStep == IInv /\ [Next]_vars => IInv'
<1> SUFFICES ASSUME IInv, [Next]_vars
             PROVE  IInv'
  OBVIOUS
<1>1. CASE Master
  BY <1>1, MasterStep
<1>2. CASE \E w \in Workers : WorkerProcess(w)
  BY <1>2, WorkerProcessStep
<1>3. CASE Environment
  BY <1>3, EnvironmentStep
<1>4. CASE UNCHANGED vars
  <2>1. UNCHANGED <<kernelVars, netVars, workerVars, alive, signals>>
    BY <1>4 DEF vars
  <2>2. TypeInv /\ RoutingInv /\ alive \in BOOLEAN /\ signals \in 0 .. MaxSignals
    BY DEF IInv, TypeInv, TypeOK
  <2>3. KernelTypeOK' /\ NetTypeOK' /\ WorkerTypeOK' /\ BusyInv'
    BY <2>1, <2>2, TypeSame DEF kernelVars
  <2>4. RoutingInv'
    BY <2>1, <2>2, RoutingSame DEF RoutingInv, kernelVars, netVars, workerVars
  <2> QED
    BY <2>1, <2>2, <2>3, <2>4 DEF IInv, TypeInv, TypeOK
<1> QED
  BY <1>1, <1>2, <1>3, <1>4 DEF Next

\* The inductive invariant holds in every reachable state.
THEOREM Invariance == Spec => []IInv
<1>1. Init => IInv
  BY TypeInit, RoutingInit DEF IInv
<1> QED
  BY <1>1, InvariantStep, PTL DEF Spec

-------------------------------------------------------------------------------
(* What follows from it. *)

\* Every variable keeps its type: no list, table or history ever holds anything
\* but descriptors and connections of the right kind.
THEOREM TypeCorrect == Spec => []TypeOK
<1>1. IInv => TypeOK
  BY DEF IInv, TypeInv
<1> QED
  BY <1>1, Invariance, PTL

\* A number means one connection for the master, the streams and the workers, and
\* one worker serves it (the agreement that descriptor passing relies on).
THEOREM RoutingAgreed == Spec => []RoutingInv
<1>1. IInv => RoutingInv
  BY DEF IInv
<1> QED
  BY <1>1, Invariance, PTL

\* A connection in two descriptor tables would have two numbers of the master.
LEMMA HeldOnce ==
  ASSUME IInv
  PROVE  OneWorkerPerConnection
<1> SUFFICES ASSUME NEW v \in Workers, NEW w \in Workers, v # w,
                    NEW c \in Range(wfds[v]), c \in Range(wfds[w])
             PROVE  FALSE
  BY DEF OneWorkerPerConnection
<1>t. wfds \in [Workers -> Seq(Conns)]
  BY DEF IInv, TypeInv, TypeOK, WorkerTypeOK
<1>0. /\ \E i \in 1 .. Len(wfds[v]) : c = wfds[v][i]
      /\ \E i \in 1 .. Len(wfds[w]) : c = wfds[w][i]
  BY <1>t DEF Range
<1>1. PICK i \in 1 .. Len(wfds[v]), j \in 1 .. Len(wfds[w]) :
        c = wfds[v][i] /\ c = wfds[w][j]
  BY <1>0
<1>h. \A u \in Workers : \A k \in 1 .. Len(wfds[u]) :
        \E f \in ClientFd : mfd[f] = wfds[u][k] /\ Shard(f) = u
  BY DEF IInv, RoutingInv, HeldInv
<1>2. PICK f \in ClientFd : mfd[f] = c /\ Shard(f) = v
  BY <1>1, <1>h, ZenonT(60)
<1>3. PICK g \in ClientFd : mfd[g] = c /\ Shard(g) = w
  BY <1>1, <1>h
<1>4. c # NoConn
  BY <1>1, <1>t, ElementOfSeq, KernelAssumption DEF KernelAssumption
<1> QED
  BY <1>2, <1>3, <1>4 DEF IInv, RoutingInv, TableInv

\* No client is ever read by two workers.
THEOREM ClientsNotShared == Spec => []OneWorkerPerConnection
<1>1. IInv => OneWorkerPerConnection
  BY HeldOnce
<1> QED
  BY <1>1, Invariance, PTL

\* Only receivFd turns a worker to a client.
LEMMA OnlyReceivFd ==
  ASSUME IInv, [Next]_vars, NEW w \in Workers,
         wpc[w] = "receivFd", wpc'[w] \in {"recv", "handshake1"}
  PROVE  ReceivFd(w)
<1>t. wpc \in [Workers -> {"receivFd", "recv", "interpret", "handshake1", "handshake2", "dead"}]
  BY DEF IInv, TypeInv, TypeOK, WorkerTypeOK
<1>1. ~ UNCHANGED wpc
  OBVIOUS
<1>2. ~ (Master \/ Environment \/ UNCHANGED vars)
  BY <1>1 DEF Master, BalancerStep, SendToWorker, SendFails, Balanced, Wake, Environment,
     GracefullShutdown, QuickShutdown, Signal, vars, workerVars
<1>3. PICK v \in Workers : WorkerProcess(v)
  BY <1>2 DEF Next
<1>4. \A u \in Workers : u # v => wpc'[u] = wpc[u]
  <2>1. UNCHANGED wpc \/ \E x \in {"receivFd", "recv", "interpret", "handshake1", "handshake2", "dead"} :
                           wpc' = [wpc EXCEPT ![v] = x]
    BY <1>3 DEF WorkerProcess, MasterGone, WorkerStep, ReceivFd, ReceivNoFd, Recv, Interpret,
       InterpretCrash, Handshake, NoSslModule, Die, ResetClient
  <2> QED
    BY <1>t, <2>1
<1>5. v = w
  BY <1>4
<1>6. ~ (Die(w) \/ ResetClient(w))
  BY <1>t DEF Die, ResetClient
<1> QED
  BY <1>3, <1>5, <1>6
  DEF WorkerProcess, MasterGone, WorkerStep, ReceivNoFd, Recv, Interpret, InterpretCrash,
      Handshake, NoSslModule

\* A worker always turns to the connection that its message carried, on the port
\* it came in by, although it may use an older descriptor for it.
THEOREM RightConnectionServed == Spec => RightConnection
<1>1. ASSUME IInv, [Next]_vars, NEW w \in Workers,
             wpc[w] = "receivFd", wpc'[w] \in {"recv", "handshake1"}
      PROVE  /\ Client(w)' = Head(chan[w]).conn
             /\ cliFd'[w].type = TypeOf(Client(w)')
  <2>t. /\ chan \in [Workers -> Seq(Message)]
        /\ wfds \in [Workers -> Seq(Conns)]
        /\ hist \in [Workers -> [ClientFd -> Nat]]
        /\ cliFd \in [Workers -> [fd : Nat, type : SockType]]
    BY <1>1 DEF IInv, TypeInv, TypeOK, KernelTypeOK, WorkerTypeOK
  <2> DEFINE msg == Head(chan[w])
             n == Len(wfds[w])
             fd == IF hist[w][msg.fd] = 0 THEN n + 1 ELSE hist[w][msg.fd]
  <2>1. ReceivFd(w)
    BY <1>1, OnlyReceivFd
  <2>2. /\ chan[w] # <<>> /\ HistoryClient(w, msg, n + 1)
        /\ wfds' = [wfds EXCEPT ![w] = Append(@, msg.conn)]
    BY <2>1 DEF ReceivFd
  <2>3. cliFd'[w] = [fd |-> fd, type |-> msg.type]
    BY <2>t, <2>2 DEF HistoryClient
  <2>4. msg \in Message /\ msg = chan[w][1] /\ 1 \in 1 .. Len(chan[w])
    BY <2>t, <2>2, HeadTailProperties, LenProperties
  <2>5. /\ msg.fd \in ClientFd /\ msg.conn \in Conns
        /\ msg.conn = mfd[msg.fd] /\ msg.type = TypeOf(msg.conn)
    BY <1>1, <2>4 DEF IInv, RoutingInv, ChanInv, Message
  <2>6. hist[w][msg.fd] # 0 =>
          hist[w][msg.fd] \in 1 .. n /\ wfds[w][hist[w][msg.fd]] = msg.conn
    BY <1>1, <2>5 DEF IInv, RoutingInv, HeldInv
  <2>7. n \in Nat /\ wfds[w] \in Seq(Conns)
    BY <2>t
  <2> HIDE DEF msg, n
  <2>8. wfds'[w][fd] = msg.conn
    <3>1. wfds'[w] = Append(wfds[w], msg.conn)
      BY <2>t, <2>2
    <3>2. /\ Append(wfds[w], msg.conn)[n + 1] = msg.conn
          /\ \A i \in 1 .. n : Append(wfds[w], msg.conn)[i] = wfds[w][i]
      BY <2>5, <2>7, AppendProperties DEF n
    <3> QED
      BY <2>6, <3>1, <3>2
  <2> HIDE DEF fd
  <2>9. Client(w)' = msg.conn
    BY <2>3, <2>8 DEF Client
  <2> QED
    BY <2>3, <2>5, <2>9 DEF msg
<1>2. IInv /\ [Next]_vars =>
        [\A w \in Workers :
           wpc[w] = "receivFd" /\ wpc'[w] \in {"recv", "handshake1"} =>
             /\ Client(w)' = Head(chan[w]).conn
             /\ cliFd'[w].type = TypeOf(Client(w)')]_vars
  BY <1>1
<1> QED
  BY <1>2, Invariance, PTL DEF Spec, RightConnection

-------------------------------------------------------------------------------
(* Sequences without repetition. *)

LEMMA SeqElements ==
  ASSUME NEW S, NEW s \in Seq(S)
  PROVE  /\ Range(s) = {s[i] : i \in 1 .. Len(s)}
         /\ IsInjective(s) <=> \A i, j \in 1 .. Len(s) : s[i] = s[j] => i = j
<1>1. DOMAIN s = 1 .. Len(s)
  OBVIOUS
<1> QED
  BY <1>1 DEF Range, IsInjective

LEMMA AppendElementsOf ==
  ASSUME NEW S, NEW s \in Seq(S), NEW e \in S
  PROVE  /\ Append(s, e) \in Seq(S) /\ Len(s) \in Nat /\ Len(Append(s, e)) = Len(s) + 1
         /\ Append(s, e)[Len(s) + 1] = e
         /\ \A i \in 1 .. Len(s) : Append(s, e)[i] = s[i]
         /\ Range(Append(s, e)) = Range(s) \cup {e}
<1> DEFINE t == Append(s, e)
<1>1. /\ t \in Seq(S) /\ Len(s) \in Nat /\ Len(t) = Len(s) + 1
      /\ t[Len(s) + 1] = e /\ \A i \in 1 .. Len(s) : t[i] = s[i]
  BY AppendProperties
<1> HIDE DEF t
<1>2. Range(t) = {t[i] : i \in 1 .. Len(t)}
  BY <1>1, SeqElements
<1>3. Range(s) = {s[i] : i \in 1 .. Len(s)}
  BY SeqElements
<1>4. Range(t) = Range(s) \cup {e}
  <2>1. \A x \in Range(t) : x \in Range(s) \cup {e}
    BY <1>1, <1>2, <1>3
  <2>2. \A x \in Range(s) : x \in Range(t)
    BY <1>1, <1>2, <1>3
  <2>3. e \in Range(t)
    BY <1>1, <1>2
  <2> QED
    BY <2>1, <2>2, <2>3
<1> QED
  BY <1>1, <1>4 DEF t

\* The same for a vector of descriptors, where NoFd may come again.
LEMMA AppendOnce ==
  ASSUME NEW S, NEW s \in Seq(S), NEW e \in S, e \notin Range(s) \/ e = NoFd, OnceEach(s)
  PROVE  Range(Append(s, e)) = Range(s) \cup {e} /\ OnceEach(Append(s, e))
<1> DEFINE t == Append(s, e)
<1>1. /\ Len(s) \in Nat /\ Len(t) = Len(s) + 1 /\ Range(t) = Range(s) \cup {e}
      /\ t[Len(s) + 1] = e /\ \A i \in 1 .. Len(s) : t[i] = s[i]
  BY AppendElementsOf
<1>2. \A i, j \in 1 .. Len(s) : s[i] = s[j] => i = j \/ s[i] = NoFd
  BY DEF OnceEach
<1>3. e # NoFd => \A i \in 1 .. Len(s) : s[i] # e
  BY SeqElements
<1> HIDE DEF t
<1>4. \A i, j \in 1 .. Len(t) : t[i] = t[j] => i = j \/ t[i] = NoFd
  BY <1>1, <1>2, <1>3
<1> QED
  BY <1>1, <1>4 DEF t, OnceEach

LEMMA AppendNew ==
  ASSUME NEW S, NEW s \in Seq(S), NEW e \in S, e \notin Range(s), IsInjective(s)
  PROVE  Range(Append(s, e)) = Range(s) \cup {e} /\ IsInjective(Append(s, e))
<1> DEFINE t == Append(s, e)
<1>1. /\ t \in Seq(S) /\ Len(s) \in Nat /\ Len(t) = Len(s) + 1
      /\ Range(t) = Range(s) \cup {e}
      /\ t[Len(s) + 1] = e /\ \A i \in 1 .. Len(s) : t[i] = s[i]
  BY AppendElementsOf
<1>2. \A i, j \in 1 .. Len(s) : s[i] = s[j] => i = j
  BY SeqElements
<1>3. \A i \in 1 .. Len(s) : s[i] # e
  BY SeqElements
<1> HIDE DEF t
<1>4. \A i, j \in 1 .. Len(t) : t[i] = t[j] => i = j
  BY <1>1, <1>2, <1>3
<1> QED
  BY <1>1, <1>4, SeqElements DEF t

LEMMA RemoveOne ==
  ASSUME NEW S, NEW s \in Seq(S), NEW i \in 1 .. Len(s), OnceEach(s), s[i] # NoFd
  PROVE  Range(RemoveAt(s, i)) = Range(s) \ {s[i]} /\ OnceEach(RemoveAt(s, i))
<1> DEFINE t == RemoveAt(s, i)
<1>0. Len(s) \in Nat
  OBVIOUS
<1>1. /\ t \in Seq(S) /\ Len(t) = Len(s) - 1
      /\ \A j \in 1 .. Len(s) - 1 : t[j] = IF j < i THEN s[j] ELSE s[j + 1]
  BY RemoveAtType
<1>2. \A j, k \in 1 .. Len(s) : s[j] = s[k] => j = k \/ s[j] = NoFd
  BY DEF OnceEach
<1> HIDE DEF t
<1>3. Range(t) = {t[j] : j \in 1 .. Len(t)}
  BY <1>1, SeqElements
<1>4. Range(s) = {s[j] : j \in 1 .. Len(s)}
  BY SeqElements
<1>5. \A j \in 1 .. Len(t) : t[j] \in Range(s) /\ t[j] # s[i]
  <2> TAKE j \in 1 .. Len(t)
  <2>1. CASE j < i
    BY <1>0, <1>1, <1>2, <1>4, <2>1
  <2>2. CASE j >= i
    BY <1>0, <1>1, <1>2, <1>4, <2>2
  <2> QED
    BY <1>0, <1>1, <2>1, <2>2
<1>6. \A j \in 1 .. Len(s) : j # i => s[j] \in Range(t)
  <2> SUFFICES ASSUME NEW j \in 1 .. Len(s), j # i
               PROVE  \E k \in 1 .. Len(t) : t[k] = s[j]
    BY <1>3
  <2>1. CASE j < i
    BY <1>0, <1>1, <2>1
  <2>2. CASE j > i
    <3>1. j - 1 \in 1 .. Len(t) /\ t[j - 1] = s[j]
      BY <1>0, <1>1, <2>2
    <3> QED
      BY <3>1
  <2> QED
    BY <1>0, <2>1, <2>2
<1>7. Range(t) = Range(s) \ {s[i]}
  BY <1>3, <1>4, <1>5, <1>6
<1>8. \A j, k \in 1 .. Len(t) : t[j] = t[k] => j = k \/ t[j] = NoFd
  BY <1>0, <1>1, <1>2
<1> QED
  BY <1>7, <1>8 DEF t, OnceEach

LEMMA TailInjective ==
  ASSUME NEW S, NEW s \in Seq(S), s # <<>>, IsInjective(s)
  PROVE  IsInjective(Tail(s))
<1>1. Tail(s) \in Seq(S) /\ Len(s) \in Nat /\ Len(Tail(s)) \in Nat
  BY HeadTailProperties, LenProperties
<1>2. \A i \in 1 .. Len(Tail(s)) : i + 1 \in 1 .. Len(s) /\ Tail(s)[i] = s[i + 1]
  BY TailElements
<1>3. \A i, j \in 1 .. Len(s) : s[i] = s[j] => i = j
  BY SeqElements
<1>4. \A i, j \in 1 .. Len(Tail(s)) : Tail(s)[i] = Tail(s)[j] => i = j
  BY <1>1, <1>2, <1>3
<1> QED
  BY <1>1, <1>4, SeqElements
-------------------------------------------------------------------------------
(* What the promises about the poll lists and requests become in a step. *)

\* The part of NoLostConnection that steps preserve.
StaysClient ==
  Running =>
  \A f \in ClientFd :
    mfd[f] # NoConn /\ link[mfd[f]] # "reset" => f \in clients[TypeOf(mfd[f])]

PollInv ==
  /\ PollListMatchesMap
  /\ NoSkippedEvent
  /\ NoDoubleRequest
  /\ StaysClient
  /\ QueuedBehind
  /\ ErrorsLast

LEMMA PollTypes ==
  ASSUME TypeInv
  PROVE  /\ clients \in [SockType -> SUBSET Fds]
         /\ clientFds \in [SockType -> Seq(Fds)]
         /\ req \in [SockType -> Seq(Request)]
         /\ mpc \in {"accept", "poll", "scan", "balance", "sleep", "exited", "crashed"}
         /\ sock \in SockType
         /\ it \in Nat \ {0}
         /\ revents \in [ClientFd -> {"none", "in", "err"}]
         /\ mfd \in [ClientFd -> Conns \cup {NoConn}]
         /\ backlog \in [SockType -> Seq(Conns)]
         /\ link \in [Conns -> {"none", "open", "fin", "reset"}]
  BY DEF TypeInv, TypeOK, NetTypeOK, KernelTypeOK

\* Without a failed accept a list holds different descriptors only, so it is never
\* longer than the descriptor table.
LEMMA ListFits ==
  ASSUME TypeInv, PollListMatchesMap, NEW s \in SockType, NoFd \notin clients[s]
  PROVE  PollAccepts(s)
<1> DEFINE l == clientFds[s]
           n == Len(l)
<1>1. l \in Seq(Fds) /\ n \in Nat /\ Range(l) = clients[s] /\ OnceEach(l)
  BY PollTypes DEF PollListMatchesMap
<1>2. \A i \in 1 .. n : l[i] \in ClientFd
  BY <1>1, SeqElements, ElementOfSeq DEF Fds
<1>3. \A i, j \in 1 .. n : l[i] = l[j] => i = j
  BY <1>1, <1>2, KernelAssumption DEF OnceEach, NoFd, ClientFd, KernelAssumption
<1> HIDE DEF l, n
<1>4. \A i, j \in 1 .. n : i # j => l[i] # l[j]
  BY <1>3
<1> SUFFICES ASSUME n > LastFd + 1
             PROVE  FALSE
  BY <1>1, KernelAssumption DEF PollAccepts, KernelAssumption, l, n
<1> DEFINE h == [i \in 1 .. n |-> l[i]]
<1>5. h \in [1 .. n -> ClientFd] /\ \A i \in 1 .. n : h[i] = l[i]
  BY <1>2
<1> HIDE DEF h
<1>6. FirstFd \in Nat /\ LastFd \in Nat
  BY KernelAssumption DEF KernelAssumption
<1>7. /\ IsFiniteSet(1 .. n) /\ IsFiniteSet(ClientFd)
      /\ Cardinality(1 .. n) = n /\ Cardinality(ClientFd) <= LastFd + 1
  <2>1. IsFiniteSet(1 .. n) /\ Cardinality(1 .. n) = IF 1 > n THEN 0 ELSE n - 1 + 1
    BY <1>1, FS_Interval
  <2>2. /\ IsFiniteSet(ClientFd)
        /\ Cardinality(ClientFd) = IF FirstFd > LastFd THEN 0 ELSE LastFd - FirstFd + 1
    BY <1>6, FS_Interval DEF ClientFd
  <2> QED
    BY <1>1, <1>6, <2>1, <2>2
<1>8. Cardinality(ClientFd) < Cardinality(1 .. n)
  <2>1. Cardinality(ClientFd) \in Nat
    BY <1>7, FS_CardinalityType
  <2> QED
    BY <1>1, <1>6, <1>7, <2>1
<1>9. \E i, j \in 1 .. n : i # j /\ h[i] = h[j]
  <2> DEFINE D == 1 .. n
             E == ClientFd
  <2>1. IsFiniteSet(D) /\ IsFiniteSet(E) /\ Cardinality(E) < Cardinality(D) /\ h \in [D -> E]
    BY <1>5, <1>7, <1>8
  <2> HIDE DEF D, E
  <2>2. \E x, y \in D : x # y /\ h[x] = h[y]
    BY ONLY <2>1, FS_PigeonHole, ZenonT(30)
  <2> QED
    BY <2>2 DEF D
<1> QED
  BY <1>4, <1>5, <1>9

LEMMA PollInit == Init => PollInv
<1> SUFFICES ASSUME Init PROVE PollInv
  OBVIOUS
<1>1. /\ clients = [s \in SockType |-> {}] /\ clientFds = [s \in SockType |-> <<>>]
      /\ req = [s \in SockType |-> <<>>] /\ mpc = "accept" /\ sock = "PLAIN"
      /\ revents = Quiet /\ mfd = [f \in ClientFd |-> NoConn]
  BY DEF Init, NetInit, KernelInit
<1>2. Range(<<>>) = {} /\ IsInjective(<<>>) /\ OnceEach(<<>>)
  BY DEF Range, IsInjective, OnceEach
<1>3. PollListMatchesMap /\ NoDoubleRequest
  BY <1>1, <1>2 DEF PollListMatchesMap, NoDoubleRequest
<1>4. NoSkippedEvent /\ StaysClient
  BY <1>1 DEF NoSkippedEvent, StaysClient
<1>5. QueuedBehind /\ ErrorsLast
  BY <1>1 DEF QueuedBehind, ErrorsLast, Quiet, SockType
<1> QED
  BY <1>3, <1>4, <1>5 DEF PollInv

\* Each part only reads some of the state.
LEMMA PollSame ==
  ASSUME TypeInv, PollInv
  PROVE  /\ UNCHANGED <<clients, clientFds>> /\ mpc' # "crashed" => PollListMatchesMap'
         /\ UNCHANGED <<clients, mfd, link>> /\ (Running' => Running) => StaysClient'
         /\ UNCHANGED req => NoDoubleRequest'
         /\ UNCHANGED <<revents, mfd, link>> => ErrorsLast'
         /\ revents' = Quiet => ErrorsLast'
         /\ mpc' # "scan" => NoSkippedEvent'
<1> USE DEF PollInv
<1>1. UNCHANGED <<clients, clientFds>> /\ mpc' # "crashed" => PollListMatchesMap'
  BY DEF PollListMatchesMap
<1>2. UNCHANGED <<clients, mfd, link>> /\ (Running' => Running) => StaysClient'
  BY DEF StaysClient
<1>3. UNCHANGED req => NoDoubleRequest'
  BY DEF NoDoubleRequest
<1>4. UNCHANGED <<revents, mfd, link>> => ErrorsLast'
  BY DEF ErrorsLast
<1>5. revents' = Quiet => ErrorsLast'
  BY DEF ErrorsLast, Quiet
<1>6. mpc' # "scan" => NoSkippedEvent'
  BY DEF NoSkippedEvent
<1> QED
  BY <1>1, <1>2, <1>3, <1>4, <1>5, <1>6

\* One socket's pair of lists changes; the other's stays.
LEMMA ListsUpdate ==
  ASSUME TypeInv, PollListMatchesMap, mpc' # "crashed",
         NEW A, NEW B, Range(B) = A, OnceEach(B),
         clients' = [clients EXCEPT ![sock] = A],
         clientFds' = [clientFds EXCEPT ![sock] = B]
  PROVE  PollListMatchesMap'
<1> SUFFICES ASSUME NEW s \in SockType
             PROVE  Range(clientFds'[s]) = clients'[s] /\ OnceEach(clientFds'[s])
  BY DEF PollListMatchesMap
<1>1. CASE s = sock
  BY <1>1, PollTypes
<1>2. CASE s # sock
  BY <1>2, PollTypes DEF PollListMatchesMap
<1> QED
  BY <1>1, <1>2

\* A number that is not listed yet, or NoFd once more, joins both lists.
LEMMA ListsRegister ==
  ASSUME TypeInv, PollListMatchesMap, mpc' # "crashed",
         NEW fd \in Fds, fd \notin clients[sock] \/ fd = NoFd, Register(fd)
  PROVE  PollListMatchesMap'
<1>1. clientFds[sock] \in Seq(Fds) /\ sock \in SockType
  BY PollTypes
<1>2. Range(clientFds[sock]) = clients[sock] /\ OnceEach(clientFds[sock])
  BY <1>1 DEF PollListMatchesMap
<1>3. /\ Range(Append(clientFds[sock], fd)) = clients[sock] \cup {fd}
      /\ OnceEach(Append(clientFds[sock], fd))
  BY <1>1, <1>2, AppendOnce
<1> QED
  BY <1>3, ListsUpdate DEF Register

-------------------------------------------------------------------------------
(* The master's steps. *)

LEMMA PollAccept ==
  ASSUME IInv, PollInv, AcceptClient \/ AcceptFails \/ NothingToAccept
  PROVE  PollInv'
<1>t. TypeInv /\ RoutingInv
  BY DEF IInv
<1>1. /\ mpc = "accept" /\ mpc' = "poll" /\ UNCHANGED <<req, sock, it, revents, link>>
  BY DEF AcceptClient, AcceptFails, NothingToAccept, kernelVars
<1>2. QueuedBehind' /\ NoSkippedEvent' /\ NoDoubleRequest'
  BY <1>1, <1>t, PollSame DEF PollInv, QueuedBehind
<1>3. CASE AcceptClient
  <2>1. PICK fd \in ClientFd : /\ mfd[fd] = NoConn
                               /\ mfd' = [mfd EXCEPT ![fd] = Head(backlog[sock])]
                               /\ Register(fd)
    BY <1>3 DEF AcceptClient, LowestFree
  <2> DEFINE c == Head(backlog[sock])
  <2>2. c \in Conns /\ TypeOf(c) = sock
    <3>1. backlog[sock] \in Seq(Conns) /\ backlog[sock] # <<>> /\ sock \in SockType
      BY <1>3, <1>t, PollTypes DEF AcceptClient
    <3>2. c = backlog[sock][1] /\ c \in Conns /\ 1 \in 1 .. Len(backlog[sock])
      BY <3>1, HeadTailProperties, LenProperties
    <3> QED
      BY <1>t, <3>1, <3>2 DEF RoutingInv, TableInv
  <2> HIDE DEF c
  <2>3. fd \notin clients[sock]
    <3>1. clientFds[sock] \in Seq(Fds) /\ sock \in SockType
      BY <1>t, PollTypes
    <3>2. clients[sock] = {clientFds[sock][i] : i \in 1 .. Len(clientFds[sock])}
      BY <3>1, SeqElements DEF PollInv, PollListMatchesMap
    <3>3. fd # NoFd
      BY KernelAssumption DEF NoFd, ClientFd, KernelAssumption
    <3> QED
      BY <1>t, <2>1, <3>1, <3>2, <3>3 DEF RoutingInv, MasterInv, Registered
  <2>4. PollListMatchesMap'
    BY <1>1, <1>t, <2>1, <2>3, ListsRegister DEF PollInv, Fds
  <2>5. ASSUME NEW f \in ClientFd, mfd'[f] # NoConn, link[mfd'[f]] # "reset"
        PROVE  f \in clients'[TypeOf(mfd'[f])]
    <3>1. CASE f = fd
      BY <1>t, <2>1, <2>2, <3>1, PollTypes DEF c, Register
    <3>2. CASE f # fd
      <4>1. mfd'[f] = mfd[f] /\ TypeOf(mfd[f]) \in SockType
        BY <1>t, <2>1, <3>2, PollTypes DEF TypeOf, SockType
      <4>2. f \in clients[TypeOf(mfd[f])]
        BY <1>1, <2>5, <4>1 DEF PollInv, StaysClient, Running
      <4> QED
        BY <1>t, <2>1, <4>1, <4>2, PollTypes DEF Register
    <3> QED
      BY <3>1, <3>2
  <2>6. StaysClient'
    BY <1>1, <2>5 DEF StaysClient, TypeOf
  <2>7. ErrorsLast'
    BY <1>1, <1>t, <2>1, PollTypes DEF PollInv, ErrorsLast
  <2> QED
    BY <1>2, <2>4, <2>6, <2>7 DEF PollInv
<1>4. CASE AcceptFails
  <2>1. /\ UNCHANGED <<mfd, link>>
        /\ \/ UNCHANGED <<clients, clientFds>>
           \/ Register(NoFd)
    BY <1>4 DEF AcceptFails, kernelVars
  <2>2. PollListMatchesMap'
    BY <1>1, <1>t, <2>1, PollSame, ListsRegister DEF PollInv, Fds
  <2>3. ASSUME NEW f \in ClientFd, mfd[f] # NoConn, link[mfd[f]] # "reset"
        PROVE  f \in clients'[TypeOf(mfd[f])]
    <3>1. f \in clients[TypeOf(mfd[f])] /\ TypeOf(mfd[f]) \in SockType
      BY <1>1, <2>3 DEF PollInv, StaysClient, Running, TypeOf, SockType
    <3> QED
      BY <1>t, <2>1, <3>1, PollTypes DEF Register
  <2>4. StaysClient'
    BY <1>1, <2>1, <2>3 DEF StaysClient, TypeOf
  <2>5. ErrorsLast'
    BY <1>1, <1>t, <2>1, PollSame
  <2> QED
    BY <1>2, <2>2, <2>4, <2>5 DEF PollInv
<1>5. CASE NothingToAccept
  <2>1. UNCHANGED <<mfd, clients, clientFds>>
    BY <1>5 DEF NothingToAccept, kernelVars
  <2>2. PollListMatchesMap' /\ StaysClient' /\ ErrorsLast'
    BY <1>1, <1>t, <2>1, PollSame DEF Running
  <2> QED
    BY <1>2, <2>2 DEF PollInv
<1> QED
  BY <1>3, <1>4, <1>5
LEMMA PollPoll ==
  ASSUME IInv, PollInv, PollClients
  PROVE  PollInv'
<1>t. TypeInv /\ RoutingInv
  BY DEF IInv
<1>1. /\ mpc = "poll" /\ mpc' = "scan" /\ it' = 1
      /\ revents' = [f \in ClientFd |-> IF f \in Polled THEN Pending(f) ELSE "none"]
      /\ UNCHANGED <<link, mfd, clients, clientFds, req, sock>>
  BY DEF PollClients, kernelVars
<1>2. PollListMatchesMap' /\ StaysClient' /\ NoDoubleRequest'
  BY <1>1, <1>t, PollSame DEF Running
<1>3. \A f \in Polled : \E j \in 1 .. Len(clientFds[sock]) : clientFds[sock][j] = f
  <2>1. clientFds[sock] \in Seq(Fds)
    BY <1>t, PollTypes
  <2> QED
    BY <2>1, SeqElements DEF Polled
<1>4. NoSkippedEvent'
  <2> SUFFICES ASSUME NEW f \in ClientFd, revents'[f] # "none"
               PROVE  \E j \in it' .. Len(clientFds'[sock']) : clientFds'[sock'][j] = f
    BY DEF NoSkippedEvent
  <2>1. f \in Polled
    BY <1>1
  <2> QED
    BY <1>1, <1>3, <2>1
<1>5. QueuedBehind'
  <2>1. req[sock] = <<>> /\ (sock = "PLAIN" => req["SSL"] = <<>>)
    BY <1>1 DEF PollInv, QueuedBehind
  <2> QED
    BY <1>1, <2>1 DEF QueuedBehind
<1>6. ErrorsLast'
  <2> SUFFICES ASSUME NEW f \in ClientFd, revents'[f] = "err"
               PROVE  mfd[f] # NoConn /\ link[mfd[f]] = "reset"
    BY <1>1 DEF ErrorsLast
  <2>1. f \in Polled /\ Pending(f) = "err"
    BY <1>1
  <2>2. f # NoFd /\ \E j \in 1 .. Len(clientFds[sock]) : clientFds[sock][j] = f
    BY <1>3, <2>1 DEF Polled
  <2>3. mfd[f] # NoConn
    BY <1>t, <2>2, PollTypes DEF RoutingInv, MasterInv, Registered
  <2> QED
    BY <2>1, <2>3 DEF Pending, Event
<1> QED
  BY <1>2, <1>4, <1>5, <1>6 DEF PollInv

\* loop() returns to the other socket or to the balancer: the lists stay, and so
\* do the requests of the socket it leaves.
LEMMA PollLoopReturns ==
  ASSUME IInv, PollInv, LoopReturns, mpc \in {"poll", "scan"},
         UNCHANGED <<kernelVars, clients, clientFds, req>>
  PROVE  PollInv'
<1>t. TypeInv
  BY DEF IInv
<1>1. /\ mpc' \in {"accept", "balance"} /\ revents' = Quiet
      /\ UNCHANGED <<link, mfd, clients, clientFds, req>>
      /\ sock = "PLAIN" => mpc' = "accept" /\ sock' = "SSL"
      /\ sock # "PLAIN" => mpc' = "balance" /\ sock' = "PLAIN"
  BY DEF LoopReturns, kernelVars
<1>2. PollListMatchesMap' /\ StaysClient' /\ NoDoubleRequest' /\ ErrorsLast' /\ NoSkippedEvent'
  <2>1. mpc' # "crashed" /\ mpc' # "scan"
    BY <1>1
  <2>2. Running' => Running
    BY DEF Running
  <2> QED
    BY <1>1, <1>t, <2>1, <2>2, PollSame
<1>3. QueuedBehind'
  <2>1. sock = "PLAIN" => req["SSL"] = <<>>
    BY DEF PollInv, QueuedBehind
  <2> QED
    BY <1>1, <2>1 DEF QueuedBehind
<1> QED
  BY <1>2, <1>3 DEF PollInv

\* The walk.  ScanFd is always a client, so the branch for an unknown entry is
\* dead code; what it erases is an error that lasts, what it queues is behind it.
LEMMA PollScan ==
  ASSUME IInv, PollInv, ScanEntry
  PROVE  PollInv'
<1>t. TypeInv /\ RoutingInv
  BY DEF IInv
<1> DEFINE l == clientFds[sock]
<1>s. /\ sock \in SockType /\ l \in Seq(Fds) /\ Len(l) \in Nat
      /\ it \in 1 .. Len(l) /\ ScanFd = l[it] /\ ScanFd \in Fds
      /\ mpc = "scan" /\ UNCHANGED <<sock, revents>>
  BY <1>t, PollTypes, ElementOfSeq DEF ScanEntry, ScanFd
<1>i. /\ clients[sock] = {l[i] : i \in 1 .. Len(l)}
      /\ \A i, j \in 1 .. Len(l) : l[i] = l[j] => i = j \/ l[i] = NoFd
      /\ Range(l) = clients[sock] /\ OnceEach(l)
  <2>1. Range(l) = clients[sock] /\ OnceEach(l)
    BY <1>s DEF PollInv, PollListMatchesMap
  <2> QED
    BY <1>s, <2>1, SeqElements DEF OnceEach
<1>c. ScanFd \in clients[sock] /\ mpc' = "scan"
  <2>1. ScanFd \in clients[sock]
    BY <1>s, <1>i
  <2> QED
    BY <2>1 DEF ScanEntry
<1>n. \A f \in ClientFd : f # NoFd
  BY KernelAssumption DEF NoFd, ClientFd, KernelAssumption
<1>e. \A f \in ClientFd :
        \/ revents[f] = "none"
        \/ \E j \in it .. Len(l) : l[j] = f
        \/ revents[f] = "in" /\ [fd |-> f, type |-> sock] \in Range(req[sock])
        \/ revents[f] = "err" /\ f \notin clients[sock]
  BY <1>s DEF PollInv, NoSkippedEvent
<1>q. /\ \A i \in 1 .. Len(req[sock]) :
           \E j \in 1 .. Len(l) : j < it /\ l[j] = req[sock][i].fd
      /\ sock = "PLAIN" => req["SSL"] = <<>>
  BY <1>s DEF PollInv, QueuedBehind
<1> HIDE DEF l
<1>1. CASE Disconnect /\ Seen = "err"
  <2> DEFINE m == RemoveAt(l, it)
  <2>1. /\ clients' = [clients EXCEPT ![sock] = @ \ {ScanFd}]
        /\ clientFds' = [clientFds EXCEPT ![sock] = m]
        /\ UNCHANGED <<link, mfd, req, it>>
    BY <1>1 DEF Disconnect, kernelVars, l
  <2>2. /\ m \in Seq(Fds) /\ Len(m) = Len(l) - 1
        /\ \A j \in 1 .. Len(l) - 1 : m[j] = IF j < it THEN l[j] ELSE l[j + 1]
        /\ Range(m) = clients[sock] \ {ScanFd} /\ OnceEach(m)
    <3>1. l[it] # NoFd
      BY <1>1, <1>s DEF Seen
    <3> QED
      BY <1>s, <1>i, <3>1, RemoveAtType, RemoveOne
  <2> HIDE DEF m
  <2>3. clients'[sock] = clients[sock] \ {ScanFd} /\ clientFds'[sock] = m
    BY <1>s, <1>t, <2>1, PollTypes
  <2>4. ScanFd \in ClientFd /\ mfd[ScanFd] # NoConn /\ link[mfd[ScanFd]] = "reset"
    BY <1>1, <1>s DEF Seen, Fds, PollInv, ErrorsLast
  <2>5. PollListMatchesMap'
    BY <1>c, <1>t, <2>1, <2>2, ListsUpdate DEF PollInv
  <2>6. StaysClient'
    <3> SUFFICES ASSUME NEW f \in ClientFd, mfd[f] # NoConn, link[mfd[f]] # "reset"
                 PROVE  f \in clients'[TypeOf(mfd[f])]
      BY <2>1 DEF StaysClient, TypeOf
    <3>1. f \in clients[TypeOf(mfd[f])] /\ TypeOf(mfd[f]) \in SockType
      BY <1>s DEF PollInv, StaysClient, Running, TypeOf, SockType
    <3>2. f # ScanFd
      BY <2>4
    <3> QED
      BY <1>t, <2>1, <3>1, <3>2, PollTypes
  <2>7. NoSkippedEvent'
    <3> SUFFICES ASSUME NEW f \in ClientFd
                 PROVE  \/ revents[f] = "none"
                        \/ \E j \in it .. Len(m) : m[j] = f
                        \/ revents[f] = "in" /\ [fd |-> f, type |-> sock] \in Range(req[sock])
                        \/ revents[f] = "err" /\ f \notin clients'[sock]
      BY <1>s, <2>1, <2>3 DEF NoSkippedEvent
    <3>1. ASSUME NEW j \in it .. Len(l), l[j] = f
          PROVE  \/ \E k \in it .. Len(m) : m[k] = f
                 \/ revents[f] = "err" /\ f \notin clients'[sock]
      <4>1. CASE j = it
        BY <1>1, <1>n, <1>s, <2>3, <3>1, <4>1 DEF Seen
      <4>2. CASE j # it
        <5>1. j - 1 \in it .. Len(m) /\ m[j - 1] = f
          BY <1>s, <2>2, <3>1, <4>2
        <5> QED
          BY <5>1
      <4> QED
        BY <4>1, <4>2
    <3> QED
      BY <1>e, <2>3, <3>1
  <2>8. QueuedBehind'
    <3>1. ASSUME NEW i \in 1 .. Len(req[sock])
          PROVE  \E j \in 1 .. Len(m) : j < it /\ m[j] = req[sock][i].fd
      <4>1. PICK j \in 1 .. Len(l) : j < it /\ l[j] = req[sock][i].fd
        BY <1>q
      <4>2. j \in 1 .. Len(m) /\ m[j] = l[j]
        BY <1>s, <2>2, <4>1
      <4> QED
        BY <4>1, <4>2
    <3> QED
      BY <1>c, <1>q, <1>s, <2>1, <2>3, <3>1 DEF QueuedBehind
  <2>9. NoDoubleRequest' /\ ErrorsLast'
    BY <1>s, <1>t, <2>1, PollSame
  <2> QED
    BY <2>5, <2>6, <2>7, <2>8, <2>9 DEF PollInv
<1>2. CASE NewInput /\ Seen = "in"
  <2> DEFINE r == [fd |-> ScanFd, type |-> sock]
  <2>1. /\ req' = [req EXCEPT ![sock] = Append(@, r)] /\ it' = it + 1
        /\ UNCHANGED <<link, mfd, clients, clientFds>>
    BY <1>2 DEF NewInput, kernelVars
  <2>2. r \in Request /\ r.fd = ScanFd
    BY <1>2, <1>s DEF Request, Seen, Fds
  <2>3. req[sock] \in Seq(Request) /\ Len(req[sock]) \in Nat
    BY <1>s, <1>t, PollTypes
  <2>4. r \notin Range(req[sock])
    <3>1. ASSUME NEW i \in 1 .. Len(req[sock]), req[sock][i].fd = ScanFd
          PROVE  FALSE
      <4>1. ScanFd # NoFd
        BY <1>2 DEF Seen
      <4> QED
        BY <1>i, <1>q, <1>s, <3>1, <4>1
    <3>2. Range(req[sock]) = {req[sock][i] : i \in 1 .. Len(req[sock])}
      BY <2>3, SeqElements
    <3> QED
      BY <2>2, <3>1, <3>2
  <2>r. r = [fd |-> ScanFd, type |-> sock]
    OBVIOUS
  <2> HIDE DEF r
  <2>5. /\ Range(Append(req[sock], r)) = Range(req[sock]) \cup {r}
        /\ IsInjective(Append(req[sock], r))
    <3>1. IsInjective(req[sock])
      BY <1>s DEF PollInv, NoDoubleRequest
    <3> QED
      BY <2>2, <2>3, <2>4, <3>1, AppendNew
  <2>6. req'[sock] = Append(req[sock], r) /\ \A s \in SockType : s # sock => req'[s] = req[s]
    BY <1>s, <1>t, <2>1, PollTypes
  <2>7. NoDoubleRequest'
    BY <2>5, <2>6 DEF PollInv, NoDoubleRequest
  <2>8. NoSkippedEvent'
    <3> SUFFICES ASSUME NEW f \in ClientFd
                 PROVE  \/ revents[f] = "none"
                        \/ \E j \in it + 1 .. Len(l) : l[j] = f
                        \/ revents[f] = "in" /\ [fd |-> f, type |-> sock] \in Range(req'[sock])
                        \/ revents[f] = "err" /\ f \notin clients[sock]
      BY <1>s, <2>1 DEF NoSkippedEvent, l
    <3>1. ASSUME NEW j \in it .. Len(l), l[j] = f
          PROVE  \/ \E k \in it + 1 .. Len(l) : l[k] = f
                 \/ revents[f] = "in" /\ [fd |-> f, type |-> sock] \in Range(req'[sock])
      <4>1. CASE j = it
        <5>1. f = ScanFd /\ revents[f] = "in"
          BY <1>2, <1>n, <1>s, <3>1, <4>1 DEF Seen
        <5> QED
          BY <2>5, <2>6, <2>r, <5>1
      <4>2. CASE j # it
        BY <1>s, <3>1, <4>2
      <4> QED
        BY <4>1, <4>2
    <3> QED
      BY <1>e, <2>5, <2>6, <3>1
  <2>9. QueuedBehind'
    <3>1. ASSUME NEW i \in 1 .. Len(req'[sock])
          PROVE  \E j \in 1 .. Len(l) : j < it + 1 /\ l[j] = req'[sock][i].fd
      <4>1. CASE i \in 1 .. Len(req[sock]) /\ req'[sock][i] = req[sock][i]
        <5>1. PICK j \in 1 .. Len(l) : j < it /\ l[j] = req[sock][i].fd
          BY <1>q, <4>1
        <5>2. j < it + 1
          BY <1>s, <5>1
        <5> QED
          BY <4>1, <5>1, <5>2
      <4>2. CASE req'[sock][i] = r
        BY <1>s, <2>2, <4>2
      <4>3. \/ i \in 1 .. Len(req[sock]) /\ Append(req[sock], r)[i] = req[sock][i]
            \/ Append(req[sock], r)[i] = r
        <5>1. i \in 1 .. Len(Append(req[sock], r))
          BY <2>6
        <5> QED
          BY <2>2, <2>3, <5>1, AppendElements
      <4> QED
        BY <2>6, <4>1, <4>2, <4>3
    <3>2. sock = "PLAIN" => req'["SSL"] = <<>>
      BY <1>q, <2>6 DEF SockType
    <3> QED
      BY <1>c, <1>s, <2>1, <3>1, <3>2 DEF QueuedBehind, l
  <2>10. PollListMatchesMap' /\ StaysClient' /\ ErrorsLast'
    BY <1>c, <1>s, <1>t, <2>1, PollSame DEF Running
  <2> QED
    BY <2>7, <2>8, <2>9, <2>10 DEF PollInv
<1>3. CASE NextEntry /\ Seen = "none"
  <2>1. it' = it + 1 /\ UNCHANGED <<link, mfd, clients, clientFds, req>>
    BY <1>3 DEF NextEntry, kernelVars
  <2>2. NoSkippedEvent'
    <3> SUFFICES ASSUME NEW f \in ClientFd, revents[f] # "none",
                        NEW j \in it .. Len(l), l[j] = f
                 PROVE  \E k \in it + 1 .. Len(l) : l[k] = f
      BY <1>e, <1>s, <2>1 DEF NoSkippedEvent, l
    <3>1. j # it
      BY <1>3, <1>n, <1>s DEF Seen
    <3> QED
      BY <1>s, <3>1
  <2>3. QueuedBehind'
    <3>1. \A i \in 1 .. Len(req[sock]) :
            \E j \in 1 .. Len(l) : j < it + 1 /\ l[j] = req[sock][i].fd
      BY <1>q, <1>s
    <3> QED
      BY <1>c, <1>q, <1>s, <2>1, <3>1 DEF QueuedBehind, l
  <2>4. PollListMatchesMap' /\ StaysClient' /\ ErrorsLast' /\ NoDoubleRequest'
    BY <1>c, <1>s, <1>t, <2>1, PollSame DEF Running
  <2> QED
    BY <2>2, <2>3, <2>4 DEF PollInv
<1>4. Seen \in {"none", "in", "err"}
  BY <1>s, <1>t, PollTypes DEF Seen, Fds
<1> QED
  BY <1>1, <1>2, <1>3, <1>4, <1>c DEF ScanEntry
LEMMA PollBalancer ==
  ASSUME IInv, PollInv, BalancerStep
  PROVE  PollInv'
<1>t. TypeInv
  BY DEF IInv
<1>1. /\ mpc = "balance" /\ mpc' \in {"balance", "sleep"}
      /\ UNCHANGED <<link, mfd, clients, clientFds, it, revents>>
  BY DEF BalancerStep, SendToWorker, SendFails, Balanced, kernelVars, peerVars
<1>2. PollListMatchesMap' /\ StaysClient' /\ ErrorsLast' /\ NoSkippedEvent'
  <2>1. mpc' # "crashed" /\ mpc' # "scan"
    BY <1>1
  <2>2. Running
    BY <1>1 DEF Running
  <2> QED
    BY <1>1, <1>t, <2>1, <2>2, PollSame
<1>3. CASE SendToWorker \/ SendFails
  <2>1. req[sock] # <<>> /\ PopFrontReq /\ UNCHANGED <<sock, mpc>>
    BY <1>3 DEF SendToWorker, SendFails
  <2>2. /\ req'[sock] = Tail(req[sock]) /\ req[sock] \in Seq(Request) /\ sock \in SockType
        /\ \A s \in SockType : s # sock => req'[s] = req[s]
    BY <1>t, <2>1, PollTypes DEF PopFrontReq
  <2>3. NoDoubleRequest'
    <3>1. IsInjective(Tail(req[sock]))
      BY <2>1, <2>2, TailInjective DEF PollInv, NoDoubleRequest
    <3> QED
      BY <2>2, <3>1 DEF PollInv, NoDoubleRequest
  <2>4. QueuedBehind'
    BY <1>1, <2>1, <2>2 DEF PollInv, QueuedBehind, SockType
  <2> QED
    BY <1>2, <2>3, <2>4 DEF PollInv
<1>4. CASE Balanced
  <2>1. /\ req[sock] = <<>> /\ UNCHANGED req
        /\ sock' = IF sock = "PLAIN" THEN "SSL" ELSE "PLAIN"
        /\ mpc' = IF sock = "PLAIN" THEN "balance" ELSE "sleep"
    BY <1>4 DEF Balanced
  <2>2. NoDoubleRequest'
    BY <1>t, <2>1, PollSame
  <2>3. QueuedBehind'
    BY <1>1, <1>t, <2>1, PollTypes DEF PollInv, QueuedBehind, SockType
  <2> QED
    BY <1>2, <2>2, <2>3 DEF PollInv
<1> QED
  BY <1>3, <1>4 DEF BalancerStep

LEMMA PollExit ==
  ASSUME IInv, PollInv, Exit
  PROVE  PollInv'
<1>1. /\ mpc' = "exited" /\ revents' = Quiet
      /\ clients' = [s \in SockType |-> {}] /\ clientFds' = [s \in SockType |-> <<>>]
      /\ req' = [s \in SockType |-> <<>>]
  BY DEF Exit
<1>2. Range(<<>>) = {} /\ IsInjective(<<>>) /\ OnceEach(<<>>)
  BY DEF Range, IsInjective, OnceEach
<1>3. PollListMatchesMap' /\ NoDoubleRequest'
  BY <1>1, <1>2 DEF PollListMatchesMap, NoDoubleRequest
<1>4. StaysClient' /\ NoSkippedEvent' /\ QueuedBehind' /\ ErrorsLast'
  BY <1>1 DEF StaysClient, Running, NoSkippedEvent, QueuedBehind, ErrorsLast, Quiet
<1> QED
  BY <1>3, <1>4 DEF PollInv

\* Whatever leaves the master and its descriptors alone, and resets no connection
\* that was not one already.
LEMMA PollOthers ==
  ASSUME IInv, PollInv, UNCHANGED <<netVars, mfd>>,
         \A c \in Conns : link[c] = "reset" => link'[c] = "reset"
  PROVE  PollInv'
<1>1. UNCHANGED <<clients, clientFds, req, mpc, sock, it, revents, mfd>>
  BY DEF netVars
<1>2. PollListMatchesMap' /\ NoSkippedEvent' /\ NoDoubleRequest' /\ QueuedBehind'
  BY <1>1 DEF PollInv, PollListMatchesMap, NoSkippedEvent, NoDoubleRequest, QueuedBehind
<1>3. mfd \in [ClientFd -> Conns \cup {NoConn}]
  BY PollTypes DEF IInv
<1>4. StaysClient'
  BY <1>1, <1>3 DEF PollInv, StaysClient, Running, TypeOf
<1>5. ErrorsLast'
  BY <1>1, <1>3 DEF PollInv, ErrorsLast
<1> QED
  BY <1>2, <1>4, <1>5 DEF PollInv

LEMMA PollStep == IInv /\ PollInv /\ [Next]_vars => PollInv'
<1> SUFFICES ASSUME IInv, PollInv, [Next]_vars
             PROVE  PollInv'
  OBVIOUS
<1>1. CASE SocketLoop
  <2>1. CASE NoEvent
    <3>1. LoopReturns /\ mpc = "poll" /\ UNCHANGED <<kernelVars, clients, clientFds, req>>
      BY <2>1 DEF NoEvent
    <3> QED
      BY <3>1, PollLoopReturns
  <2>2. CASE ScanDone
    <3>1. LoopReturns /\ mpc = "scan" /\ UNCHANGED <<kernelVars, clients, clientFds, req>>
      BY <2>2 DEF ScanDone
    <3> QED
      BY <3>1, PollLoopReturns
  <2> QED
    BY <1>1, <2>1, <2>2, PollAccept, PollPoll, PollScan DEF SocketLoop
<1>2. CASE Wake
  <2>1. CASE Exit
    BY <2>1, PollExit
  <2>2. CASE /\ mpc = "sleep" /\ mpc' = "accept"
             /\ UNCHANGED <<clients, clientFds, req, sock, it, revents, link, mfd>>
    <3>1. QueuedBehind'
      BY <2>2 DEF PollInv, QueuedBehind
    <3>2. /\ PollListMatchesMap' /\ StaysClient' /\ ErrorsLast' /\ NoSkippedEvent'
          /\ NoDoubleRequest'
      BY <2>2, PollSame DEF IInv, Running
    <3> QED
      BY <3>1, <3>2 DEF PollInv
  <2> QED
    BY <1>2, <2>1, <2>2 DEF Wake, kernelVars
<1>3. CASE Signal
  <2>1. CASE /\ mpc = "accept" /\ mpc' = "poll"
             /\ UNCHANGED <<clients, clientFds, req, sock, it, revents, link, mfd>>
    <3>1. QueuedBehind'
      BY <2>1 DEF PollInv, QueuedBehind
    <3>2. /\ PollListMatchesMap' /\ StaysClient' /\ ErrorsLast' /\ NoSkippedEvent'
          /\ NoDoubleRequest'
      BY <2>1, PollSame DEF IInv, Running
    <3> QED
      BY <3>1, <3>2 DEF PollInv
  <2>2. CASE mpc = "poll" /\ LoopReturns /\ UNCHANGED <<kernelVars, clients, clientFds, req>>
    BY <2>2, PollLoopReturns
  <2> QED
    BY <1>3, <2>1, <2>2 DEF Signal, PollInterrupted, kernelVars
<1>4. CASE \E w \in Workers : WorkerProcess(w)
  <2>1. PICK w \in Workers : WorkerProcess(w)
    BY <1>4
  <2>2. UNCHANGED <<netVars, mfd, link>>
    BY <2>1 DEF WorkerProcess, MasterGone, WorkerStep, ReceivFd, ReceivNoFd, Recv, Interpret,
       InterpretCrash, Handshake, NoSslModule, peerVars
  <2> QED
    BY <2>2, PollOthers
<1>5. CASE Peer /\ UNCHANGED <<netVars, workerVars, alive, signals>>
  <2>1. link \in [Conns -> {"none", "open", "fin", "reset"}]
    BY PollTypes DEF IInv
  <2>2. UNCHANGED mfd /\ \A c \in Conns : link[c] = "reset" => link'[c] = "reset"
    BY <1>5, <2>1 DEF Peer, Connect, Send, Finish, Reset
  <2> QED
    BY <1>5, <2>2, PollOthers
<1>6. CASE GracefullShutdown \/ UNCHANGED vars
  <2>1. UNCHANGED <<netVars, mfd, link>>
    BY <1>6 DEF GracefullShutdown, vars, kernelVars
  <2> QED
    BY <2>1, PollOthers
<1>7. CASE QuickShutdown
  BY <1>7, PollExit DEF QuickShutdown
<1>8. CASE BalancerStep
  BY <1>8, PollBalancer
<1> QED
  BY <1>1, <1>2, <1>3, <1>4, <1>5, <1>6, <1>7, <1>8 DEF Next, Master, Environment

\* Lists, tables and the walk of Socket.cpp agree in every reachable state.
THEOREM PollInvariance == Spec => [](IInv /\ PollInv)
<1>1. Init => IInv /\ PollInv
  BY TypeInit, RoutingInit, PollInit DEF IInv
<1>2. IInv /\ PollInv /\ [Next]_vars => (IInv /\ PollInv)'
  BY InvariantStep, PollStep
<1> QED
  BY <1>1, <1>2, PTL DEF Spec

-------------------------------------------------------------------------------
(* What follows from it. *)

\* _clients and _clientFds hold the same descriptors, none twice but the -1 of failed
\* accepts, so the walk never meets a client that the map does not know.
THEOREM ListsAgree == Spec => []PollListMatchesMap
<1>1. PollInv => PollListMatchesMap
  BY DEF PollInv
<1> QED
  BY <1>1, PollInvariance, PTL

\* Erasing from the list that is walked skips no event.
THEOREM NoEventSkipped == Spec => []NoSkippedEvent
<1>1. PollInv => NoSkippedEvent
  BY DEF PollInv
<1> QED
  BY <1>1, PollInvariance, PTL

\* A client waits in the request list at most once.
THEOREM QueuedOnce == Spec => []NoDoubleRequest
<1>1. PollInv => NoDoubleRequest
  BY DEF PollInv
<1> QED
  BY <1>1, PollInvariance, PTL

\* While the master runs, an accepted connection stays among those that are polled
\* until it is reset, and poll takes the list unless an accept failed on its port.
THEOREM ConnectionsKept == Spec => []NoLostConnection
<1>1. IInv /\ PollInv => NoLostConnection
  <2> SUFFICES ASSUME IInv, PollInv, Running,
                      NEW f \in ClientFd, mfd[f] # NoConn, link[mfd[f]] # "reset"
               PROVE  LET s == TypeOf(mfd[f])
                      IN f \in clients[s] /\ (NoFd \in clients[s] \/ PollAccepts(s))
    BY DEF NoLostConnection
  <2> DEFINE s == TypeOf(mfd[f])
  <2>1. s \in SockType /\ f \in clients[s]
    BY DEF PollInv, StaysClient, TypeOf, SockType
  <2>2. NoFd \in clients[s] \/ PollAccepts(s)
    BY <2>1, ListFits DEF PollInv, IInv
  <2> QED
    BY <2>1, <2>2
<1> QED
  BY <1>1, PollInvariance, PTL

\* Queued requests stay behind the iterator and reported errors stay true.
THEOREM WalkInOrder == Spec => []WalkInv
<1>1. PollInv => WalkInv
  BY DEF PollInv, WalkInv
<1> QED
  BY <1>1, PollInvariance, PTL

-------------------------------------------------------------------------------
(* Bytes and answers. *)

\* The account of each connection: no answer is given before its byte was read,
\* and what a worker is assembling is read and not answered.
ServedInv == AnswersBacked /\ UnansweredInv

Busy(w) == wpc[w] \in {"recv", "interpret", "handshake1", "handshake2"}

LEMMA ServedTypes ==
  ASSUME TypeInv
  PROVE  /\ answers \in [Conns -> Nat]
         /\ sent \in [Conns -> Nat]
         /\ recvd \in [Conns -> Nat]
         /\ \A c \in Conns : sent[c] <= MaxSent /\ recvd[c] <= sent[c]
         /\ link \in [Conns -> {"none", "open", "fin", "reset"}]
         /\ chan \in [Workers -> Seq(Message)]
         /\ wpc \in [Workers -> {"receivFd", "recv", "interpret",
                                 "handshake1", "handshake2", "dead"}]
         /\ wfds \in [Workers -> Seq(Conns)]
         /\ cliFd \in [Workers -> [fd : Nat, type : SockType]]
         /\ got \in [Workers -> Nat]
<1>1. \A n \in 0 .. MaxSent : n \in Nat /\ n <= MaxSent
  BY KernelAssumption DEF KernelAssumption
<1> QED
  BY <1>1 DEF TypeInv, TypeOK, KernelTypeOK, WorkerTypeOK, BusyInv

\* A busy worker is busy with a connection it holds, which no other one does.
LEMMA ClientHeld ==
  ASSUME IInv, NEW w \in Workers, Busy(w)
  PROVE  /\ Client(w) \in Conns
         /\ Holds(w, Client(w))
         /\ \A v \in Workers : v # w => ~Holds(v, Client(w))
<1>1. /\ cliFd[w].fd \in 1 .. Len(wfds[w]) /\ wfds \in [Workers -> Seq(Conns)]
  BY ServedTypes DEF IInv, TypeInv, BusyInv, Busy
<1>2. Client(w) \in Conns /\ Holds(w, Client(w))
  BY <1>1, ElementOfSeq DEF Client, Holds
<1>3. ASSUME NEW v \in Workers, v # w, Holds(v, Client(w))
      PROVE  FALSE
  <2>1. \A u \in Workers : Range(wfds[u]) = {wfds[u][i] : i \in 1 .. Len(wfds[u])}
    BY <1>1 DEF Range
  <2>2. Client(w) \in Range(wfds[w]) /\ Client(w) \in Range(wfds[v])
    BY <1>2, <1>3, <2>1 DEF Holds
  <2> QED
    BY <1>3, <2>2, HeldOnce DEF OneWorkerPerConnection
<1> QED
  BY <1>2, <1>3

\* The master reads and answers nothing itself.
LEMMA MasterServesNobody ==
  ASSUME IInv, Master
  PROVE  UNCHANGED <<sent, recvd, answers, workerVars>>
<1>1. CASE ScanEntry /\ UNCHANGED workerVars
  BY <1>1, MasterScan DEF IInv, kernelVars
<1>2. CASE (AcceptClient \/ AcceptFails \/ NothingToAccept) /\ UNCHANGED workerVars
  BY <1>2 DEF AcceptClient, AcceptFails, NothingToAccept, kernelVars
<1>3. CASE (PollClients \/ NoEvent \/ ScanDone \/ Wake) /\ UNCHANGED workerVars
  BY <1>3 DEF PollClients, NoEvent, ScanDone, Wake, kernelVars
<1>4. CASE BalancerStep
  BY <1>4 DEF BalancerStep, SendToWorker, SendFails, Balanced, kernelVars, peerVars
<1> QED
  BY <1>1, <1>2, <1>3, <1>4 DEF Master, SocketLoop, Wake

LEMMA ServedInit == Init => ServedInv
  BY DEF Init, KernelInit, WorkerInit, ServedInv, AnswersBacked, UnansweredInv

\* A step of one worker that answers its client only and keeps its own account
\* keeps every account.
LEMMA ServedOthers ==
  ASSUME IInv, IInv', ServedInv, NEW w \in Workers,
         \A v \in Workers \ {w} : /\ wpc'[v] = wpc[v] /\ wfds'[v] = wfds[v]
                                  /\ cliFd'[v] = cliFd[v] /\ got'[v] = got[v],
         \A c \in Conns : recvd'[c] >= recvd[c],
         \A c \in Conns : \/ answers'[c] = answers[c]
                          \/ answers'[c] <= recvd'[c] /\ Busy(w) /\ c = Client(w),
         IF wpc'[w] \in {"recv", "interpret"}
           THEN answers'[Client(w)'] + got'[w] <= recvd'[Client(w)']
           ELSE got'[w] = 0
  PROVE  ServedInv'
<1>t. /\ answers \in [Conns -> Nat] /\ answers' \in [Conns -> Nat]
      /\ recvd \in [Conns -> Nat] /\ recvd' \in [Conns -> Nat]
      /\ got \in [Workers -> Nat]
  <2>1. \A n \in 0 .. MaxSent : n \in Nat
    OBVIOUS
  <2>2. answers' \in [Conns -> Nat] /\ recvd' \in [Conns -> 0 .. MaxSent]
    BY DEF IInv, TypeInv, TypeOK, KernelTypeOK
  <2> QED
    BY <2>1, <2>2, ServedTypes DEF IInv
<1>1. AnswersBacked'
  <2> SUFFICES ASSUME NEW c \in Conns PROVE answers'[c] <= recvd'[c]
    BY DEF AnswersBacked
  <2>1. answers[c] <= recvd[c]
    BY DEF ServedInv, AnswersBacked
  <2>2. answers[c] \in Nat /\ recvd[c] \in Nat /\ recvd'[c] \in Nat /\ recvd'[c] >= recvd[c]
    BY <1>t
  <2>3. answers[c] <= recvd'[c]
    BY <2>1, <2>2
  <2> QED
    BY <2>3
<1>2. ASSUME NEW v \in Workers
      PROVE  IF wpc'[v] \in {"recv", "interpret"}
               THEN answers'[Client(v)'] + got'[v] <= recvd'[Client(v)']
               ELSE got'[v] = 0
  <2>1. CASE v = w
    BY <2>1
  <2>2. CASE v # w
    <3>1. /\ wpc'[v] = wpc[v] /\ Client(v)' = Client(v) /\ got'[v] = got[v]
      BY <2>2 DEF Client
    <3>2. CASE wpc[v] \in {"recv", "interpret"}
      <4> DEFINE c == Client(v)
      <4>1. c \in Conns /\ (Busy(w) => c # Client(w))
        <5>1. Busy(v)
          BY <3>2 DEF Busy
        <5>2. ASSUME Busy(w), c = Client(w) PROVE FALSE
          <6>1. Holds(w, c)
            BY <5>2, ClientHeld
          <6> QED
            BY <2>2, <5>1, <6>1, ClientHeld
        <5> QED
          BY <5>1, <5>2, ClientHeld
      <4>2. answers[c] + got[v] <= recvd[c]
        BY <3>2 DEF ServedInv, UnansweredInv
      <4>3. answers'[c] = answers[c] /\ recvd'[c] >= recvd[c]
        BY <4>1
      <4> HIDE DEF c
      <4>4. answers[c] \in Nat /\ got[v] \in Nat /\ recvd[c] \in Nat /\ recvd'[c] \in Nat
        BY <1>t, <4>1
      <4>5. answers'[c] + got[v] <= recvd'[c]
        BY <4>2, <4>3, <4>4
      <4> QED
        BY <3>1, <3>2, <4>5 DEF c
    <3>3. CASE wpc[v] \notin {"recv", "interpret"}
      BY <3>1, <3>3 DEF ServedInv, UnansweredInv
    <3> QED
      BY <3>2, <3>3
  <2> QED
    BY <2>1, <2>2
<1> QED
  BY <1>1, <1>2 DEF ServedInv, UnansweredInv

\* Nothing is read or answered, and no worker turns elsewhere.
LEMMA ServedSame ==
  ASSUME IInv, ServedInv, UNCHANGED <<answers, recvd, workerVars>>
  PROVE  ServedInv'
  BY DEF workerVars, ServedInv, AnswersBacked, UnansweredInv, Client

LEMMA ServedWorkerStep ==
  ASSUME IInv, IInv', ServedInv, NEW w \in Workers, WorkerStep(w)
  PROVE  ServedInv'
<1>t. /\ answers \in [Conns -> Nat] /\ recvd \in [Conns -> Nat]
      /\ sent \in [Conns -> Nat]
      /\ \A c \in Conns : recvd[c] <= sent[c]
      /\ wpc \in [Workers -> {"receivFd", "recv", "interpret",
                              "handshake1", "handshake2", "dead"}]
      /\ wfds \in [Workers -> Seq(Conns)]
      /\ cliFd \in [Workers -> [fd : Nat, type : SockType]]
      /\ got \in [Workers -> Nat]
  BY ServedTypes DEF IInv
<1> DEFINE c == Client(w)
           Idle == \A v \in Workers \ {w} :
                     /\ wpc'[v] = wpc[v] /\ wfds'[v] = wfds[v]
                     /\ cliFd'[v] = cliFd[v] /\ got'[v] = got[v]
           Account == IF wpc'[w] \in {"recv", "interpret"}
                        THEN answers'[Client(w)'] + got'[w] <= recvd'[Client(w)']
                        ELSE got'[w] = 0
<1>a. IF wpc[w] \in {"recv", "interpret"} THEN answers[c] + got[w] <= recvd[c] ELSE got[w] = 0
  BY DEF ServedInv, UnansweredInv
<1>b. Busy(w) => c \in Conns
  BY ClientHeld
<1>r. ASSUME Idle, Account, UNCHANGED <<recvd, answers>>
      PROVE  ServedInv'
  <2>1. \A d \in Conns : recvd'[d] >= recvd[d] /\ answers'[d] = answers[d]
    BY <1>r, <1>t
  <2> QED
    BY <1>r, <2>1, ServedOthers
<1>e. ASSUME Die(w) \/ ResetClient(w)
      PROVE  Idle /\ Account
  BY <1>e, <1>t DEF Die, ResetClient
<1>1. CASE ReceivFd(w)
  <2>1. Idle /\ got' = got /\ UNCHANGED <<recvd, answers>>
    BY <1>1, <1>t DEF ReceivFd, HistoryClient
  <2>2. got[w] = 0 /\ wpc'[w] \in {"recv", "handshake1"}
    BY <1>1, <1>a, <1>t DEF ReceivFd
  <2>3. wpc'[w] = "recv" => Client(w)' \in Conns
    <3>1. wpc'[w] = "recv" => cliFd'[w].fd \in 1 .. Len(wfds'[w])
      BY DEF IInv, TypeInv, BusyInv
    <3>2. wfds'[w] \in Seq(Conns)
      BY DEF IInv, TypeInv, TypeOK, WorkerTypeOK
    <3> QED
      BY <3>1, <3>2, ElementOfSeq DEF Client
  <2>4. wpc'[w] = "recv" => answers[Client(w)'] <= recvd[Client(w)']
    BY <2>3 DEF ServedInv, AnswersBacked
  <2>5. Account
    BY <1>t, <2>1, <2>2, <2>3, <2>4
  <2> QED
    BY <1>r, <2>1, <2>5
<1>2. CASE ReceivNoFd(w) \/ InterpretCrash(w) \/ NoSslModule(w)
  BY <1>2, <1>e, <1>r DEF ReceivNoFd, InterpretCrash, NoSslModule
<1>3. CASE Recv(w)
  <2> DEFINE bytes == IF Unread(c) < BuffSize THEN Unread(c) ELSE BuffSize
  <2>0. c \in Conns /\ wpc[w] = "recv"
    BY <1>3, <1>b DEF Recv, Busy
  <2>1. bytes \in Nat
    BY <1>t, <2>0, KernelAssumption DEF Unread, KernelAssumption
  <2>2. /\ recvd' = [recvd EXCEPT ![c] = @ + bytes]
        /\ got' = [got EXCEPT ![w] = @ + bytes]
        /\ wpc' = [wpc EXCEPT ![w] = IF bytes = BuffSize THEN "recv" ELSE "interpret"]
        /\ UNCHANGED <<answers, wfds, cliFd>>
    BY <1>3 DEF Recv
  <2> HIDE DEF bytes
  <2>3. Idle
    BY <1>t, <2>2
  <2>4. Client(w)' = c
    BY <2>2 DEF Client
  <2> HIDE DEF c
  <2>5. Account
    <3>1. recvd'[c] = recvd[c] + bytes /\ got'[w] = got[w] + bytes
      BY <1>t, <2>0, <2>2
    <3>2. answers[c] + (got[w] + bytes) <= recvd[c] + bytes
      BY <1>a, <1>t, <2>0, <2>1
    <3>3. wpc'[w] \in {"recv", "interpret"}
      BY <1>t, <2>2
    <3> QED
      BY <2>2, <2>4, <3>1, <3>2, <3>3
  <2>6. \A d \in Conns : recvd'[d] >= recvd[d] /\ answers'[d] = answers[d]
    BY <1>t, <2>1, <2>2
  <2> QED
    BY <2>3, <2>5, <2>6, ServedOthers
<1>4. CASE Interpret(w)
  <2>0. c \in Conns /\ wpc[w] = "interpret" /\ Busy(w)
    BY <1>4, <1>b DEF Interpret, Busy
  <2>1. /\ answers' = [answers EXCEPT ![c] = IF link[c] = "reset" THEN @ ELSE @ + 1]
        /\ UNCHANGED recvd /\ got[w] > 0 /\ ResetClient(w)
    BY <1>4 DEF Interpret, HasRequestLine
  <2>2. Idle /\ Account
    BY <1>e, <2>1
  <2>c. c = Client(w)
    OBVIOUS
  <2> HIDE DEF c, Idle, Account
  <2>3. ASSUME NEW d \in Conns
        PROVE  answers'[d] = answers[d] \/ (answers'[d] <= recvd'[d] /\ d = c)
    <3>1. CASE d = c
      <4>1. answers'[c] <= answers[c] + 1
        BY <1>t, <2>0, <2>1
      <4>2. answers[c] + 1 <= recvd[c]
        BY <1>a, <1>t, <2>0, <2>1
      <4>3. answers'[c] \in Nat
        BY <1>t, <2>0, <2>1
      <4> QED
        BY <1>t, <2>0, <2>1, <3>1, <4>1, <4>2, <4>3
    <3>2. CASE d # c
      BY <1>t, <2>0, <2>1, <3>2
    <3> QED
      BY <3>1, <3>2
  <2>4. \A d \in Conns : recvd'[d] >= recvd[d]
    BY <1>t, <2>1
  <2> QED
    BY <2>0, <2>2, <2>3, <2>4, <2>c, ServedOthers DEF Idle, Account
<1>5. CASE Handshake(w)
  <2>0. c \in Conns /\ wpc[w] \in {"handshake1", "handshake2"} /\ got[w] = 0
    BY <1>5, <1>a, <1>b DEF Handshake, Busy
  <2>1. PICK bytes \in 0 .. Unread(c) : recvd' = [recvd EXCEPT ![c] = @ + bytes]
    BY <1>5 DEF Handshake
  <2>2. bytes \in Nat
    BY <1>t, <2>0, <2>1 DEF Unread
  <2>3. UNCHANGED answers
    BY <1>5 DEF Handshake
  <2>4. \A d \in Conns : recvd'[d] >= recvd[d] /\ answers'[d] = answers[d]
    BY <1>t, <2>0, <2>1, <2>2, <2>3
  <2>5. Idle /\ Account
    <3>1. CASE ResetClient(w)
      BY <1>e, <3>1
    <3>2. CASE /\ wpc' = wpc \/ wpc' = [wpc EXCEPT ![w] = "handshake2"]
               /\ UNCHANGED <<wfds, cliFd, got>>
      BY <1>t, <2>0, <3>2
    <3> QED
      BY <1>5, <3>1, <3>2 DEF Handshake
  <2> QED
    BY <2>4, <2>5, ServedOthers
<1> QED
  BY <1>1, <1>2, <1>3, <1>4, <1>5 DEF WorkerStep

LEMMA ServedStep == IInv /\ ServedInv /\ [Next]_vars => ServedInv'
<1> SUFFICES ASSUME IInv, ServedInv, [Next]_vars
             PROVE  ServedInv'
  OBVIOUS
<1>0. IInv'
  BY InvariantStep
<1>1. CASE \E w \in Workers : WorkerProcess(w)
  <2>1. PICK w \in Workers : WorkerProcess(w)
    BY <1>1
  <2>2. CASE MasterGone(w)
    <3>1. wpc \in [Workers -> {"receivFd", "recv", "interpret",
                               "handshake1", "handshake2", "dead"}]
      BY ServedTypes DEF IInv
    <3>2. got \in [Workers -> Nat] /\ cliFd \in [Workers -> [fd : Nat, type : SockType]]
      BY ServedTypes DEF IInv
    <3>3. recvd \in [Conns -> Nat]
      BY ServedTypes DEF IInv
    <3>4. /\ \A v \in Workers \ {w} : /\ wpc'[v] = wpc[v] /\ wfds'[v] = wfds[v]
                                      /\ cliFd'[v] = cliFd[v] /\ got'[v] = got[v]
          /\ wpc'[w] = "dead" /\ got'[w] = 0
      BY <2>2, <3>1, <3>2 DEF MasterGone, Die
    <3>5. \A d \in Conns : recvd'[d] >= recvd[d] /\ answers'[d] = answers[d]
      BY <2>2, <3>3 DEF MasterGone
    <3> QED
      BY <1>0, <3>4, <3>5, ServedOthers
  <2> QED
    BY <1>0, <2>1, <2>2, ServedWorkerStep DEF WorkerProcess
<1>2. CASE Master
  BY <1>2, MasterServesNobody, ServedSame
<1>3. CASE Environment \/ UNCHANGED vars
  <2>1. UNCHANGED <<answers, recvd, workerVars>>
    BY <1>3 DEF Environment, Peer, Connect, Send, Finish, Reset, GracefullShutdown, QuickShutdown,
       Signal, PollInterrupted, vars, kernelVars
  <2> QED
    BY <2>1, ServedSame
<1> QED
  BY <1>1, <1>2, <1>3 DEF Next

\* What workers hold, clients sent and the accounts say agree in every reachable state.
THEOREM ServedInvariance == Spec => [](IInv /\ ServedInv)
<1>1. Init => IInv /\ ServedInv
  BY TypeInit, RoutingInit, ServedInit DEF IInv
<1>2. IInv /\ ServedInv /\ [Next]_vars => (IInv /\ ServedInv)'
  BY InvariantStep, ServedStep
<1> QED
  BY <1>1, <1>2, PTL DEF Spec

\* No answer that was not paid for by a byte of its own connection.
THEOREM AnswersEarned == Spec => []AnswersBacked
<1>1. ServedInv => AnswersBacked
  BY DEF ServedInv
<1> QED
  BY <1>1, ServedInvariance, PTL

\* What a worker has of a request is its client's, read and not answered yet.
THEOREM AccountsKept == Spec => []UnansweredInv
<1>1. ServedInv => UnansweredInv
  BY DEF ServedInv
<1> QED
  BY <1>1, ServedInvariance, PTL

-------------------------------------------------------------------------------
(* The refinement: what the service sees of a state. *)

\* The reader of a connection is the worker that holds it, and its fresh bytes
\* are those in that worker's buffer while it serves it.
OwnerAgrees ==
  \A c \in Conns :
    /\ \A w \in Workers : Holds(w, c) => Owner(c) = w
    /\ (\A w \in Workers : ~Holds(w, c)) => Owner(c) = Nobody

FreshAgrees ==
  \A c \in Conns :
    /\ \A w \in Workers : Serving(w, c) => Fresh(c) = got[w]
    /\ (\A w \in Workers : ~Serving(w, c)) => Fresh(c) = 0

LEMMA NobodyWorks == Nobody \notin Workers
  BY KernelAssumption DEF Nobody, Workers, KernelAssumption

LEMMA ServiceSees == IInv => OwnerAgrees /\ FreshAgrees /\ OneWorkerPerConnection
<1> SUFFICES ASSUME IInv
             PROVE  OwnerAgrees /\ FreshAgrees
  BY HeldOnce
<1>t. wfds \in [Workers -> Seq(Conns)]
  BY ServedTypes DEF IInv
<1>1. ASSUME NEW c \in Conns, NEW v \in Workers, NEW w \in Workers, Holds(v, c), Holds(w, c)
      PROVE  v = w
  <2>1. \A u \in Workers : Range(wfds[u]) = {wfds[u][i] : i \in 1 .. Len(wfds[u])}
    BY <1>t DEF Range
  <2>2. c \in Range(wfds[v]) /\ c \in Range(wfds[w])
    BY <1>1, <2>1 DEF Holds
  <2> QED
    BY <2>2, HeldOnce DEF OneWorkerPerConnection
<1>2. ASSUME NEW c \in Conns, NEW w \in Workers, Holds(w, c)
      PROVE  Owner(c) = w
  <2>1. Owner(c) \in Workers /\ Holds(Owner(c), c)
    BY <1>2 DEF Owner
  <2> QED
    BY <1>1, <1>2, <2>1
<1>3. OwnerAgrees
  BY <1>2 DEF OwnerAgrees, Owner
<1>4. ASSUME NEW c \in Conns, NEW w \in Workers, Serving(w, c)
      PROVE  Fresh(c) = got[w]
  <2>1. Holds(w, c)
    BY <1>4, ClientHeld DEF Serving, Busy
  <2> QED
    BY <1>2, <1>4, <2>1 DEF Fresh
<1>5. FreshAgrees
  BY <1>4 DEF FreshAgrees, Fresh
<1> QED
  BY <1>3, <1>5

LEMMA ServiceSeesNext == IInv' => OwnerAgrees' /\ FreshAgrees' /\ OneWorkerPerConnection'
  BY ServiceSees, PTL

\* The service's state as NetStack's variables determine it.
LEMMA SameService ==
  ASSUME UNCHANGED <<sent, recvd, answers>>,
         \A c \in Conns : Owner(c)' = Owner(c) /\ Fresh(c)' = Fresh(c)
  PROVE  UNCHANGED Service!serviceVars
  BY DEF Service!serviceVars

LEMMA ServiceInitialised == Init => Service!ServiceInit
<1> SUFFICES ASSUME Init PROVE Service!ServiceInit
  OBVIOUS
<1>1. \A c \in Conns : Owner(c) = Nobody /\ Fresh(c) = 0
  <2>1. \A w \in Workers : wfds[w] = <<>>
    BY DEF Init, WorkerInit
  <2>2. \A c \in Conns, w \in Workers : ~Holds(w, c)
    BY <2>1 DEF Holds
  <2> QED
    BY <2>2, NobodyWorks DEF Owner, Fresh
<1> QED
  BY <1>1 DEF Service!ServiceInit, Init, KernelInit

LEMMA ServiceReads ==
  ASSUME NEW c \in Conns, Owner(c) # Nobody, NEW n \in recvd[c] + 1 .. sent[c],
         recvd' = [recvd EXCEPT ![c] = n], UNCHANGED <<sent, answers>>,
         \A d \in Conns : Owner(d)' = Owner(d),
         \/ \A d \in Conns : Fresh(d)' = IF d = c THEN Fresh(c) + (n - recvd[c]) ELSE Fresh(d)
         \/ \A d \in Conns : Fresh(d)' = Fresh(d)
  PROVE  Service!ServiceNext
<1>1. Service!Read(c)
  BY DEF Service!Read
<1> QED
  BY <1>1 DEF Service!ServiceNext

LEMMA ServiceClaims ==
  ASSUME NEW c \in Conns, NEW w \in Workers, Owner(c) = Nobody,
         UNCHANGED <<sent, recvd, answers>>,
         \A d \in Conns : Owner(d)' = IF d = c THEN w ELSE Owner(d),
         \A d \in Conns : Fresh(d)' = Fresh(d)
  PROVE  Service!ServiceNext
<1>1. Service!Claim(c, w)
  BY DEF Service!Claim
<1> QED
  BY <1>1 DEF Service!ServiceNext

LEMMA ServiceEnds ==
  ASSUME NEW c \in Conns, Fresh(c) > 0, UNCHANGED <<sent, recvd>>,
         answers' = answers \/ answers' = [answers EXCEPT ![c] = @ + 1],
         \A d \in Conns : Owner(d)' = Owner(d),
         \A d \in Conns : Fresh(d)' = IF d = c THEN 0 ELSE Fresh(d)
  PROVE  Service!ServiceNext
<1>1. CASE answers' = answers
  BY <1>1 DEF Service!ServiceNext, Service!Forget
<1>2. CASE answers' = [answers EXCEPT ![c] = @ + 1]
  BY <1>2 DEF Service!ServiceNext, Service!Answer
<1> QED
  BY <1>1, <1>2

\* In a step of worker w the fresh bytes of a connection that w serves neither
\* before nor after are another worker's, and stay.
LEMMA FreshElsewhere ==
  ASSUME IInv, IInv', NEW w \in Workers, NEW d \in Conns,
         \A v \in Workers \ {w} : /\ wpc'[v] = wpc[v] /\ wfds'[v] = wfds[v]
                                  /\ cliFd'[v] = cliFd[v] /\ got'[v] = got[v],
         Serving(w, d) => got[w] = 0,
         Serving(w, d)' => got'[w] = 0
  PROVE  Fresh(d)' = Fresh(d)
<1>1. \A v \in Workers \ {w} : Serving(v, d)' <=> Serving(v, d)
  BY DEF Serving, Client
<1>2. OwnerAgrees /\ FreshAgrees /\ OwnerAgrees' /\ FreshAgrees'
  BY ServiceSees, ServiceSeesNext
<1>3. CASE \E v \in Workers \ {w} : Serving(v, d)
  <2>1. PICK v \in Workers \ {w} : Serving(v, d)
    BY <1>3
  <2>2. Fresh(d) = got[v] /\ Fresh(d)' = got'[v]
    BY <1>1, <1>2, <2>1 DEF FreshAgrees
  <2> QED
    BY <2>1, <2>2
<1>4. CASE \A v \in Workers \ {w} : ~Serving(v, d)
  <2>1. Fresh(d) = 0
    <3>1. CASE Serving(w, d)
      BY <1>2, <3>1 DEF FreshAgrees
    <3>2. CASE ~Serving(w, d)
      BY <1>2, <1>4, <3>2 DEF FreshAgrees
    <3> QED
      BY <3>1, <3>2
  <2>2. Fresh(d)' = 0
    <3>1. CASE Serving(w, d)'
      BY <1>2, <3>1 DEF FreshAgrees
    <3>2. CASE ~Serving(w, d)'
      BY <1>1, <1>2, <1>4, <3>2 DEF FreshAgrees
    <3> QED
      BY <3>1, <3>2
  <2> QED
    BY <2>1, <2>2
<1> QED
  BY <1>3, <1>4

\* The same for the connection w serves before the step: then no other does.
LEMMA FreshHere ==
  ASSUME IInv, IInv', NEW w \in Workers, NEW c \in Conns, Serving(w, c), wfds' = wfds
  PROVE  /\ Fresh(c) = got[w] /\ Owner(c) = w
         /\ Fresh(c)' = IF Serving(w, c)' THEN got'[w] ELSE 0
<1>1. OwnerAgrees /\ FreshAgrees /\ OwnerAgrees' /\ FreshAgrees'
  BY ServiceSees, ServiceSeesNext
<1>2. Holds(w, c) /\ Holds(w, c)'
  BY ClientHeld DEF Serving, Busy, Holds
<1>3. Fresh(c) = got[w] /\ Owner(c) = w /\ Owner(c)' = w
  BY <1>1, <1>2 DEF OwnerAgrees, FreshAgrees
<1>4. Fresh(c)' = IF Serving(w, c)' THEN got'[w] ELSE 0
  BY <1>3 DEF Fresh
<1> QED
  BY <1>3, <1>4

\* No descriptor comes or goes: the readers stay.
LEMMA OwnersStay ==
  ASSUME wfds' = wfds
  PROVE  \A d \in Conns : Owner(d)' = Owner(d)
  BY DEF Owner, Holds

\* recvmsg claims the connection for the worker, or renews its claim.
LEMMA ReceivFdClaims ==
  ASSUME IInv, IInv', ServedInv, NEW w \in Workers, ReceivFd(w)
  PROVE  Service!ServiceNext \/ UNCHANGED Service!serviceVars
<1>t. /\ chan \in [Workers -> Seq(Message)]
      /\ wpc \in [Workers -> {"receivFd", "recv", "interpret",
                              "handshake1", "handshake2", "dead"}]
      /\ wfds \in [Workers -> Seq(Conns)]
      /\ cliFd \in [Workers -> [fd : Nat, type : SockType]]
      /\ got \in [Workers -> Nat]
  BY ServedTypes DEF IInv
<1>1. PICK c \in Conns : c = Head(chan[w]).conn
  <2>1. Head(chan[w]) \in Message
    BY <1>t, HeadTailProperties DEF ReceivFd
  <2> QED
    BY <2>1 DEF Message
<1>2. /\ wfds' = [wfds EXCEPT ![w] = Append(@, c)]
      /\ wpc[w] = "receivFd" /\ got' = got /\ UNCHANGED <<sent, recvd, answers>>
      /\ wpc' = [wpc EXCEPT ![w] = IF Head(chan[w]).type = "PLAIN" THEN "recv" ELSE "handshake1"]
      /\ \A v \in Workers \ {w} : cliFd'[v] = cliFd[v]
  BY <1>1, <1>t DEF ReceivFd, HistoryClient, peerVars
<1>3. got[w] = 0
  BY <1>2 DEF ServedInv, UnansweredInv
<1>4. \A d \in Conns : Fresh(d)' = Fresh(d)
  <2>1. \A v \in Workers \ {w} : /\ wpc'[v] = wpc[v] /\ wfds'[v] = wfds[v]
                                 /\ cliFd'[v] = cliFd[v] /\ got'[v] = got[v]
    BY <1>t, <1>2
  <2>2. got'[w] = 0
    BY <1>2, <1>3
  <2> QED
    BY <1>3, <2>1, <2>2, FreshElsewhere
<1>5. \A d \in Conns, v \in Workers :
        Holds(v, d)' <=> Holds(v, d) \/ (v = w /\ d = c)
  <2> TAKE d \in Conns, v \in Workers
  <2>1. CASE v # w
    BY <1>t, <1>2, <2>1 DEF Holds
  <2>2. CASE v = w
    <3>1. /\ wfds'[w] = Append(wfds[w], c) /\ Len(wfds[w]) \in Nat
          /\ Len(wfds'[w]) = Len(wfds[w]) + 1
          /\ wfds'[w][Len(wfds[w]) + 1] = c
          /\ \A i \in 1 .. Len(wfds[w]) : wfds'[w][i] = wfds[w][i]
      BY <1>t, <1>1, <1>2, AppendProperties
    <3>2. Holds(w, d)' => Holds(w, d) \/ d = c
      BY <3>1 DEF Holds
    <3>3. Holds(w, d) => Holds(w, d)'
      BY <3>1 DEF Holds
    <3>4. Holds(w, c)'
      BY <3>1 DEF Holds
    <3> QED
      BY <2>2, <3>2, <3>3, <3>4
  <2> QED
    BY <2>1, <2>2
<1>6. OwnerAgrees /\ OwnerAgrees'
  BY ServiceSees, ServiceSeesNext
<1>7. Owner(c)' = w
  BY <1>1, <1>5, <1>6 DEF OwnerAgrees
<1>8. \A d \in Conns : d # c => Owner(d)' = Owner(d)
  <2> TAKE d \in Conns
  <2> HAVE d # c
  <2>1. CASE \E v \in Workers : Holds(v, d)
    BY <1>5, <1>6, <2>1 DEF OwnerAgrees
  <2>2. CASE \A v \in Workers : ~Holds(v, d)
    BY <1>5, <1>6, <2>2 DEF OwnerAgrees
  <2> QED
    BY <2>1, <2>2
<1>9. CASE Holds(w, c)
  <2>1. Owner(c) = w
    BY <1>1, <1>6, <1>9 DEF OwnerAgrees
  <2> QED
    BY <1>2, <1>4, <1>7, <1>8, <2>1, SameService
<1>10. CASE ~Holds(w, c)
  <2>1. ASSUME NEW v \in Workers, Holds(v, c)
        PROVE  FALSE
    <3>1. Holds(v, c)' /\ Holds(w, c)'
      BY <1>1, <1>5, <2>1
    <3>2. v = w
      BY <1>1, <1>6, <3>1 DEF OwnerAgrees
    <3> QED
      BY <1>10, <2>1, <3>2
  <2>2. Owner(c) = Nobody
    BY <1>1, <1>6, <2>1 DEF OwnerAgrees
  <2> QED
    BY <1>1, <1>2, <1>4, <1>7, <1>8, <2>2, ServiceClaims
<1> QED
  BY <1>9, <1>10

\* recv reads fresh bytes of the client; none at the end of its stream.
LEMMA RecvReads ==
  ASSUME IInv, IInv', NEW w \in Workers, Recv(w)
  PROVE  Service!ServiceNext \/ UNCHANGED Service!serviceVars
<1>t. /\ recvd \in [Conns -> Nat] /\ sent \in [Conns -> Nat]
      /\ \A d \in Conns : recvd[d] <= sent[d]
      /\ wpc \in [Workers -> {"receivFd", "recv", "interpret",
                              "handshake1", "handshake2", "dead"}]
      /\ got \in [Workers -> Nat]
  BY ServedTypes DEF IInv
<1>1. PICK c \in Conns : c = Client(w) /\ Serving(w, c)
  BY ClientHeld DEF Recv, Busy, Serving
<1>2. PICK bytes \in Nat : /\ bytes = IF Unread(c) < BuffSize THEN Unread(c) ELSE BuffSize
                           /\ recvd[c] + bytes <= sent[c]
  BY <1>t, <1>1, KernelAssumption DEF Unread, KernelAssumption
<1>3. /\ recvd' = [recvd EXCEPT ![c] = @ + bytes]
      /\ got' = [got EXCEPT ![w] = @ + bytes]
      /\ wpc' = [wpc EXCEPT ![w] = IF bytes = BuffSize THEN "recv" ELSE "interpret"]
      /\ UNCHANGED <<sent, answers, wfds, cliFd>>
  BY <1>1, <1>2 DEF Recv, peerVars
<1>4. Client(w)' = c
  BY <1>1, <1>3 DEF Client
<1>5. \A d \in Conns : d # c => ~Serving(w, d) /\ ~Serving(w, d)'
  BY <1>1, <1>4 DEF Serving
<1>6. Serving(w, c)' /\ got'[w] = got[w] + bytes
  BY <1>t, <1>3, <1>4 DEF Serving
<1>7. \A d \in Conns : Owner(d)' = Owner(d)
  BY <1>3, OwnersStay
<1>8. Fresh(c) = got[w] /\ Owner(c) = w /\ Fresh(c)' = got[w] + bytes
  BY <1>1, <1>3, <1>6, FreshHere
<1>9. \A d \in Conns : d # c => Fresh(d)' = Fresh(d)
  <2>1. \A v \in Workers \ {w} : /\ wpc'[v] = wpc[v] /\ wfds'[v] = wfds[v]
                                 /\ cliFd'[v] = cliFd[v] /\ got'[v] = got[v]
    BY <1>t, <1>3
  <2> QED
    BY <1>5, <2>1, FreshElsewhere
<1>10. CASE bytes = 0
  <2>1. recvd' = recvd /\ Fresh(c)' = Fresh(c)
    BY <1>t, <1>1, <1>3, <1>8, <1>10
  <2> QED
    BY <1>3, <1>7, <1>9, <2>1, SameService
<1>11. CASE bytes # 0
  <2>1. PICK n \in recvd[c] + 1 .. sent[c] : n = recvd[c] + bytes
    BY <1>t, <1>1, <1>2, <1>11
  <2>2. recvd' = [recvd EXCEPT ![c] = n] /\ n - recvd[c] = bytes
    BY <1>3, <1>t, <2>1
  <2>3. \A d \in Conns : Fresh(d)' = IF d = c THEN Fresh(c) + (n - recvd[c]) ELSE Fresh(d)
    BY <1>8, <1>9, <2>2
  <2>4. Owner(c) # Nobody
    BY <1>8, NobodyWorks
  <2> QED
    BY <1>1, <1>3, <1>7, <2>1, <2>2, <2>3, <2>4, ServiceReads, ZenonT(60)
<1> QED
  BY <1>10, <1>11

\* An answer, or the end of the worker before it, uses up the fresh bytes.
LEMMA InterpretEnds ==
  ASSUME IInv, IInv', NEW w \in Workers, Interpret(w) \/ InterpretCrash(w)
  PROVE  Service!ServiceNext \/ UNCHANGED Service!serviceVars
<1>t. /\ wpc \in [Workers -> {"receivFd", "recv", "interpret",
                              "handshake1", "handshake2", "dead"}]
      /\ cliFd \in [Workers -> [fd : Nat, type : SockType]]
      /\ got \in [Workers -> Nat]
      /\ answers \in [Conns -> Nat]
  BY ServedTypes DEF IInv
<1>1. PICK c \in Conns : c = Client(w) /\ Serving(w, c)
  BY ClientHeld DEF Interpret, InterpretCrash, Busy, Serving
<1>2. /\ wpc' = [wpc EXCEPT ![w] = "receivFd"] \/ wpc' = [wpc EXCEPT ![w] = "dead"]
      /\ got' = [got EXCEPT ![w] = 0] /\ UNCHANGED <<sent, recvd, wfds>>
      /\ \A v \in Workers \ {w} : cliFd'[v] = cliFd[v]
  BY <1>t DEF Interpret, InterpretCrash, ResetClient, Die, peerVars
<1>3. answers' = answers \/ (HasRequestLine(w) /\ answers' = [answers EXCEPT ![c] = @ + 1])
  BY <1>t, <1>1 DEF Interpret, InterpretCrash
<1>4. \A d \in Conns : (d # c => ~Serving(w, d)) /\ ~Serving(w, d)'
  BY <1>t, <1>1, <1>2 DEF Serving
<1>5. \A d \in Conns : Owner(d)' = Owner(d)
  BY <1>2, OwnersStay
<1>6. Fresh(c) = got[w] /\ Fresh(c)' = 0
  BY <1>1, <1>2, <1>4, FreshHere
<1>7. \A d \in Conns : d # c => Fresh(d)' = Fresh(d)
  <2>1. \A v \in Workers \ {w} : /\ wpc'[v] = wpc[v] /\ wfds'[v] = wfds[v]
                                 /\ cliFd'[v] = cliFd[v] /\ got'[v] = got[v]
    BY <1>t, <1>2
  <2> QED
    BY <1>4, <2>1, FreshElsewhere
<1>8. CASE got[w] = 0
  <2>1. answers' = answers
    BY <1>3, <1>8 DEF HasRequestLine
  <2> QED
    BY <1>2, <1>5, <1>6, <1>7, <1>8, <2>1, SameService
<1>9. CASE got[w] # 0
  <2>1. Fresh(c) > 0
    BY <1>t, <1>6, <1>9
  <2> QED
    BY <1>1, <1>2, <1>3, <1>5, <1>6, <1>7, <2>1, ServiceEnds
<1> QED
  BY <1>8, <1>9

\* A handshake consumes bytes without ever owing an answer for them.
LEMMA HandshakeReads ==
  ASSUME IInv, IInv', NEW w \in Workers, Handshake(w)
  PROVE  Service!ServiceNext \/ UNCHANGED Service!serviceVars
<1>t. /\ recvd \in [Conns -> Nat] /\ sent \in [Conns -> Nat]
      /\ wpc \in [Workers -> {"receivFd", "recv", "interpret",
                              "handshake1", "handshake2", "dead"}]
      /\ cliFd \in [Workers -> [fd : Nat, type : SockType]]
      /\ got \in [Workers -> Nat]
  BY ServedTypes DEF IInv
<1>1. PICK c \in Conns : c = Client(w) /\ Holds(w, c)
  BY ClientHeld DEF Handshake, Busy
<1>2. PICK bytes \in 0 .. Unread(c) : recvd' = [recvd EXCEPT ![c] = @ + bytes]
  BY <1>1 DEF Handshake
<1>3. UNCHANGED <<sent, answers, wfds>> /\ wpc[w] \in {"handshake1", "handshake2"}
  BY DEF Handshake, ResetClient, peerVars
<1>4. /\ \A v \in Workers \ {w} : wpc'[v] = wpc[v] /\ cliFd'[v] = cliFd[v] /\ got'[v] = got[v]
      /\ wpc'[w] \notin {"recv", "interpret"}
  <2>1. CASE ResetClient(w)
    BY <1>t, <2>1 DEF ResetClient
  <2>2. CASE /\ wpc' = wpc \/ wpc' = [wpc EXCEPT ![w] = "handshake2"]
             /\ UNCHANGED <<cliFd, got>>
    BY <1>t, <1>3, <2>2
  <2> QED
    BY <2>1, <2>2 DEF Handshake
<1>5. \A d \in Conns : Fresh(d)' = Fresh(d)
  <2>1. \A d \in Conns : ~Serving(w, d) /\ ~Serving(w, d)'
    BY <1>3, <1>4 DEF Serving
  <2>2. \A v \in Workers \ {w} : /\ wpc'[v] = wpc[v] /\ wfds'[v] = wfds[v]
                                 /\ cliFd'[v] = cliFd[v] /\ got'[v] = got[v]
    BY <1>3, <1>4
  <2> QED
    BY <2>1, <2>2, FreshElsewhere
<1>6. \A d \in Conns : Owner(d)' = Owner(d)
  BY <1>3, OwnersStay
<1>7. CASE bytes = 0
  <2>1. recvd' = recvd
    BY <1>t, <1>1, <1>2, <1>7
  <2> QED
    BY <1>3, <1>5, <1>6, <2>1, SameService
<1>8. CASE bytes # 0
  <2>1. PICK n \in recvd[c] + 1 .. sent[c] : n = recvd[c] + bytes
    BY <1>t, <1>1, <1>2, <1>8 DEF Unread
  <2>2. recvd' = [recvd EXCEPT ![c] = n]
    BY <1>2, <2>1
  <2>3. Owner(c) # Nobody
    BY <1>1, NobodyWorks, ServiceSees DEF OwnerAgrees
  <2> QED
    BY <1>1, <1>3, <1>5, <1>6, <2>1, <2>2, <2>3, ServiceReads
<1> QED
  BY <1>7, <1>8

\* A worker that is idle, or only shakes hands, and stops: nothing to be seen.
LEMMA IdleStops ==
  ASSUME IInv, IInv', NEW w \in Workers,
         wpc[w] \in {"receivFd", "handshake1"}, Die(w) \/ ResetClient(w),
         UNCHANGED <<sent, recvd, answers>>
  PROVE  UNCHANGED Service!serviceVars
<1>t. /\ wpc \in [Workers -> {"receivFd", "recv", "interpret",
                              "handshake1", "handshake2", "dead"}]
      /\ cliFd \in [Workers -> [fd : Nat, type : SockType]]
      /\ got \in [Workers -> Nat]
  BY ServedTypes DEF IInv
<1>1. /\ \A v \in Workers \ {w} : /\ wpc'[v] = wpc[v] /\ wfds'[v] = wfds[v]
                                  /\ cliFd'[v] = cliFd[v] /\ got'[v] = got[v]
      /\ wpc'[w] \in {"receivFd", "dead"} /\ wfds' = wfds
  BY <1>t DEF Die, ResetClient
<1>2. \A d \in Conns : ~Serving(w, d) /\ ~Serving(w, d)'
  BY <1>1 DEF Serving
<1> QED
  BY <1>1, <1>2, FreshElsewhere, OwnersStay, SameService

-------------------------------------------------------------------------------
(* The refinement: every step. *)

LEMMA ServiceStep ==
  IInv /\ ServedInv /\ [Next]_vars => [Service!ServiceNext]_(Service!serviceVars)
<1> SUFFICES ASSUME IInv, ServedInv, [Next]_vars
             PROVE  Service!ServiceNext \/ UNCHANGED Service!serviceVars
  OBVIOUS
<1>0. IInv'
  BY InvariantStep
<1>1. ASSUME NEW w \in Workers, WorkerProcess(w)
      PROVE  Service!ServiceNext \/ UNCHANGED Service!serviceVars
  <2>1. CASE ReceivFd(w)
    BY <1>0, <2>1, ReceivFdClaims
  <2>2. CASE ReceivNoFd(w) \/ NoSslModule(w) \/ MasterGone(w)
    <3>1. /\ wpc[w] \in {"receivFd", "handshake1"} /\ (Die(w) \/ ResetClient(w))
          /\ UNCHANGED <<sent, recvd, answers>>
      BY <2>2 DEF ReceivNoFd, NoSslModule, MasterGone, peerVars
    <3> QED
      BY <1>0, <3>1, IdleStops
  <2>3. CASE Recv(w)
    BY <1>0, <2>3, RecvReads
  <2>4. CASE Interpret(w) \/ InterpretCrash(w)
    BY <1>0, <2>4, InterpretEnds
  <2>5. CASE Handshake(w)
    BY <1>0, <2>5, HandshakeReads
  <2> QED
    BY <1>1, <2>1, <2>2, <2>3, <2>4, <2>5 DEF WorkerProcess, WorkerStep
<1>2. ASSUME UNCHANGED <<sent, recvd, answers, workerVars>>
      PROVE  UNCHANGED Service!serviceVars
  <2>1. UNCHANGED <<wpc, wfds, cliFd, got>>
    BY <1>2 DEF workerVars
  <2>2. \A d \in Conns : Owner(d)' = Owner(d)
    BY <2>1, OwnersStay
  <2>3. \A d \in Conns : Fresh(d)' = Fresh(d)
    BY <2>1, <2>2 DEF Fresh, Serving, Client
  <2> QED
    BY <1>2, <2>2, <2>3, SameService
<1>3. CASE Master
  BY <1>2, <1>3, MasterServesNobody
<1>4. CASE Peer /\ UNCHANGED <<netVars, workerVars, alive, signals>>
  <2>1. PICK c \in Conns : Connect(c) \/ (\E n \in 1 .. MaxSent : Send(c, n)) \/ Finish(c) \/ Reset(c)
    BY <1>4 DEF Peer
  <2>2. CASE Connect(c) \/ Finish(c) \/ Reset(c)
    BY <1>2, <1>4, <2>2 DEF Connect, Finish, Reset
  <2>3. CASE \E n \in 1 .. MaxSent : Send(c, n)
    <3>1. PICK n \in 1 .. MaxSent : Send(c, n)
      BY <2>3
    <3>2. sent \in [Conns -> Nat]
      BY ServedTypes DEF IInv
    <3>3. PICK m \in sent[c] + 1 .. MaxSent : m = sent[c] + n
      BY <3>1, <3>2, KernelAssumption DEF Send, KernelAssumption
    <3>4. sent' = [sent EXCEPT ![c] = m] /\ UNCHANGED <<recvd, answers>>
      BY <3>1, <3>3 DEF Send
    <3>5. \A d \in Conns : Owner(d)' = Owner(d)
      BY <1>4, OwnersStay DEF workerVars
    <3>6. \A d \in Conns : Fresh(d)' = Fresh(d)
      BY <1>4, <3>5 DEF Fresh, Serving, Client, workerVars
    <3>7. Service!Arrive(c)
      BY <3>3, <3>4, <3>5, <3>6 DEF Service!Arrive
    <3> QED
      BY <3>7 DEF Service!ServiceNext
  <2> QED
    BY <2>1, <2>2, <2>3
<1>5. CASE GracefullShutdown \/ QuickShutdown \/ Signal \/ UNCHANGED vars
  <2>1. UNCHANGED <<sent, recvd, answers, workerVars>>
    BY <1>5 DEF GracefullShutdown, QuickShutdown, Signal, PollInterrupted, vars, kernelVars
  <2> QED
    BY <1>2, <2>1
<1> QED
  BY <1>1, <1>3, <1>4, <1>5 DEF Next, Environment

\* Master, balancer, workers and clients together do what the service promises,
\* for any number of connections, descriptors and workers.
THEOREM Refinement == Spec => ImplementsClientService
<1>1. IInv /\ ServedInv /\ [Next]_vars => [Service!ServiceNext]_(Service!serviceVars)
  BY ServiceStep
<1> QED
  BY <1>1, ServiceInitialised, ServedInvariance, PTL
  DEF Spec, ImplementsClientService, Service!ServiceSpec
===============================================================================
