-------------------------------- MODULE Worker --------------------------------
(***************************************************************************)
(* The worker processes (sources/server/NetStack/Worker.cpp): each waits   *)
(* for a descriptor on its AF_UNIX stream, reads one request from it,      *)
(* interprets it and answers, then waits for the next descriptor.  Every   *)
(* call blocks, and a worker handles one client at a time.                 *)
(*                                                                         *)
(* HttpInterpreter::interpret appears by its effect on the connection:     *)
(* one answer, or the end of the process when the bytes hold no request    *)
(* line (HttpParser::parse takes v[0] of an empty vector); and by what it  *)
(* leaves open in the process.                                             *)
(***************************************************************************)
EXTENDS Kernel

CONSTANT SslModule   \* whether the configuration loads the SSL module

ASSUME SslModuleAssumption == SslModule \in BOOLEAN

VARIABLES
  wpc,    \* [Workers -> where the worker is in loop()]
  wfds,   \* [Workers -> Seq(Conns)]: descriptors received, in order, none closed
  hist,   \* [Workers -> [ClientFd -> index in wfds, or 0]]: Worker::_hClient
  cliFd,  \* [Workers -> [fd, type]]: Worker::_cliFd
  got,    \* [Workers -> Nat]: bytes of the request received so far
  leaked  \* [Workers -> Nat]: descriptors that interpret opened and nobody closes

workerVars == <<wpc, wfds, hist, cliFd, got, leaked>>

WorkerTypeOK ==
  /\ wpc \in [Workers -> {"receivFd", "recv", "interpret",
                          "handshake1", "handshake2", "dead"}]
  /\ wfds \in [Workers -> Seq(Conns)]
  /\ hist \in [Workers -> [ClientFd -> Nat]]
  /\ cliFd \in [Workers -> [fd : Nat, type : SockType]]
  /\ got \in [Workers -> Nat]
  /\ leaked \in [Workers -> Nat]

WorkerInit ==
  /\ wpc = [w \in Workers |-> "receivFd"]
  /\ wfds = [w \in Workers |-> <<>>]
  /\ hist = [w \in Workers |-> [f \in ClientFd |-> 0]]
  /\ cliFd = [w \in Workers |-> [fd |-> 0, type |-> "PLAIN"]]
  /\ got = [w \in Workers |-> 0]
  /\ leaked = [w \in Workers |-> 0]

\* The connection behind _cliFd.first.
Client(w) == wfds[w][cliFd[w].fd]

\* The process may open another descriptor.
HasRoom(w) == Len(wfds[w]) + leaked[w] < WorkerFdLimit

-------------------------------------------------------------------------------
(* The end of the process.  Nothing starts another one; what is still in its *)
(* stream is lost.  wfds and leaked keep what the process had open.          *)
Die(w) ==
  /\ wpc' = [wpc EXCEPT ![w] = "dead"]
  /\ chan' = [chan EXCEPT ![w] = <<>>]
  /\ cliFd' = [cliFd EXCEPT ![w] = [fd |-> 0, type |-> "PLAIN"]]
  /\ got' = [got EXCEPT ![w] = 0]
  /\ hist' = [hist EXCEPT ![w] = [f \in ClientFd |-> 0]]
  /\ UNCHANGED <<wfds, leaked>>

\* Mutant: _cliReq is not erased.
ResetDescriptorOnly(w) ==
  /\ wpc' = [wpc EXCEPT ![w] = "receivFd"]
  /\ cliFd' = [cliFd EXCEPT ![w].fd = 0]
  /\ UNCHANGED <<got, wfds, hist>>

\* resetClient, and back to receivFd.
ResetClient(w) ==
  /\ wpc' = [wpc EXCEPT ![w] = "receivFd"]
  /\ cliFd' = [cliFd EXCEPT ![w].fd = 0]
  /\ got' = [got EXCEPT ![w] = 0]
  /\ UNCHANGED <<wfds, hist>>

\* historyClient: the first descriptor ever received for the master's number is
\* the one that serves that number from then on.
HistoryClient(w, msg, fd) ==
  IF hist[w][msg.fd] = 0
    THEN /\ hist' = [hist EXCEPT ![w][msg.fd] = fd]
         /\ cliFd' = [cliFd EXCEPT ![w] = [fd |-> fd, type |-> msg.type]]
    ELSE /\ cliFd' = [cliFd EXCEPT ![w] = [fd |-> hist[w][msg.fd], type |-> msg.type]]
         /\ UNCHANGED hist

\* recvmsg installs the descriptor as a new number of this process.
ReceivFd(w) ==
  /\ wpc[w] = "receivFd"
  /\ chan[w] # <<>>
  /\ HasRoom(w)
  /\ LET msg == Head(chan[w]) IN
       /\ wfds' = [wfds EXCEPT ![w] = Append(@, msg.conn)]
       /\ HistoryClient(w, msg, Len(wfds[w]) + 1)
       /\ wpc' = [wpc EXCEPT ![w] =
                    IF msg.type = "PLAIN" THEN "recv" ELSE "handshake1"]
  /\ chan' = [chan EXCEPT ![w] = Tail(@)]
  /\ UNCHANGED <<peerVars, recvd, answers, backlog, mfd, got, leaked>>

\* With its table full the kernel delivers the text without the descriptor
\* (MSG_CTRUNC): CMSG_FIRSTHDR is NULL and the worker dereferences it.
ReceivNoFd(w) ==
  /\ wpc[w] = "receivFd"
  /\ chan[w] # <<>>
  /\ ~HasRoom(w)
  /\ Die(w)
  /\ UNCHANGED <<peerVars, recvd, answers, backlog, mfd>>

-------------------------------------------------------------------------------
(* handleRequestFromClient, PLAIN: recv until it returns less than BUFFSIZE. *)
(* 0 is the end of the stream (or an error): the loop ends as well.          *)
Recv(w) ==
  /\ wpc[w] = "recv"
  /\ Readable(Client(w))
  /\ LET c == Client(w)
         bytes == IF Unread(c) < BuffSize THEN Unread(c) ELSE BuffSize IN
       /\ recvd' = [recvd EXCEPT ![c] = @ + bytes]
       /\ got' = [got EXCEPT ![w] = @ + bytes]
       /\ wpc' = [wpc EXCEPT ![w] = IF bytes = BuffSize THEN "recv" ELSE "interpret"]
  /\ UNCHANGED <<peerVars, answers, backlog, mfd, chan, wfds, hist, cliFd, leaked>>

\* Mutant: an empty read is answered like any other malformed request.
NotBlank(w) == Client(w) \notin Blank

\* The buffer is appended whole, so a request of no byte is a string of NULs.
HasRequestLine(w) == got[w] > 0 /\ Client(w) \notin Blank

\* Mutant: resetClient before send, which then goes to descriptor 0.
InterpretAfterReset(w) ==
  /\ wpc[w] = "interpret"
  /\ HasRequestLine(w)
  /\ ResetClient(w)
  /\ UNCHANGED <<peerVars, recvd, answers, backlog, mfd, chan, leaked>>

\* viewDirectory opens the directory twice, if it can, and closes it once.
ViewDirectory(w) ==
  leaked' = [leaked EXCEPT ![w] =
               IF Client(w) \in Listing /\ HasRoom(w) THEN @ + 1 ELSE @]

\* interpret and send.  send fails once the peer has reset: only a log line.  It
\* waits while the peer does not read: a worker that hangs, like one in recv.
Interpret(w) ==
  /\ wpc[w] = "interpret"
  /\ HasRequestLine(w)
  /\ answers' = [answers EXCEPT ![Client(w)] =
                   IF link[Client(w)] = "reset" THEN @ ELSE @ + 1]
  /\ ViewDirectory(w)
  /\ ResetClient(w)
  /\ UNCHANGED <<peerVars, recvd, backlog, mfd, chan>>

InterpretCrash(w) ==
  /\ wpc[w] = "interpret"
  /\ ~HasRequestLine(w)
  /\ Die(w)
  /\ UNCHANGED <<peerVars, recvd, answers, backlog, mfd>>

-------------------------------------------------------------------------------
(* SSL: interpret("", fd) runs SSLModule::exec, which blocks in SSL_accept;  *)
(* parse("") then throws, and exec runs a second time on the error page.     *)
(* The handshake takes bytes until it succeeds, fails or meets the end.      *)
Handshake(w) ==
  /\ SslModule
  /\ wpc[w] \in {"handshake1", "handshake2"}
  /\ Readable(Client(w))
  /\ \E bytes \in 0 .. Unread(Client(w)) :
       /\ bytes = 0 => Unread(Client(w)) = 0
       /\ recvd' = [recvd EXCEPT ![Client(w)] = @ + bytes]
  /\ \/ /\ Unread(Client(w)) > 0
        /\ UNCHANGED <<wpc, wfds, hist, cliFd, got>>
     \/ /\ wpc[w] = "handshake1"
        /\ wpc' = [wpc EXCEPT ![w] = "handshake2"]
        /\ UNCHANGED <<wfds, hist, cliFd, got>>
     \/ /\ wpc[w] = "handshake2"
        /\ ResetClient(w)
  /\ UNCHANGED <<peerVars, answers, backlog, mfd, chan, leaked>>

\* Without the SSL module, interpret still calls _modules.front().module->exec:
\* undefined on an empty list, harmless when only the log module is loaded.
NoSslModule(w) ==
  /\ ~SslModule
  /\ wpc[w] = "handshake1"
  /\ \/ Die(w)
     \/ ResetClient(w) /\ UNCHANGED <<chan, leaked>>
  /\ UNCHANGED <<peerVars, recvd, answers, backlog, mfd>>

WorkerStep(w) ==
  \/ ReceivFd(w)
  \/ ReceivNoFd(w)
  \/ Recv(w)
  \/ Interpret(w)
  \/ InterpretCrash(w)
  \/ Handshake(w)
  \/ NoSslModule(w)
===============================================================================
