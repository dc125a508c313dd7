----------------------------- MODULE ClientService ----------------------------
(***************************************************************************)
(* What the network stack promises its clients, whatever happens between   *)
(* the master and the workers: a connection has one reader for ever; an    *)
(* answer is only given for bytes that this reader took from this          *)
(* connection since the last one; no byte counts for two answers.          *)
(* Sockets, descriptors, queues, polls and signals do not appear.          *)
(***************************************************************************)
EXTENDS Integers

CONSTANTS Conns, Workers, Nobody, MaxSent

VARIABLES
  sent,     \* [Conns -> Nat], bytes that reached the server
  recvd,    \* [Conns -> Nat], bytes read
  answers,  \* [Conns -> Nat]
  owner,    \* [Conns -> Workers \cup {Nobody}], the reader
  fresh     \* [Conns -> Nat], bytes read and not answered yet

serviceVars == <<sent, recvd, answers, owner, fresh>>

ServiceInit ==
  /\ sent = [c \in Conns |-> 0]
  /\ recvd = [c \in Conns |-> 0]
  /\ answers = [c \in Conns |-> 0]
  /\ owner = [c \in Conns |-> Nobody]
  /\ fresh = [c \in Conns |-> 0]

Arrive(c) ==
  /\ \E n \in sent[c] + 1 .. MaxSent : sent' = [sent EXCEPT ![c] = n]
  /\ UNCHANGED <<recvd, answers, owner, fresh>>

Claim(c, w) ==
  /\ owner[c] = Nobody
  /\ owner' = [owner EXCEPT ![c] = w]
  /\ UNCHANGED <<sent, recvd, answers, fresh>>

\* The reader takes bytes, to answer them or (a TLS handshake) to consume them.
Read(c) ==
  /\ owner[c] # Nobody
  /\ \E n \in recvd[c] + 1 .. sent[c] :
       /\ recvd' = [recvd EXCEPT ![c] = n]
       /\ \/ fresh' = [fresh EXCEPT ![c] = @ + (n - recvd[c])]
          \/ UNCHANGED fresh
  /\ UNCHANGED <<sent, answers, owner>>

Answer(c) ==
  /\ fresh[c] > 0
  /\ answers' = [answers EXCEPT ![c] = @ + 1]
  /\ fresh' = [fresh EXCEPT ![c] = 0]
  /\ UNCHANGED <<sent, recvd, owner>>

\* The reader died, or the client left before its answer.
Forget(c) ==
  /\ fresh[c] > 0
  /\ fresh' = [fresh EXCEPT ![c] = 0]
  /\ UNCHANGED <<sent, recvd, answers, owner>>

ServiceNext ==
  \E c \in Conns :
    \/ Arrive(c)
    \/ \E w \in Workers : Claim(c, w)
    \/ Read(c)
    \/ Answer(c)
    \/ Forget(c)

ServiceSpec == ServiceInit /\ [][ServiceNext]_serviceVars
===============================================================================
