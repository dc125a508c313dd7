-------------------------- MODULE NetStackRefinement --------------------------
(* NetStack implements ClientService. *)
EXTENDS NetStack

Nobody == NbWorker

Holds(w, c) == \E i \in 1 .. Len(wfds[w]) : wfds[w][i] = c

\* The reader of a connection is the worker whose descriptor table it is in.
Owner(c) ==
  IF \E w \in Workers : Holds(w, c)
    THEN CHOOSE w \in Workers : Holds(w, c)
    ELSE Nobody

Serving(w, c) == wpc[w] \in {"recv", "interpret"} /\ Client(w) = c

\* Bytes in the request its reader is assembling.
Fresh(c) ==
  IF Owner(c) \in Workers /\ Serving(Owner(c), c) THEN got[Owner(c)] ELSE 0

Service == INSTANCE ClientService WITH
  owner <- [c \in Conns |-> Owner(c)],
  fresh <- [c \in Conns |-> Fresh(c)]

\* Every behaviour of master, balancer, workers and clients is one of the
\* service: one reader per connection, answers only for its own fresh bytes.
ImplementsClientService == Service!ServiceSpec
===============================================================================
