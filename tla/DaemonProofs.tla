----------------------------- MODULE DaemonProofs -----------------------------
(***************************************************************************)
(* What holds of the pid file for every number of processes, crashes and   *)
(* children that exit.                                                     *)
(*                                                                         *)
(* Types and the ports need no assumption.  One server at a time, named by *)
(* the file, needs an orderly past: the history variable of Daemon says    *)
(* what that is, and OrderInv what it gives.                               *)
(***************************************************************************)
EXTENDS Daemon, TLAPS

-------------------------------------------------------------------------------
(* Types. *)

LEMMA SignalsTyped ==
  ASSUME NEW c \in Sending
  PROVE  SignalOf(c) \in Signals
BY DEF Sending, SignalOf, Signals

LEMMA TypeInit == Init => TypeOK
BY DaemonAssumption DEF Init, TypeOK

\* A step of the command or of the constructor keeps the types.
LEMMA TypeCommand ==
  ASSUME TypeOK, NEW p \in Procs,
         \/ \E c \in Commands : Launch(p, c)
         \/ SendSignal(p) \/ WaitForFile(p) \/ CheckFile(p) \/ CreateFile(p)
         \/ Fork(p) \/ WritePid(p) \/ Constructed(p) \/ SignalInConstructor(p)
  PROVE  TypeOK'
<1> USE DEF TypeOK, Goto, End, Foreground, Sending, Server, Gone
<1>1. ASSUME NEW c \in Commands, Launch(p, c) PROVE TypeOK'
  BY <1>1, DaemonAssumption DEF Launch, AllCommands
<1>2. CASE SendSignal(p)
  <2>1. SignalOf(pc[p]) \in Signals
    BY <1>2, SignalsTyped DEF SendSignal
  <2>2. pending' \in [Procs -> SUBSET Signals]
    BY <1>2, <2>1 DEF SendSignal, Post
  <2> QED
    BY <1>2, <2>2 DEF SendSignal
<1>3. CASE WaitForFile(p)
  BY <1>3 DEF WaitForFile
<1>4. CASE CheckFile(p)
  BY <1>4 DEF CheckFile
<1>5. CASE CreateFile(p)
  BY <1>5 DEF CreateFile
<1>6. CASE Fork(p)
  BY <1>6 DEF Fork
<1>7. CASE WritePid(p)
  BY <1>7 DEF WritePid
<1>8. CASE Constructed(p)
  BY <1>8 DEF Constructed
<1>9. CASE SignalInConstructor(p)
  BY <1>9 DEF SignalInConstructor
<1> QED
  BY <1>1, <1>2, <1>3, <1>4, <1>5, <1>6, <1>7, <1>8, <1>9

\* A step of process(), of a handler or of the surroundings keeps the types.
LEMMA TypeServer ==
  ASSUME TypeOK, NEW p \in Procs,
         \/ ReadConf(p) \/ Bind(p) \/ Spawn(p, "spawn") \/ Spawn(p, "workers")
         \/ WorkersConnected(p) \/ LoopEnds(p) \/ Return(p)
         \/ QuickShutdown(p) \/ ExitAgain(p) \/ GracefullShutdown(p) \/ Reload(p)
         \/ BornStopped(p) \/ ChildExits(p) \/ Crash(p) \/ PortsFreed(p)
  PROVE  TypeOK'
<1> USE DEF TypeOK, Goto, End, Foreground, Sending, Server, Gone
<1>1. CASE ReadConf(p)
  BY <1>1 DEF ReadConf
<1>2. CASE Bind(p)
  BY <1>2 DEF Bind
<1>3. CASE WorkersConnected(p)
  BY <1>3 DEF WorkersConnected
<1>4. CASE LoopEnds(p)
  BY <1>4 DEF LoopEnds
<1>5. CASE Return(p)
  BY <1>5 DEF Return
<1>6. CASE QuickShutdown(p)
  BY <1>6 DEF QuickShutdown, Take
<1>7. CASE ExitAgain(p)
  BY <1>7 DEF ExitAgain
<1>8. CASE GracefullShutdown(p)
  BY <1>8 DEF GracefullShutdown, Take
<1>9. CASE Reload(p)
  BY <1>9 DEF Reload, Take
<1>10. CASE Crash(p)
  BY <1>10, DaemonAssumption DEF Crash
<1>11. CASE PortsFreed(p)
  BY <1>11 DEF PortsFreed
<1>12. CASE Spawn(p, "spawn") \/ Spawn(p, "workers")
  BY <1>12 DEF Spawn
<1>13. CASE BornStopped(p)
  BY <1>13 DEF BornStopped
<1>14. CASE ChildExits(p)
  BY <1>14, DaemonAssumption DEF ChildExits
<1> QED
  BY <1>1, <1>2, <1>3, <1>4, <1>5, <1>6, <1>7, <1>8, <1>9, <1>10, <1>11, <1>12, <1>13, <1>14

LEMMA TypeStep == TypeOK /\ [Next]_vars => TypeOK'
<1> SUFFICES ASSUME TypeOK, [Next]_vars PROVE TypeOK'
  OBVIOUS
<1>1. CASE UNCHANGED vars
  BY <1>1 DEF vars, TypeOK
<1> QED
  BY <1>1, TypeCommand, TypeServer DEF Next, Program

\* The state of the processes and of the file keeps its types, in every run.
THEOREM DaemonTypes == Spec => []TypeOK
BY TypeInit, TypeStep, PTL DEF Spec

-------------------------------------------------------------------------------
(* The ports: the invariant is inductive as it stands. *)

LEMMA PortsStep == TypeOK /\ ServerOwnsPorts /\ [Next]_vars => ServerOwnsPorts'
<1> SUFFICES ASSUME TypeOK, ServerOwnsPorts, [Next]_vars PROVE ServerOwnsPorts'
  OBVIOUS
<1>t. /\ pc \in [Procs -> {"idle", "writePid", "exiting"} \cup Foreground \cup Server \cup Gone]
      /\ alive \in [Procs -> BOOLEAN]
  BY DEF TypeOK
<1>1. CASE UNCHANGED vars
  BY <1>1 DEF vars, ServerOwnsPorts
<1>2. ASSUME NEW p \in Procs, Spawn(p, "spawn") \/ Spawn(p, "workers")
      PROVE  ServerOwnsPorts'
  BY <1>t, <1>2 DEF Spawn, Goto, ServerOwnsPorts
<1>3. ASSUME NEW p \in Procs, Bind(p) PROVE ServerOwnsPorts'
  BY <1>t, <1>3 DEF Bind, Goto, ServerOwnsPorts
<1>4. ASSUME NEW p \in Procs, PortsFreed(p) PROVE ServerOwnsPorts'
  BY <1>4 DEF PortsFreed, Gone, ServerOwnsPorts
<1>5. ASSUME NEW p \in Procs, WorkersConnected(p) PROVE ServerOwnsPorts'
  BY <1>t, <1>5 DEF WorkersConnected, Goto, ServerOwnsPorts
<1>6. ASSUME NEW p \in Procs, GracefullShutdown(p) PROVE ServerOwnsPorts'
  BY <1>t, <1>6 DEF GracefullShutdown, ServerOwnsPorts
<1>7. ASSUME NEW p \in Procs, Reload(p) \/ BornStopped(p) \/ ChildExits(p)
      PROVE  ServerOwnsPorts'
  BY <1>t, <1>7 DEF Reload, BornStopped, ChildExits, Goto, End, ServerOwnsPorts
<1>8. ASSUME NEW p \in Procs,
             \/ \E c \in Commands : Launch(p, c)
             \/ SendSignal(p) \/ WaitForFile(p) \/ CheckFile(p) \/ CreateFile(p)
             \/ Fork(p) \/ WritePid(p) \/ Constructed(p) \/ SignalInConstructor(p)
             \/ ReadConf(p) \/ LoopEnds(p) \/ Return(p) \/ QuickShutdown(p)
             \/ ExitAgain(p) \/ Crash(p)
      PROVE  ServerOwnsPorts'
  <2>1. /\ UNCHANGED <<alive, holders>>
        /\ \E where \in Sending \cup {"wait", "check", "create", "fork", "writePid", "ctor",
                         "conf", "bind", "return", "failed", "hung", "exiting", "done", "dead"} :
             pc' = [pc EXCEPT ![p] = where]
    BY <1>8, DaemonAssumption DEF Launch, SendSignal, WaitForFile, CheckFile, CreateFile, Fork, WritePid,
                Constructed, SignalInConstructor, ReadConf, LoopEnds, Return,
                QuickShutdown, ExitAgain, Crash, Goto, End, AllCommands
  <2> QED
    BY <1>t, <2>1 DEF ServerOwnsPorts, Sending
<1> QED
  BY <1>1, <1>2, <1>3, <1>4, <1>5, <1>6, <1>7, <1>8 DEF Next, Program

\* Whoever goes on serving owns both ports alone, though commands overlap, masters
\* crash and the workers of a stopped server keep its sockets: of two servers that
\* meet on a port (Network.cpp:40) one stops.
THEOREM PortsOwned == Spec => []ServerOwnsPorts
<1>1. Init => ServerOwnsPorts
  BY DEF Init, ServerOwnsPorts
<1> QED
  BY <1>1, TypeInit, TypeStep, PortsStep, PTL DEF Spec

-------------------------------------------------------------------------------

-------------------------------------------------------------------------------
(* One server, and its name in the file. *)

\* On its way to serve: the master has a pid of its own, and no worker is missing yet.
Starting == {"writePid", "ctor", "conf", "bind", "spawn", "workers"}
\* A command that something may still come of.
Active == Foreground \cup Starting
\* Who has the file, from the moment it was created until it is about to exit.
Owner == {"fork", "writePid", "exiting"} \cup Server

\* One command is active at most.  Nobody signals a server that is starting, so that
\* its flag is up when it forks its workers, and none of them is born to exit.  While
\* a command is active no server is being stopped quickly.
OrderInv ==
  /\ \A p, q \in Procs : pc[p] \in Active /\ pc[q] \in Active => p = q
  /\ \A p \in Procs : pc[p] \in {"idle"} \cup Active => alive[p] /\ pending[p] = {}
  /\ \A p, q \in Procs : pc[p] \in Active /\ pc[q] \in Server => "INT" \notin pending[q]
  /\ \A p, q \in Procs : pc[p] \in Active => pc[q] # "exiting"
  /\ leaving = {}

\* There is one owner at most; the file is empty until it has written its pid; and
\* who has found no file still finds none.
OwnerInv ==
  /\ \A p, q \in Procs : pc[p] \in Owner /\ pc[q] \in Owner => p = q
  /\ \A p \in Procs : pc[p] \in {"fork", "writePid"} => pidFile = NoPid
  /\ \A p \in Procs : pc[p] \in Server => pidFile = p
  /\ \A p \in Procs : pc[p] = "create" => pidFile = NoFile

IInv == TypeOK /\ (past = "orderly" => OrderInv /\ OwnerInv)

LEMMA OrderlyInit == Init => IInv
<1> SUFFICES ASSUME Init PROVE OrderInv /\ OwnerInv
  BY TypeInit DEF IInv
<1> QED
  BY DEF Init, OrderInv, OwnerInv, Active, Starting, Foreground, Sending, Owner, Server

\* Disorder is for ever.
LEMMA PastStep == [Next]_vars /\ past' = "orderly" => past = "orderly"
<1> SUFFICES ASSUME [Next]_vars, past' = "orderly" PROVE past = "orderly"
  OBVIOUS
<1>1. ASSUME NEW p \in Procs, NEW c \in Commands, Launch(p, c) PROVE past = "orderly"
  BY <1>1 DEF Launch
<1>2. ASSUME NEW p \in Procs, Bind(p) PROVE past = "orderly"
  BY <1>2 DEF Bind
<1>3. ASSUME NEW p \in Procs,
             \/ SendSignal(p) \/ WaitForFile(p) \/ CheckFile(p) \/ CreateFile(p)
             \/ Fork(p) \/ WritePid(p) \/ Constructed(p) \/ SignalInConstructor(p)
             \/ ReadConf(p) \/ Spawn(p, "spawn") \/ Spawn(p, "workers")
             \/ WorkersConnected(p) \/ LoopEnds(p) \/ Return(p) \/ QuickShutdown(p)
             \/ ExitAgain(p) \/ GracefullShutdown(p) \/ Reload(p) \/ BornStopped(p)
             \/ ChildExits(p) \/ Crash(p) \/ PortsFreed(p)
      PROVE  past = "orderly"
  BY <1>3 DEF SendSignal, WaitForFile, CheckFile, CreateFile, Fork, WritePid, Constructed,
              SignalInConstructor, ReadConf, Spawn, WorkersConnected, LoopEnds, Return,
              QuickShutdown, ExitAgain, GracefullShutdown, Reload, BornStopped, ChildExits,
              Crash, PortsFreed
<1> QED
  BY <1>1, <1>2, <1>3 DEF Next, Program, vars

LEMMA OrderStep ==
  ASSUME TypeOK, OrderInv, [Next]_vars, past = "orderly", past' = "orderly"
  PROVE  OrderInv'
<1> USE DEF OrderInv, Active, Starting, Foreground, Sending, Server
<1>t. /\ pc \in [Procs -> {"idle", "writePid", "exiting"} \cup Foreground \cup Server \cup Gone]
      /\ alive \in [Procs -> BOOLEAN]
      /\ pending \in [Procs -> SUBSET Signals]
  BY DEF TypeOK
<1>1. CASE UNCHANGED vars
  BY <1>1 DEF vars
<1>2. ASSUME NEW p \in Procs, NEW c \in Commands, Launch(p, c) PROVE OrderInv'
  \* Everything is settled, so that nothing is active and no server is being stopped.
  <2>1. \A q \in Procs : Settled(q)
    BY <1>2 DEF Launch
  <2>2. \A q \in Procs : /\ pc[q] \notin Active /\ pc[q] # "exiting"
                         /\ pc[q] \in Server => pending[q] = {}
    BY <2>1 DEF Settled, Gone
  <2>3. /\ pc[p] = "idle" /\ UNCHANGED <<alive, pending, leaving>>
        /\ \E where \in Sending \cup {"check"} : pc' = [pc EXCEPT ![p] = where]
    BY <1>2, DaemonAssumption DEF Launch, Goto, AllCommands
  <2>4. \A q \in Procs : pc'[q] \in Active => q = p
    BY <1>t, <2>2, <2>3
  <2>5. \A q \in Procs : q # p => pc'[q] = pc[q]
    BY <1>t, <2>3
  <2>6. pc'[p] \in Foreground /\ pc'[p] # "exiting" /\ pc'[p] \notin Server
    BY <1>t, <2>3
  <2>7. \A q \in Procs : pc'[q] \in {"idle"} \cup Active => alive'[q] /\ pending'[q] = {}
    BY <2>2, <2>3, <2>4, <2>5
  <2>8. \A q \in Procs : pc'[q] # "exiting" /\ (pc'[q] \in Server => "INT" \notin pending'[q])
    BY <2>2, <2>3, <2>5, <2>6
  <2> QED
    BY <2>3, <2>4, <2>7, <2>8
<1>3. ASSUME NEW p \in Procs, SendSignal(p) PROVE OrderInv'
  <2>1. \/ pc[p] = "restart" /\ pc' = [pc EXCEPT ![p] = "wait"]
        \/ pc[p] # "restart" /\ pc' = [pc EXCEPT ![p] = "done"]
    BY <1>3 DEF SendSignal, Goto
  <2>2. \/ UNCHANGED pending
        \/ \E q \in Procs : pc[q] \in Server /\ Post(q, SignalOf(pc[p]))
    BY <1>3 DEF SendSignal
  <2>3. pc[p] \in Active /\ p \notin {q \in Procs : pc[q] \in Server} /\ UNCHANGED <<alive, leaving>>
    BY <1>3 DEF SendSignal
  <2>4. CASE UNCHANGED pending
    BY <1>t, <2>1, <2>3, <2>4
  <2>5. ASSUME NEW q \in Procs, pc[q] \in Server, Post(q, SignalOf(pc[p])) PROVE OrderInv'
    <3>1. pc[q] \notin Active /\ q # p
      BY <2>3, <2>5
    <3>2. pending' = [pending EXCEPT ![q] = @ \cup {SignalOf(pc[p])}]
      BY <2>5 DEF Post
    <3>3. pc[p] = "restart" => SignalOf(pc[p]) # "INT"
      BY DEF SignalOf
    <3>4. \A r \in Procs : pc'[r] \in Active => r = p /\ pc[p] = "restart"
      BY <1>t, <2>1, <2>3
    <3>5. \A r \in Procs : r # p => pc'[r] = pc[r]
      BY <1>t, <2>1
    <3>6. pc'[p] \in {"wait", "done"}
      BY <1>t, <2>1
    <3>7. \A r \in Procs : r # q => pending'[r] = pending[r]
      BY <1>t, <3>2
    <3>8. \A r \in Procs : pc'[r] \in {"idle"} \cup Active => alive'[r] /\ pending'[r] = {}
      <4>1. \A r \in Procs : pc'[r] \in {"idle"} \cup Active => pc[r] \in {"idle"} \cup Active
        BY <2>3, <3>4, <3>5, <3>6
      <4>2. \A r \in Procs : pc'[r] \in {"idle"} \cup Active => r # q
        BY <2>3, <2>5, <3>1, <4>1
      <4> QED
        BY <2>3, <3>7, <4>1, <4>2
    <3>9. \A r, s \in Procs : pc'[r] \in Active /\ pc'[s] \in Server => "INT" \notin pending'[s]
      <4> SUFFICES ASSUME NEW r \in Procs, NEW s \in Procs,
                          pc'[r] \in Active, pc'[s] \in Server
                   PROVE  "INT" \notin pending'[s]
        OBVIOUS
      <4>1. pc[s] \in Server /\ SignalOf(pc[p]) # "INT"
        BY <3>3, <3>4, <3>5, <3>6
      <4>2. "INT" \notin pending[s]
        BY <2>3, <4>1
      <4>3. CASE s = q
        BY <1>t, <3>2, <4>1, <4>2, <4>3
      <4> QED
        BY <3>7, <4>2, <4>3
    <3>10. \A r, s \in Procs : pc'[r] \in Active => pc'[s] # "exiting"
      BY <2>3, <3>5, <3>6
    <3> QED
      BY <2>3, <3>4, <3>8, <3>9, <3>10
  <2> QED
    BY <2>2, <2>4, <2>5
<1>4. ASSUME NEW p \in Procs,
             \/ WaitForFile(p) \/ CheckFile(p) \/ CreateFile(p) \/ Fork(p) \/ WritePid(p)
             \/ ReadConf(p) \/ WorkersConnected(p)
      PROVE  OrderInv'
  <2>1. /\ pc[p] \in Active /\ UNCHANGED <<alive, pending, leaving>>
        /\ \E where \in Active \cup {"failed", "serve", "done"} : pc' = [pc EXCEPT ![p] = where]
    BY <1>4 DEF WaitForFile, CheckFile, CreateFile, Fork, WritePid, ReadConf,
                WorkersConnected, Goto
  <2> QED
    BY <1>t, <2>1
<1>5. ASSUME NEW p \in Procs, Constructed(p) PROVE OrderInv'
  <2>1. pc[p] = "ctor" /\ UNCHANGED <<alive, leaving>>
    BY <1>5 DEF Constructed
  <2>2. \/ pc' = [pc EXCEPT ![p] = "conf"] /\ UNCHANGED pending
        \/ pc' = [pc EXCEPT ![p] = "dead"] /\ pending' = [pending EXCEPT ![p] = {}]
    BY <1>5 DEF Constructed, Goto, End
  <2> QED
    BY <1>t, <2>1, <2>2
<1>6. ASSUME NEW p \in Procs, SignalInConstructor(p) PROVE OrderInv'
  BY <1>6 DEF SignalInConstructor
<1>7. ASSUME NEW p \in Procs, Bind(p) PROVE OrderInv'
  <2>1. pc[p] = "bind" /\ UNCHANGED <<alive, pending, leaving>> /\ pc' = [pc EXCEPT ![p] = "spawn"]
    BY <1>7 DEF Bind, Goto
  <2> QED
    BY <1>t, <2>1
<1>8. ASSUME NEW p \in Procs, NEW where \in {"spawn", "workers"}, Spawn(p, where)
      PROVE  OrderInv'
  <2>1. pc[p] = "spawn" /\ UNCHANGED <<alive, pending>> /\ pc' = [pc EXCEPT ![p] = where]
    BY <1>8 DEF Spawn, Goto
  <2>2. alive[p]
    BY <2>1
  <2>3. UNCHANGED leaving
    BY <1>8, <2>2 DEF Spawn
  <2> QED
    BY <1>t, <2>1, <2>3
<1>9. ASSUME NEW p \in Procs,
             \/ LoopEnds(p) \/ Return(p) \/ QuickShutdown(p) \/ ExitAgain(p) \/ Reload(p)
             \/ Crash(p)
      PROVE  OrderInv'
  <2>1. UNCHANGED <<alive, leaving>> /\ \A q \in Procs : pending'[q] \subseteq pending[q]
    BY <1>t, <1>9 DEF LoopEnds, Return, QuickShutdown, ExitAgain, Reload, Crash, Take, End
  <2>2. \/ UNCHANGED pc
        \/ \E where \in {"return"} \cup Gone : pc' = [pc EXCEPT ![p] = where] /\ pc[p] # "idle"
        \/ pc' = [pc EXCEPT ![p] = "exiting"] /\ pc[p] \in Server /\ "INT" \in pending[p]
    BY <1>9 DEF LoopEnds, Return, QuickShutdown, ExitAgain, Reload, Crash, Take, End, Goto,
                Handling, Gone
  <2>3. CASE UNCHANGED pc
    BY <1>t, <2>1, <2>3
  <2>4. ASSUME NEW where \in {"return"} \cup Gone, pc' = [pc EXCEPT ![p] = where]
        PROVE  OrderInv'
    <3>1. \A q \in Procs : pc'[q] = pc[q] \/ pc'[q] \in {"return"} \cup Gone
      BY <1>t, <2>4
    <3>2. \A q \in Procs : pc'[q] \in Server => pc[q] \in Server \/ (q = p /\ where = "return")
      BY <1>t, <2>4 DEF Gone
    <3>3. where = "return" => pc[p] \in Server
      BY <1>9, <1>t, <2>4 DEF LoopEnds, Return, QuickShutdown, ExitAgain, Reload, Crash, Take,
         End, Goto, Gone
    <3> QED
      BY <2>1, <3>1, <3>2, <3>3 DEF Gone
  <2>5. CASE pc' = [pc EXCEPT ![p] = "exiting"] /\ pc[p] \in Server /\ "INT" \in pending[p]
    BY <1>t, <2>1, <2>5
  <2> QED
    BY <2>2, <2>3, <2>4, <2>5
<1>10. ASSUME NEW p \in Procs, GracefullShutdown(p) PROVE OrderInv'
  <2>1. pc[p] \in Server /\ pending[p] # {}
    BY <1>10 DEF GracefullShutdown, Take, Handling
  <2>2. /\ UNCHANGED <<pc, leaving>> /\ \A q \in Procs : pending'[q] \subseteq pending[q]
        /\ alive' = [alive EXCEPT ![p] = FALSE]
    BY <1>t, <1>10 DEF GracefullShutdown, Take
  <2> QED
    BY <1>t, <2>1, <2>2
<1>11. ASSUME NEW p \in Procs, BornStopped(p) \/ ChildExits(p) PROVE OrderInv'
  BY <1>11 DEF BornStopped, ChildExits
<1>12. ASSUME NEW p \in Procs, PortsFreed(p) PROVE OrderInv'
  BY <1>12 DEF PortsFreed
<1> QED
  BY <1>1, <1>2, <1>3, <1>4, <1>5, <1>6, <1>7, <1>8, <1>9, <1>10, <1>11, <1>12 DEF Next, Program

LEMMA OwnerStep ==
  ASSUME TypeOK, OrderInv, OwnerInv, [Next]_vars, past = "orderly", past' = "orderly"
  PROVE  OwnerInv'
<1>t. pc \in [Procs -> {"idle", "writePid", "exiting"} \cup Foreground \cup Server \cup Gone]
  BY DEF TypeOK
<1>n. NoFile \notin Procs /\ NoPid \notin Procs /\ NoFile # NoPid
  BY DaemonAssumption
<1>1. CASE UNCHANGED vars
  BY <1>1 DEF vars, OwnerInv
<1>2. ASSUME NEW p \in Procs,
             \/ \E c \in Commands : Launch(p, c)
             \/ SendSignal(p) \/ WaitForFile(p) \/ GracefullShutdown(p) \/ PortsFreed(p)
      PROVE  OwnerInv'
  <2>1. /\ UNCHANGED pidFile
        /\ UNCHANGED pc \/ \E where \in Sending \cup {"check", "wait", "done"} :
                             pc' = [pc EXCEPT ![p] = where]
    BY <1>2, DaemonAssumption
       DEF Launch, SendSignal, WaitForFile, GracefullShutdown, PortsFreed, Goto, AllCommands
  <2> QED
    BY <1>t, <2>1 DEF OwnerInv, Owner, Server, Sending
<1>3. ASSUME NEW p \in Procs, CheckFile(p) PROVE OwnerInv'
  BY <1>t, <1>3 DEF CheckFile, Goto, OwnerInv, Owner, Server
<1>4. ASSUME NEW p \in Procs, CreateFile(p) PROVE OwnerInv'
  \* Whoever owned the file would contradict its absence; nobody else is creating.
  <2>1. pidFile = NoFile /\ pc[p] = "create"
    BY <1>4 DEF CreateFile, OwnerInv
  <2>2. \A q \in Procs : pc[q] \notin Owner
    BY <2>1, <1>n DEF OwnerInv, OrderInv, Owner, Active, Foreground
  <2>3. \A q \in Procs : pc[q] = "create" => q = p
    BY <2>1 DEF OrderInv, Active, Foreground
  <2>4. \/ pidFile' = NoPid /\ pc' = [pc EXCEPT ![p] = "fork"]
        \/ pidFile' = pidFile /\ pc' = [pc EXCEPT ![p] = "done"]
    BY <1>4 DEF CreateFile, Goto
  <2> QED
    BY <1>t, <2>1, <2>2, <2>3, <2>4 DEF OwnerInv, Owner, Server
<1>5. ASSUME NEW p \in Procs, Fork(p) PROVE OwnerInv'
  BY <1>t, <1>5 DEF Fork, Goto, OwnerInv, Owner, Server
<1>6. ASSUME NEW p \in Procs, WritePid(p) PROVE OwnerInv'
  <2>1. pidFile = NoPid /\ \A q \in Procs : pc[q] \in Owner => q = p
    BY <1>6 DEF WritePid, OwnerInv, Owner
  <2>2. \A q \in Procs : pc[q] # "create"
    BY <1>n, <2>1 DEF OwnerInv
  <2>3. pidFile' = p /\ pc' = [pc EXCEPT ![p] = "ctor"]
    BY <1>6 DEF WritePid, Goto
  <2> QED
    BY <1>t, <2>1, <2>2, <2>3 DEF OwnerInv, Owner, Server
<1>7. ASSUME NEW p \in Procs,
             \/ Constructed(p) \/ SignalInConstructor(p) \/ ReadConf(p) \/ Bind(p)
             \/ Spawn(p, "spawn") \/ Spawn(p, "workers") \/ WorkersConnected(p)
             \/ LoopEnds(p) \/ Reload(p) \/ Crash(p)
      PROVE  OwnerInv'
  <2>1. /\ UNCHANGED pidFile
        /\ UNCHANGED pc \/ \E where \in Server \cup Gone :
                             pc[p] \in Server /\ pc' = [pc EXCEPT ![p] = where]
    BY <1>7 DEF Constructed, SignalInConstructor, ReadConf, Bind, Spawn, WorkersConnected,
                LoopEnds, Reload, Crash, Goto, End, Server, Gone
  <2> QED
    BY <1>t, <2>1 DEF OwnerInv, Owner, Server, Gone
<1>8. ASSUME NEW p \in Procs, Return(p) PROVE OwnerInv'
  <2>1. \A q \in Procs : pc[q] \in Owner => q = p
    BY <1>8 DEF Return, OwnerInv, Owner, Server
  <2>2. pidFile' = NoFile /\ pc' = [pc EXCEPT ![p] = "done"]
    BY <1>8 DEF Return, Goto, End
  <2> QED
    BY <1>t, <2>1, <2>2 DEF OwnerInv, Owner, Server
<1>9. ASSUME NEW p \in Procs, QuickShutdown(p) PROVE OwnerInv'
  \* Nobody else owns the file that goes.
  <2>1. pc[p] \in Server /\ pidFile' = NoFile /\ pc' = [pc EXCEPT ![p] = "exiting"]
    BY <1>9 DEF QuickShutdown, Take, Handling, Goto
  <2>2. \A q \in Procs : pc[q] \in Owner => q = p
    BY <2>1 DEF OwnerInv, Owner
  <2> QED
    BY <1>t, <2>1, <2>2 DEF OwnerInv, Owner, Server
<1>10. ASSUME NEW p \in Procs, ExitAgain(p) PROVE OwnerInv'
  \* Nor is a server starting when its destructor runs a second time.
  <2>1. /\ pc[p] = "exiting" /\ pidFile' \in {NoFile, pidFile}
        /\ pc' = [pc EXCEPT ![p] = "done"]
    BY <1>10 DEF ExitAgain, Goto, End
  <2>2. \A q \in Procs : (pc[q] \in Owner => q = p) /\ pc[q] # "create"
    BY <2>1 DEF OwnerInv, OrderInv, Owner, Active, Foreground
  <2> QED
    BY <1>t, <2>1, <2>2 DEF OwnerInv, Owner, Server
<1>11. ASSUME NEW p \in Procs, BornStopped(p) \/ ChildExits(p) PROVE OwnerInv'
  BY <1>11 DEF BornStopped, ChildExits, OrderInv
<1> QED
  BY <1>1, <1>2, <1>3, <1>4, <1>5, <1>6, <1>7, <1>8, <1>9, <1>10, <1>11 DEF Next, Program

\* What an orderly past gives is kept by every step that keeps it orderly.
THEOREM OrderlyInvariance == Spec => []IInv
<1>1. IInv /\ [Next]_vars => IInv'
  BY TypeStep, PastStep, OrderStep, OwnerStep DEF IInv
<1> QED
  BY <1>1, OrderlyInit, PTL DEF Spec

\* In an orderly past at most one server ran at a time, through crashes, quick and
\* graceful stops, failed forks, restarts and refused launches.
THEOREM AtMostOneServer == Spec => []OrderlyOneServer
<1>1. IInv => OrderlyOneServer
  BY DEF IInv, OwnerInv, Owner, OneServer, OrderlyOneServer
<1> QED
  BY <1>1, OrderlyInvariance, PTL

\* ... and the file held its pid from before its constructor returned until it
\* removed the file, so that stop, quit, restart and reload reach it.
THEOREM FileNamesServer == Spec => []OrderlyPidFile
<1>1. IInv => OrderlyPidFile
  BY DEF IInv, OwnerInv, PidFileNamesServer, OrderlyPidFile
<1> QED
  BY <1>1, OrderlyInvariance, PTL

===============================================================================
