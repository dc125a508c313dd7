----------------------------- MODULE PhpProcess ------------------------------
(***************************************************************************)
(* cppModule::execRequest (sources/modules/phpcpp.cpp) inside interpret:   *)
(* the worker forks, the child fills its own standard input with the body  *)
(* of the request and becomes php-cgi, the worker reads what it prints     *)
(* until every copy of the write end is closed.                            *)
(*                                                                         *)
(* The steps of Interpreter go on as they are; the one that runs a script  *)
(* takes place when the worker has read it all.                            *)
(***************************************************************************)
EXTENDS Interpreter, FiniteSets

CONSTANTS
  PipeSize,    \* what a pipe holds
  ReadSize,    \* sizeof(foo): what a read takes at most
  MaxOutput    \* bound: what a script prints

ASSUME PhpAssumption ==
  PipeSize \in Nat \ {0} /\ ReadSize \in Nat \ {0} /\ MaxOutput \in Nat

VARIABLES
  body,    \* the length of the request's body
  exec,    \* the worker in execRequest: "idle" or "reading"
  child,   \* "none", "born", "fed", "running", "gone" (a zombie); "stuck" in its
           \* write, or a "copy" of the worker that returned from execRequest
  size,    \* what php-cgi prints in all
  nuls,    \* the places of the zero bytes in it
  todo,    \* what it has yet to print
  pipe,    \* what stands in link[]
  got,     \* what the worker has read
  kept     \* the length of totalStr

script == <<size, nuls, todo, pipe, got, kept>>
procVars == <<body, exec, child, script>>
allVars == <<vars, procVars>>

ProcInit ==
  /\ Init
  /\ body \in 0 .. PipeSize + 1
  /\ exec = "idle" /\ child = "none"
  /\ size = 0 /\ nuls = {} /\ todo = 0 /\ pipe = 0 /\ got = 0 /\ kept = 0

\* A path that ends neither in php nor in html or htm.
NoScript ==
  /\ request.kind # "script"
  /\ Php
  /\ UNCHANGED procVars

\* The first pipe or the fork fails.
ForkFails ==
  /\ exec = "idle"
  /\ PhpFails
  /\ UNCHANGED procVars

Fork ==
  /\ exec = "idle"
  /\ pc = "modules"
  /\ i <= Len(modules) /\ modules[i] = "php"
  /\ request.kind = "script"
  /\ exec' = "reading" /\ child' = "born"
  /\ UNCHANGED <<vars, body, script>>

\* The second pipe fails in the child, which returns false from execRequest and
\* goes on as a worker, with its copy of link[1].
ChildReturns ==
  /\ child = "born"
  /\ child' = "copy"
  /\ UNCHANGED <<vars, body, exec, script>>

\* The child writes the whole body before anybody can read it.
ChildWrites ==
  /\ child = "born"
  /\ child' = IF body <= PipeSize THEN "fed" ELSE "stuck"
  /\ UNCHANGED <<vars, body, exec, script>>

Execve ==
  /\ child = "fed"
  /\ child' = "running"
  /\ size' \in 0 .. MaxOutput /\ nuls' \in SUBSET (1 .. size') /\ todo' = size'
  /\ UNCHANGED <<vars, body, exec, pipe, got, kept>>

ExecveFails ==
  /\ child = "fed"
  /\ child' = "gone"
  /\ UNCHANGED <<vars, body, exec, script>>

ScriptPrints ==
  /\ child = "running"
  /\ todo > 0 /\ pipe < PipeSize
  /\ todo' = todo - 1 /\ pipe' = pipe + 1
  /\ UNCHANGED <<vars, body, exec, child, size, nuls, got, kept>>

ScriptExits ==
  /\ child = "running" /\ todo = 0
  /\ child' = "gone"
  /\ UNCHANGED <<vars, body, exec, script>>

\* The copy of the worker ends, as workers do.
CopyEnds ==
  /\ child = "copy"
  /\ child' = "gone"
  /\ UNCHANGED <<vars, body, exec, script>>

\* totalStr + foo: the n bytes of a read as a C string, up to their first NUL.
Text(n) == Cardinality({k \in 1 .. n : \A j \in 1 .. k : got + j \notin nuls})

\* What one read takes.
Chunk == {n \in 1 .. pipe : n <= ReadSize}

Take(n) ==
  /\ pipe' = pipe - n
  /\ got' = got + n
  /\ kept' = kept + Text(n)

ReadChunk ==
  /\ exec = "reading" /\ pc = "modules"
  /\ \E n \in Chunk : Take(n)
  /\ UNCHANGED <<vars, body, exec, child, size, nuls, todo>>

\* foo[nbytes] of a read that fills foo is behind it: nothing comes of it, as in
\* ReadChunk, or the worker dies.
ReadOverflows ==
  /\ exec = "reading" /\ pipe >= ReadSize
  /\ ScriptCrashes
  /\ UNCHANGED procVars

\* Mutant: wait before the reading.
ReadAfterWait == child = "gone" /\ ReadChunk

Read == ReadChunk \/ ReadOverflows

\* execRequest returns.  Without its headers the output may be empty.
Return ==
  /\ Php
  /\ kept = 0 => trace'[Len(trace')].outcome = "blank"
  /\ exec' = "idle" /\ child' = "none"
  /\ size' = 0 /\ nuls' = {} /\ todo' = 0 /\ pipe' = 0 /\ got' = 0 /\ kept' = 0
  /\ UNCHANGED body

\* Mutant: the reading ends with the child.
ReadUntilGone ==
  /\ exec = "reading" /\ child = "gone"
  /\ Return

\* read returns 0: nothing is left and nobody can write any more.
ReadEnd ==
  /\ exec = "reading" /\ child = "gone" /\ pipe = 0
  /\ Return

\* The steps of interpret around the PHP module.
Around ==
  /\ \/ Decode \/ Parse \/ Root \/ RootCrashes
     \/ SkipSsl \/ PhpCrashes \/ Log \/ ModulesDone
     \/ Keep \/ Get \/ GetCrashes \/ OtherMethod
     \/ Page \/ EncodePlain \/ EncodeSsl \/ EncodeOther \/ Send
  /\ UNCHANGED procVars

WorkerNext == Around \/ NoScript \/ ForkFails \/ Fork \/ Read \/ ReadEnd
ChildNext ==
  ChildReturns \/ ChildWrites \/ Execve \/ ExecveFails \/ ScriptPrints \/ ScriptExits

ProcNext == WorkerNext \/ ChildNext \/ CopyEnds

\* Where the worker depends on its client: SSL_accept (SSLModule.cpp:51), the loop
\* around SSL_read (:55-58) and send (Worker.cpp:189).
WaitsForClient ==
  \/ pc \in {"decode", "encode"} /\ ssl /\ Front("ssl")
  \/ pc = "send" /\ ~ssl

\* The worker goes on whenever it can and its client does not keep it waiting, the
\* child whenever it can; a script prints a finite output and ends.  Nothing is said
\* of the client, nor of a copy of the worker.
ProcSpec ==
  /\ ProcInit /\ [][ProcNext]_allVars
  /\ WF_allVars(~WaitsForClient /\ WorkerNext) /\ WF_allVars(ChildNext)

-------------------------------------------------------------------------------
(* Properties. *)

\* When execRequest returns it has read everything the script printed, however the
\* printing, the reading and the end of the child interleave, and has kept it whole if
\* there is no zero byte in it (phpcpp.cpp:92-96).
OutputWhole ==
  [][exec = "reading" /\ exec' = "idle" => got = size /\ (nuls = {} => kept = size)]_allVars

\* For every request whose body a pipe can hold, interpret and the sending come to an
\* end or wait for the client for ever, unless the child failed to make its pipe
\* (phpcpp.cpp:77-104).  A larger body leaves the child in its write and the worker in
\* its read for ever.
InterpretEnds ==
  body <= PipeSize =>
    <>(pc \in {"done", "crashed"} \/ child = "copy") \/ <>[]WaitsForClient
===============================================================================
