# zia: a verification development

zia is an HTTP server in C++ (`linux/`).  A master process accepts and polls the
clients of two ports and hands their descriptors to worker processes, which read
one request, interpret it through a pipeline of loadable modules and answer.  A
JSON file configures it; a pid file and signals are its administration.

This directory holds TLA+ modules translated from that code, TLC configurations
that check them on small instances, and proofs, checked by TLAPS, of the
properties that carry most.  Source lines are cited as `File.cpp:line`; the
machine-readable map from definitions to lines is in `PROJECT.json`.

    tlc -workers 2 -config NetStack_plain.cfg MCNetStack     # a run
    tlapm NetStackProofs.tla                                  # the proofs


## 1. Inventory

Paths below are relative to `src/linux/sources`.

| component | state it keeps | operations | modelled in |
|---|---|---|---|
| `Network::Socket`, `Client` (`server/NetStack/Network.cpp`, `Client.cpp`) | `_clients` (map fd -> Client), `_clientFds` (vector of pollfd), listening socket | constructor; `loop()`: poll the port, accept one, poll the clients, walk them | `Network`; constructor in `Daemon` |
| `RequestList` (`Request.cpp`) | FIFO of (Client, type) | `setRequest`, `popFrontReq`, `getSize` | `Network`, `Balancer` |
| `Balancer` (`Balancer.cpp`) | `_worker`: index -> stream | constructor (listen, fork, accept workers); `balancer`, `sendToWorker` | `Balancer`; constructor in `Startup` |
| `Worker` (`Worker.cpp`) | `_hClient` (master's fd -> own fd), `_cliFd`, `_cliReq` | constructor; `loop`, `receivFd`, `historyClient`, `handleRequestFromClient`, `resetClient` | `Worker`; constructor in `Startup`; the bytes it receives in `HttpText`; its end in `Daemon` |
| master loop (`main.cpp`, `process`) | position in the loop | construct everything, then sockets, balancer, `sleep(3)` while alive | `Startup`, `NetStack`, `Daemon` |
| `Daemon` (`server/daemon.cpp`) | `_killed` (true while alive), pid file, `_conf` | constructor, `daemonize`, `sendSignal`, handlers, destructor | `Daemon`; shutdown also in `NetStack`, reload in `Startup` |
| `ConfigManager` (`server/conf_manager`) | `_conf`, `_modules`, `_modules_path`, `_list` | `browser_conf`, repeated at each reload | `Config`; the conversion of values in `ConfValues`, the names of modules in `ModuleNames` |
| JSON library (`server/conf_manager/json-lib`) | none | parse, print | `Json`, against `JsonGrammar`; `StringPrinter`, `JsonPrinter` |
| `ModuleLoader`, `ModuleManager` (`server/module_manager`) | list of loaded modules | `loadModule`, `closeModuleByName`, `init` | `Startup` |
| `HttpInterpreter`, `HtmlManager` (`server/http`) | sorted modules, roots | `interpret`: SSL decode, parse, modules, method, error page, SSL encode | `Interpreter`; its effect on a connection in `Worker` |
| `HttpParser`, `Utils` | none | parse and format, split, trim | `HttpText`, against `Requests`; refusals in `Interpreter` |
| SSL module (`modules/SSLModule.cpp`) | SSL object | `config`; `exec` twice per request | its blocking in `Worker`, its place in the pipeline in `Interpreter` |
| PHP module (`modules/phpcpp.cpp`) | none | `exec`: a php-cgi child per script | `PhpProcess`, `Interpreter` |
| log module | log path | `exec` on each request | `Interpreter` |
| PHP superglobals (`modules/functions_php.cpp`) | none | `urlDecode`, `initializeGet`, `initializePost`; compiled in, not called | `FormText`, against `Forms` |
| `Logger`, error classes, unit tests | - | text and files | not modelled |

**How they interact.**  Master and workers are processes: they share nothing but
what fork copied, the AF_UNIX streams that carry `"TYPE|fd"` with the descriptor
beside it (SCM_RIGHTS), and the open connections themselves, which master and
worker hold at the same time, the master to poll and the worker to read.  What
fork copied includes the configuration, the modules, the running flag and the
Daemon singleton with the name of the pid file.  Signals reach the master and run
its handlers between any two steps.  Separate runs of the command meet in
`/run/zia.pid`, on the ports and on `/tmp/ux_socket`.  A worker runs scripts in a
child whose output it reads through a pipe.

**What is hard.**  poll is level-triggered and the master never reads, so one request
gives many messages until its worker has read it.  Nothing is ever closed: the master
leaks the descriptor of every client, a worker one more at each message.  That the
routing works at all rests on this leak (section 5).  The workers block without time
limit in `recv`, `SSL_accept` and the pipe of a script, the master in `sendmsg` and,
while it starts, in `accept`.  A worker dies on an empty request, a full descriptor
table and the end of its stream, and is not replaced.  A master without descriptors adds
one more entry to a poll list at every loop, until poll refuses the list.  `_clientFds`
is edited while it is walked, and so is the list of modules.  The pid file is tested,
then created, then filled, is removed twice by a quick stop and once by every child that
calls `exit`.  A reload changes the object the master read its configuration from and
nothing that was made from it. Configuration strings are printed as JSON and cut out of
the print again.  The full list, each at its line and with the properties that watch it,
is "hazards" in `PROJECT.json`.

**What makes each part correct.**

- *Network*: the two lists describe the same clients; the walk meets every event
  that poll reported; whoever was accepted and has not left is polled; one request
  per client and pass.
- *Balancer*: requests reach the worker of their descriptor; dead workers do not
  stop the others.
- *Worker*: it serves the connection that was sent, as the port it came in by; no
  two workers share a connection; no answer without bytes of its own.
- *Stack*: waiting bytes are answered, shutdown ends everything, whatever hangs.
- *Daemon*: one server, named by the file; a server that serves has its ports; stop,
  quit, restart and reload do what they say.
- *Start*: the configuration is what the files said, the modules are those it lists,
  each worker is at the end of a stream, and a start that can succeed does.
- *Interpreter*: every request is answered with the status its failure calls for;
  SSL decodes before and encodes after everything else; the output of a script is
  read to its end, and the script ends.
- *Text*: the parsers accept what the grammar accepts, as what it says; nothing the
  receive buffer leaves behind gets into a head.


## 2. Modules

    Kernel            sockets, descriptor tables, streams, clients (external)
      Network         Socket, Client, RequestList          (master)
      Worker          Worker                               (worker processes)
        Balancer      Balancer; Network and Worker meet in the streams
          NetStack    process() and signals: the whole server, properties
            NetStackRefinement   NetStack implements ClientService
            NetStackProofs       theorems: types, routing, the master's lists and
                                 its walk, bytes and answers, the refinement
            MCNetStack           instances for TLC (through NetStackRefinement)
    ClientService     abstract: what a client may rely on
    Daemon            main(), Daemon, stages of process(): several runs of zia
      DaemonProofs    theorems
      MCDaemon        instances for TLC
    Config            ConfigManager: browser_conf, over and over
      Startup         process() up to its loop: modules, forks, streams, reloads
        StartupProofs   theorems
        MCStartup       instances for TLC
    Interpreter       HttpInterpreter, HtmlManager, the modules' exec: one request
      PhpProcess      execRequest: the worker, its child and the pipes
        InterpreterProofs theorems about both
        MCInterpreter     instances for TLC
    HttpText          receive loop, split, trim, HttpParser
    FormText          query strings and forms
    TextEdits         the state: a text that changes
      Requests        reference: what a well-formed request says; properties
      Forms           reference: what a form says; its property
        HttpTextProofs  theorems about requests and forms
    Json              the JSON parser
      JsonGrammar     reference: the values a text denotes; properties
      Doubles         what becomes of numbers: doubles, casts, printed digits
      StringPrinter   how a string is printed, and what is erased from the print
        JsonPrinter   the printer, of any value (with Doubles)
        ModuleNames   find_modules, find_modules_path; its property
          ConfValues  from a JSON document to a configuration (with Doubles)
    Text              all of these: what is printed is read back
      JsonProofs      theorems about the parser, strings and names
        DocumentProofs  theorems about the configuration and the printer
      MCText          instances for TLC
    Lists             a list without the elements outside a set
      ListInduction   lemmas: that list; induction over numbers and lists

**Kernel.**  Not zia's code: TCP connections (`link`, `sent`, `recvd`, `answers`),
accept queues (`backlog`), the master's descriptor table (`mfd`) and the streams
(`chan`), taken from how the code uses them.  Bytes are counted, not spelled; a
connection in `Blank` never sends a request line, one in `Listing` asks for
directories.

**Network.**  `mpc`, `sock` and `it` say where the master is.  A pass of `loop()` is
`AcceptClient`/`AcceptFails`/`NothingToAccept`, then `PollClients` or `NoEvent`,
then one `ScanEntry` for each turn of the while loop (`Disconnect`, `NewInput`,
`NextEntry`), `ScanDone`.  `revents` is what the last poll filled in, so that
events may change while the list is walked.  The branch for a descriptor missing
from `_clients` continues with a past-the-end iterator: taken as the end of the
master ("crashed"), and shown unreachable.

`AcceptFails` puts descriptor -1 into the map, which holds it once, and into the vector,
once more at every loop; when the vector is longer than the process may have
descriptors, poll refuses it (`PollAccepts`) and nobody of that port is polled again.

**Worker.**  `wfds[w]` are the descriptors the process received, in order, so that a
number is an index; `hist` is `_hClient`; `cliFd` and `got` are `_cliFd` and the length
of `_cliReq`; `leaked` counts the directories that `viewDirectory` leaves open, which
take the room of descriptors to come.  One action per blocking call.  `interpret` is
taken by its effect: one answer if the bytes hold a request line, the end of the process
if not (`v[0]` of an empty vector, `HttpParser.cpp:27`).  `Handshake` covers both
executions of the SSL module, which block for as long as the client is silent.
`NoSslModule` is the call of `front()` on a list that may be empty
(`HttpInterpreter.cpp:129`).

**Balancer.**  One message per step.  `Shard` is `fd % _nbWorker`; a full stream
blocks `sendmsg`, that is, `SendToWorker` is not enabled; a closed one fails.

**NetStack.**  Composition, the loop of `process()`, graceful and quick shutdown, a
signal during poll, the end of the workers.  All properties of section 4 are here.

**ClientService** has neither master nor workers, descriptors nor queues: each
connection gets one reader for ever; an answer is given for fresh bytes of that
connection; no byte pays for two answers.  `NetStackRefinement` maps the reader of a
connection to the worker that has it in its table and the fresh bytes to the
request that worker is assembling.

**Daemon.**  A process is one run of the command, before and after it daemonizes.
`pc` follows it: the name of its option or "wait" (`sendSignal`),
"check"/"create"/"fork"/"writePid" (constructor), "ctor" (rest of the constructor,
log file), then the stages of `process()`: "conf", "bind", "spawn" (`createWorker`),
"workers" (`acceptWorker`), "serve", "return" or "failed".  `pending` holds signals
not yet handled, `holders` the processes whose listening sockets are open in them or
in their workers, `leaving` those with workers that were forked after `stop()`: such
a worker finds the flag down and exits, and with it goes the pid file (`BornStopped`).
Any other child that calls `exit` does the same (`ChildExits`: a signalled worker,
the child of the PHP module without a php-cgi).  The undefined behaviour of the code
is a choice: an empty pid file leaves `pid` uninitialised and the signal may reach any
server (`Target`); a handler inside the unfinished singleton hangs or terminates
(`SignalInConstructor`); the second destruction removes the file or not
(`ExitAgain`); a reload after `process` has returned uses a dangling pointer
(`Reload`).  `past` is a history: it turns "disorderly" when a command is typed before
the others have settled (`Settled`), when a server finds its ports taken, or when a
child exits on its own account.

**Config.**  `conf`, `names`, `dirs` and `list` are `_conf`, `_modules`,
`_modules_path` and `_list`; `file` is what zia.json says at the moment, which the
administrator may change; `reads` is a history of what every call of `browser_conf`
found.  A call is one step: first the defaults over everything (`WithDefaults`), then,
if the file can be read, its keys (`WithKeys`), its modules and paths after those of
earlier calls, and the search for all of them again (`Found`).

**Startup.**  `pc` follows `process()`: "read", "ports", "modules" (one `LoadNext` per
entry of the list), "socket", "fork", "accept", "serve".  `outcome` says what loading
and configuring each library comes to; `CloseByName` is the loop of
`closeModuleByName`, whose iterator steps over the module behind an erased one.
From `Publish` on a reload may come at any moment (`Reload`).  `worker[w]` is where a
worker is and the configuration fork gave it; `path` is whose socket
`/tmp/ux_socket` leads to, `queue` who has connected and is not accepted yet,
`streams` what `_worker` holds.  Another server on the same path may take it or send
its workers here (`OtherCreatesSocket`, `OtherWorkerConnects`; `shared` remembers it).

**Interpreter.**  One call of `interpret`, one action per stage and module call:
`Decode`, `Parse`, `Root`, the loop (`SkipSsl`, `Php`, `PhpFails`, `Log`), the method
(`Keep`, `Get`, `OtherMethod`), `Page`, the encoding and the worker's `Send`.  `pc` says
where it is and `Catch` is an exception of the try block.  A request is what the stages
find in it: the faults that are refused, the method, what its path names.  `resp` keeps
status, whether the body is empty and who wrote it, which is all that the code asks of
it.  The choices are a failing handshake, pipe or fork, a script without output, an
empty file, a directory with the name of a file, a template that is missing or broken,
and what is undefined: the buffer of the SSL module (`SSLModule.cpp:55`), `front()` of
an empty list (`HttpInterpreter.cpp:129`), `[0]` and `back()` of an empty split
(`RootCrashes`, `PhpCrashes`, `GetCrashes`), the zero that a full read writes behind its
buffer (`phpcpp.cpp:94`, `ScriptCrashes`). `trace` is a history of the calls of `exec`.
The modules are the three of the repository, in lists with repetition, as a
configuration can name one twice.

**PhpProcess** refines the call of the PHP module for a script: the worker forks
(`Fork`) and reads (`Read`) until nobody can write any more (`ReadEnd`, the moment of
`Php` of Interpreter); the child makes a pipe for its own input and writes the whole
body into it (`ChildWrites`, "stuck" if it does not fit), becomes php-cgi (`Execve`),
prints and exits, or fails at any of these.  `pipe` counts what stands in `link`, `got`
what the worker has read.  A read is appended as a C string (`Text`): `nuls` are the
places of zero bytes in the output and `kept` is what is left of it in `totalStr`.  A
child whose pipe fails goes on as a second worker ("copy") that keeps the write end
open.  Every other step is one of `Interpreter`.

**Json, StringPrinter, JsonPrinter, ConfValues, ModuleNames, HttpText, FormText** are
operators on texts, no state.  A text is a sequence of characters, where a symbol may
stand for several that the code only treats together ("hex" for four hexadecimal digits,
`GET`).  `Json` follows the parser position by position, with the place where it stops:
`ParseValue` is one table for the three loops of `JSONValue::Parse`, what is read at a
position as a value, as elements or as members (`ValueAt`, `ElementsAt`, `MembersAt`),
each from what is read at later ones.  `StringPrinter` and `JsonPrinter` are the
printer.  `Doubles` leaves the arithmetic of doubles open: `Double` says which number
the platform has for a decimal one, or that it has none; what the code does with it is
modelled, the cast to long long, which is undefined for what does not fit (`Cast`), the
15 digits that are printed (`Rounded`) and the null for the infinite.  `ConfValues` is
what `getKey`, `add_*` and `new_*` make of a document, `ModuleNames` what `find_modules`
and `find_modules_path` make of a printed string; `HttpText` the receive loop with its
reused buffer, `strtok` and `HttpParser::parse`; `FormText` the escapes and fields of a
query string, and the body of a form. `JsonGrammar` is not code: it says what a text
means by dividing it, in every possible way, into parts, as the grammar of JSON does.

**TextEdits, Requests, Forms, Text.**  The state is one text (`TextEdits`); every step
changes one character, so that TLC reaches all texts within `MaxEdits` of the given
ones.  `Requests` says what a well-formed request says, by dividing it at its blank
line, its line ends, its spaces and its first colons, `Forms` what a form says, by
dividing it at its separators; both hold the properties of their texts, as
`JsonGrammar` and `ModuleNames` hold those of the parser and of the names.  `ConfValues`
and `Text` add those of whole values.  No module declares a RECURSIVE operator, so that
all of them can be proved about: what recurs over positions is a function of a position,
what descends into a value a function on the values nested in it (`Nested`).

## 3. Runs

| run | asks | instance | distinct states |
|---|---|---|---|
| netstack_plain | types, walk, requests, sharing, answers and the account behind them | 2 plain clients, 2 workers, 2 bytes each, a buffer of 2 | 1,705,660 |
| netstack_ssl | routing, the connection a worker turns to, the stack implements ClientService | a plain and an SSL client, 2 workers, SSL module loaded | 557,356 |
| netstack_limits | lists agree and no accepted connection drops out at the limits; what the walk rests on | 1 master descriptor for 2 plain clients and an SSL one, failed accepts up to poll's limit and beyond, 3 descriptors per worker, reads that fill the buffer, no SSL module, bytes without a request line, an interrupted poll | 2,925,944 |
| netstack_progress | the master goes on; everything ends with it; waiting bytes are answered | 2 clients of 1 worker, one listing a directory, fairness | 148,402 |
| daemon | one server, named by the file, in an orderly past; a serving server has its ports; stop and quit end it | 3 runs of any command, overlapping, a crash, a child that exits, fairness | 739,634 |
| daemon_children | *violated*: the file names the server, whoever exits | a server and a child that exits | |
| daemon_restart | *violated*: a restart does not wait for ever | start, restart; fairness | |
| startup | configuration, modules, streams, and that a start ends | 2 workers, 4 files, 3 libraries with 4 outcomes, 3 reads, another server on the path, fairness | 636,512 |
| startup_reload | *violated*: a server follows its configuration | the same with 2 reads | |
| interpreter | status, order of the modules, the output of scripts, that interpret ends | every request, every list of up to 3 modules, every state of the templates, a script of up to 3 bytes with zero bytes anywhere, a pipe and reads of 2, bodies that fit and one that does not, fairness | 3,189,560 |
| interpreter_php | *violated*: what a module answered stands | lists of one module | |
| text | the parsers against their grammars; what printing and the configuration keep; the tail of the buffer; forms | every text within 2 characters of 5 documents, 3 requests and a form; doubles of 5 digits, 3 printed, a long of 8 bits | 429,448 |

**Why the bounds are enough.**  Two clients are what the list hazards need: an entry
that is erased while another follows, a descriptor number and a neighbour, a client that
waits behind another.  Two workers distinguish sharding from sharing; one worker for two
clients (`netstack_progress`) makes them wait for one another.  `ChanCap = 1` fills a
stream with a single repeated message; the real capacity only delays the same states.
`BuffSize` of 1 or 2 with up to 2 bytes
gives reads below and at the buffer; longer requests repeat the latter.
`WorkerFdLimit` of 2 or 3 lets a worker run out of descriptors, which takes some
hundreds of messages in reality, after one it served.  A connection value is used once,
so that "the same client comes back" is another connection.  In `netstack_limits` one
descriptor stands for all the master may have, and poll takes as many entries as there
are descriptors (`LastFd + 1`): a client, and copies of -1 up to the limit and past it,
on one port or on both.  One of the two clients of `netstack_progress` lists a
directory, so that its answer may cost the worker the room for the other.  Three
processes give `Daemon` a server, its successor and the command between them;
`MaxCrashes` and `MaxExits` of one put one accident anywhere. The processes of `Daemon`
are alike in every constant but `Watched`, so what StopEnds and QuitEnds say of `p1`
holds of each; the safety properties are checked for all of them.  The four files of
`startup` have a key with and one without a default, a null, a port that is no number, a
module listed twice, one that is nowhere and one that is in two directories; three reads
are what it takes for a key to be told, left out and told again.  Lists of three modules
contain every order of two calls around a third; `interpret` treats one request at a
time and keeps nothing for the next.  A pipe of two that takes three bytes is full and
empty on the way, and reads of two are short, full, and full with more to come; a zero
byte may be first or last in either.  A character inserted, removed or replaced, twice,
takes the seeds of `text` out of the grammar and into every neighbouring one: nesting,
escapes, an exponent, a key twice, a header less, a second colon, a zero byte, a line
end in the body.  `BuffSize = 16` is less than two seeds and more than their first
lines, so that the head ends before, at and after the end of a chunk; the third seed
fits into it. `MCDouble` is a platform of its own, as small as the texts: five digits,
nothing beyond a thousand but infinity, fractions that are never exact, small numbers
that become zero. With three printed digits and a cast to eight bits, the texts reach
the infinite, casts that overflow, numbers that the printed digits do not say, and
numbers that the double does not hold and the printed digits say all the same.  Symmetry
(clients that are not told apart by any constant) is used in runs without liveness only.

Deadlock is not checked: the server may have been shut down and the clients may
have finished, a start may wait for a worker that was not forked, a text is done
changing; liveness is asked for instead.

**Mutants.**  Each property has a mutant, a plausible bug in one definition, that
makes TLC find it violated: closing a disconnected descriptor breaks
`RightConnection`, erasing and advancing breaks `NoSkippedEvent`, waiting for the
child before reading its output breaks `InterpretEnds`, and so on ("mutants" in
`PROJECT.json`; the definitions follow the comment "Mutant", or are announced as a
mutant in the comment of the definition they belong to, and are used nowhere else).


## 4. Properties

*NetStack, safety.*
`PollListMatchesMap`: `_clients` and `_clientFds` hold the same descriptors, the vector
each accepted one once, though it repeats the -1 of failed accepts, and the undefined
branch is unreachable.
`NoSkippedEvent`: during the walk, every event that poll reported is still ahead or
has been acted on.
`NoLostConnection`: who was accepted and has not reset stays in the list that is polled,
and poll takes that list as long as no accept failed on its port.  Beyond that the code
promises nothing: copies of -1 outgrow the limit of poll, and the port is dead.
`NoDoubleRequest`: one request per client and pass.
`OneWorkerPerConnection`: no two workers hold the same connection.
`RoutingInv`: numbers, queues, messages, descriptor tables and histories agree.
`RightConnection` (action): the worker turns to the connection that travelled with
the message, though it uses the first descriptor it ever got under that number.
`AnswersBacked`: each answer took a byte of its own connection.
`WalkInv`: the requests a walk has queued stand behind its iterator, and their lists
are empty when their socket is next walked; an error that poll reported stays true
until the walk acts on it, however late.
`UnansweredInv`: the bytes a worker is assembling were read from its own client and are
in no answer yet; a worker that is not assembling has none left over.
`ImplementsClientService`: the refinement.

*NetStack, liveness.*
`MasterProgress`: unless a worker hangs for ever on a silent client, the master
keeps going round, dead workers notwithstanding, and a graceful shutdown ends it.
`WorkersFollowMaster`: no idle worker outlives the master.
`RequestAnswered`: while workers neither die nor hang, and failed accepts have not filled
the poll list, waiting bytes are answered.

*Daemon.*
`OrderlyOneServer`, `OrderlyPidFile`: while the past is orderly there is one server and
the file names it, whatever crashes, fails to fork or is stopped quickly.  Each of the
three disorders breaks one of them: two launches that both find no file, a launch
between the two destructions of a quick stop; a server that finds its ports taken
and forks workers that remove the file of the next one; a child that exits
(`PidFileNamesServer` without the premise, which fails).
`ServerOwnsPorts`: of two servers that meet on the ports one stops; no premise.
`StopEnds`: a stop that reached a server ends it at every stage of `process()`.
`QuitEnds`: a quit or a restart ends a server that does not wait for its workers for
ever: in `acceptWorker`, or in its loop in `sendmsg` to one that hangs.
`RestartGoesOn`: what the message says, of a server that got the signal and whose loop
no worker holds up; fails.

*Startup.*
`ConfFollowsReads`: after any edits, failed reads and reloads a key with a default has
what the last file said or the default, any other what the last file that knew it
said.  A reload is therefore not a fresh start: keys without a default outlive the
files that told them.
`ModulesAsListed`: the modules that will run are those of the first file, in its
order, without the ones that are nowhere, do not load or refuse; the loop that
erases while it walks closes the right one.
`StreamsToWorkers`: who serves has a stream to each of its workers.
`StartEnds`: a master that forked its workers and listens comes to serve.
`ServerFollowsConf`: modules and workers have the configuration; fails after a reload.

*Interpreter and PhpProcess.*
`AnswerExplained`: the status is that of the first stage that refused the request, or
500 where the page failed; errors have pages.
`ModulesInOrder`: SSL first and last, PHP before log, nobody after a failure.
`OutputWhole` (action): when execRequest returns it has read all that the script printed,
and kept all of it if there is no zero byte in it.  With one, the rest of that read is
lost: each chunk is appended as a C string.
`InterpretEnds`: a request whose body fits a pipe comes to an end, unless the child
returned as a copy of the worker, or the worker waits for its client for ever: in
`SSL_accept`, in the loop around `SSL_read`, in `send`.  All the exceptions are real: such a
request holds its worker for ever.
`ModuleResponseStands`: what a module answered is the answer; fails.

*Text.*
`ReadsTheGrammar`: the parser accepts a text exactly if the grammar gives it a value,
and gives that value.
`TypeOK`: its verdict stands on the text or its terminator, never behind it.
`PrintedReadsBack`: what is printed reads back as the same value, if the printed digits
of the doubles say the numbers in it.
`ConfKeepsDocument`: the configuration says what the document says, as far as it can
keep it (`Plain`).  `NamesKept`: libraries and directories are looked for by their names.
`RequestUnderstood`: a well-formed request is understood as what it says.
`TailHarmless`: what is left in the receive buffer changes nothing of a request
shorter than the buffer, nor of a head that was received to its end.
`FormUnderstood`: fields with one `=` each and whole escapes are read as what they say,
from a query string and from a body that is as long as announced.

What the text layer loses, and the properties leave out: in JSON, the first character of
a key is skipped unseen, literals are taken in any case, tabs are let through in strings
and raw characters above 127 are refused (they are negative); in the configuration,
escaped characters keep their letter only, nulls vanish, booleans in arrays are read off
the array, whole numbers beyond a long long are whatever the cast makes of them, others
lose what 15 digits do not show, the infinite is printed as null, keys are narrowed to a
byte per character, and the name of a library with a slash keeps the backslash the
printer put there; in requests, bodies lose empty lines and the line ends at their
edges, header values the adjacent colons, and a body that does not end with the buffer
is followed by what the buffer held, zeros or bytes of the previous chunk.

 **Fairness.**  Weak fairness of the master and of each worker (`NetStack`), of each
process (`Daemon`), of the master and of each worker that connects (`Startup`), of the
worker and of the child (`PhpProcess`): these are processes scheduled by the kernel
whose polls and sleeps time out; a blocked call is a disabled action.  Clients,
operators, administrators and other servers are never fair.  In `Daemon` the connection
of the workers (`WorkersConnected`) is not fair either, as it takes what `StartEnds`
assumes: `createWorker` returns at the first fork that fails, a worker returns from
`createSocketWorker` when it cannot connect, and `acceptWorker` waits for all of them.
The children of a master owe nothing (`BornStopped`, `ChildExits`). Nor is `LoopEnds`: a
master in `sendmsg` to a worker that hangs does not come back to its test; that it does
come round is `MasterProgress` of `NetStack`, under the premise stated there, and is a
premise of `QuitEnds` and `RestartGoesOn` here (`WaitsForWorkers`).  In `PhpProcess` the
worker owes nothing while it depends on its client (`WaitsForClient`), and nothing is
assumed of a copy of the worker; a script is assumed to print finitely much and to end.
`NoWorkerHangs` is a premise and not a fairness condition: the code has no time limit,
so a client may hold a worker, and behind it the master, for ever.


## 5. Proofs

`NetStackProofs` proves, for all connections, ports, workers, descriptor ranges,
buffer sizes, capacities and bounds that satisfy the ASSUMEs:

| theorem | states |
|---|---|
| `TypeCorrect` | `[]TypeOK` |
| `RoutingAgreed` | `[]RoutingInv` |
| `ClientsNotShared` | `[]OneWorkerPerConnection` |
| `RightConnectionServed` | `RightConnection`, an action property |
| `Invariance` | `[]IInv` |

The argument is about descriptor numbers.  `IInv` is `TypeInv /\ RoutingInv`.
`TypeInv` adds to the types that nobody reads more than was sent and that a busy
worker has a descriptor (`BusyInv`), without which `Client(w)` has no value.
`RoutingInv` has four parts.  `TableInv`: numbers and connections correspond one to one,
and a connection in the accept queue has no number.  `MasterInv`: poll list and
request queue name registered numbers of their own port.  `ChanInv`: a message
carries its number's connection, to that number's worker.  `HeldInv`: a worker holds
connections of its own numbers, and its history agrees with the master's table.
Each is preserved because no step takes a number away from a connection: the
master never closes one.  `OneWorkerPerConnection` follows: two workers with the same
connection would have the same number and so the same shard.  For
`RightConnection`, the history's descriptor and the one that just arrived belong to
the same number, hence to the same connection.  If the master closed disconnected
clients, as it looks as if it should, `TableInv` would break and with it all of this:
the mutant `DisconnectAndClose` shows the wrong client being served.

Of the master's half, with `IInv` at hand:

| theorem | states |
|---|---|
| `PollInvariance` | `[](IInv /\ PollInv)` |
| `ListsAgree` | `[]PollListMatchesMap` |
| `NoEventSkipped` | `[]NoSkippedEvent` |
| `QueuedOnce` | `[]NoDoubleRequest` |
| `ConnectionsKept` | `[]NoLostConnection` |
| `WalkInOrder` | `[]WalkInv` |

None of the four promises is inductive alone, and all of them with `WalkInv` are.  A
request is queued once because those already queued in this walk stand behind the
iterator (`QueuedBehind`) and the vector repeats nobody but -1 (`PollListMatchesMap`);
those of an earlier walk are gone because the balancer empties both lists before the
next. `Disconnect` erases from the vector it walks: `RemoveOne` says what a sequence
without repetition loses, and that the entries ahead move one place towards the
iterator, which stays.  `NoSkippedEvent` and `NoLostConnection` need that an error
reported by poll is still one when the walk comes to it (`ErrorsLast`), which holds
because a reset is final and a number keeps its connection.

Of the workers' half:

| theorem | states |
|---|---|
| `ServedInvariance` | `[](IInv /\ ServedInv)` |
| `AnswersEarned` | `[]AnswersBacked` |
| `AccountsKept` | `[]UnansweredInv` |
| `Refinement` | `ImplementsClientService`, the abstract specification |

That an answer took a byte of its own connection needs an account of the bytes in hand
(`UnansweredInv`), and that account needs `OneWorkerPerConnection`: a second worker
assembling a request of the same connection would count its bytes twice
(`ClientHeld`, `ServedOthers`).  For the refinement, the reader of a connection is the
worker that has it in its table, unique by the same theorem (`HeldOnce`); a `Recv` is a
`Read`, an `Interpret` an `Answer`, the end of a worker a `Forget`, the first message for
a connection a `Claim`, and the master and the clients' other steps leave the service
where it is.  `ServiceStep` has one step per action.

`DaemonProofs` proves, for any number of processes, crashes and exits:

| theorem | states |
|---|---|
| `DaemonTypes` | `[]TypeOK` |
| `PortsOwned` | `[]ServerOwnsPorts` |
| `OrderlyInvariance` | `[]IInv` |
| `AtMostOneServer` | `[]OrderlyOneServer` |
| `FileNamesServer` | `[]OrderlyPidFile` |

`ServerOwnsPorts` is inductive as it stands.  The others need, while the past is
orderly, `OrderInv` (at most one command is in the foreground or starting; its flag is
up and no signal is pending for it or for a process not yet started; while it is active
no INT is on its way to a server and nobody is exiting; no worker is born to exit) and
`OwnerInv` (one owner of the file from its creation on; the file is empty until the
pid is written; who found no file still finds none).  The case that matters is
`CreateFile`: the test made one step earlier is still true because nobody else is in
the foreground and a running server cannot lose its file.  `PastStep` makes the rest
possible: a past that is orderly after a step was orderly before it.

`StartupProofs` proves, for any keys, values, defaults, files, libraries, lists and
outcomes, and any number of workers and reads:

| theorem | states |
|---|---|
| `ConfReflectsReads` | `[]ConfFollowsReads` |
| `StreamInvariance` | `[]StreamInv` |
| `EveryWorkerReached` | `[]StreamsToWorkers` |
| `StartInvariance` | `[]ModuleInv` |
| `StartupTypes` | `[]TypeOK` |
| `ModulesAreListed` | `[]ModulesAsListed` |

For the configuration the induction is over one more read (`ReadStep`), and turns on
who told a key: `TellersGrow` says what one more read does to that set, `KeyRead` what
it does to the value.  For the streams the invariant says that, as long as nobody
else uses the path, whoever is in the queue or behind a stream is a worker of this
master that has connected, each at most once (`OwnQueue`, `OwnStreams`), and how many
streams there are at each point (`StreamsInOrder`).  That everyone is reached is then
counting: as many streams as workers, all different, leave no worker out.  For the
modules, `LoadedSoFar` says that those before the next entry of the list are loaded but
for the ones that failed; the step that matters is a library that loads and then
refuses its configuration, where the loop that erases while it walks takes the last
module and finds no namesake in front of it (`CloseLast`): those were refused as well.

`InterpreterProofs` proves, for lists of modules of any length and pipes and outputs of
any size:

| theorem | states |
|---|---|
| `InterpreterTypes` | `[]TypeOK` |
| `StatusExplained` | `[]AnswerExplained` |
| `CallsInOrder` | `[]ModulesInOrder` |
| `NothingLost` | `OutputWhole`, an action property |
| `ProcImplements` | `ProcSpec => Spec` |
| `WithItsChild` | the three invariants of `Interpreter`, of `ProcSpec` |

For `StatusExplained` the invariant says what each stage of the try block has
established (`TryInv`): from `Root` on the request was decoded and is well formed; in
the loop the body is there exactly if the last call of the PHP module answered.  Two
lemmas about the history carry it: a call of another module changes nothing of what
PHP did (`OtherCall`), a call of PHP replaces it (`PhpCall`).  `CallsInOrder` needs
that the list stays sorted and that every module called so far goes before every
module still ahead (`OrderInv`), although duplicates make the positions
move.  For `NothingLost`, `FlowInv` says that what was read, what stands in the pipe and
what is still to print make up the output at any moment, and that a child that is gone
has nothing left to print.  `ProcImplements` is a refinement without a mapping: all that
happens between fork and the end of the pipe is a stutter of `interpret`, so whatever
is proved of `interpret` holds with the child (`WithItsChild`).

`HttpTextProofs` proves, for texts of any length over any alphabet, for any `BuffSize`
and `MaxUriSize`, and for forms of any number of fields:

| theorem | states |
|---|---|
| `TailIsHarmless` | `[]TailHarmless` |
| `WellFormedUnderstood` | `[]RequestUnderstood` |
| `FormsUnderstood` | `[]FormUnderstood` |

These are theorems about functions of a text; the only invariant is that the text
remains one over its alphabet (`EditInv`).  For `TailIsHarmless`: `recv` into the reused
buffer yields the bytes that were sent and then something else (`BytesReceived`), which
begins with a zero if one chunk held them; a text ends at its first zero.  When a text
goes on, its pieces are the old ones but for the last, which grows, and new ones
(`PiecesContinue`, by counting where pieces start and end).  The empty line that ends a
head, a mere CR, is such a piece, so nothing in front of it changes (`LinesContinue`),
and of what is behind it only the end does.  For `WellFormedUnderstood`: if a text is
cut at a delimiter, its pieces are those of the two parts (`CutPieces`).  With it a
well-formed text is a head, a blank line and a body; the lines of the head with their CR
are the pieces that the parser sees (`LinesArePieces`, `HeadParts`); a request line with
two single spaces has three (`ThreePieces`); the pieces of a header line after its name,
joined again by colons, are its value (`ValueJoined`); and writing them one after the
other into the map leaves the last of each name (`HeadersRead`).  `KeptCut` and
`RejoinedPieces` do the same for the body.

Of a form the code scans what the reference divides.  For the escapes, what `urlDecode`
makes of the text from a position on is compared with what the positions that stand for
a character say from there on (`Decoded`, from the end to the beginning).  For the
fields, the invariant of the scan (`ScannedAt`) says at each position which field is
being read, how much of its key and of its value, and that the fields before it are in
the map as what they say.  A separator is the step that matters: `OneMoreField` says
that writing a field over the map is what one more field says, whatever it repeats.

`JsonProofs` proves, for texts of any length and nesting over any alphabet:

| theorem | states |
|---|---|
| `ParserStaysInText` | `[]TypeOK` of `JsonGrammar` |
| `ParserIsGrammar` | `[]ReadsTheGrammar` |
| `NamesAreKept` | `[]NamesKept` |
| `StringsReadBack` | every string is printed as a text that is read as that string |

A parse and a meaning are functions that recur into a position further on or a smaller
part.  That such functions exist is a lemma each (`ParseExists`, `MeansExists`), by the
rank of what is still unread or of the size of a part (`ByRank`); every other induction
runs over the same ranks.  `ParserStaysInText` needs that no verdict passes the
terminator: the one advance that is not checked, behind a missing colon, is behind a
character that is there because `ReadColon` looked for the end first (the mutant
`ReadColonBlind` does not).  `ParserIsGrammar` has two halves.  What is read is denoted
(`ParserSound`): the positions where the parser stopped are a division of the text.
What is denoted is read (`ParserComplete`): whatever division the grammar chose, the
parser finds the same one, since a value ends where what follows cannot continue it
(`FollowIs`, `NumberComplete`) and a mark between values is the first character that is
not white (`MarkIs`).  A grammar that gave a text two values would therefore be
refuted as well.  The two liberties of `JsonGrammar` appear where the proof needs them:
the skipped first character of a key (`KeyComplete`) may be anything but the brace of
an empty object.  For `NamesAreKept`: erasing commutes with appending
(`ErasedAppend`), so what is printed for a plain character and erased again is the
character (`PlainRecovered`), and strings of a document are strings (`StringDenoted`).
For `StringsReadBack`, the print of a string stands between its quotes as what the
grammar reads as that string, escape by escape (`EscapeIsRead`, `PrintedIsUnquoted`),
and what the grammar reads, the parser does (`DocumentIs`).  All of it assumes that no
character of a text is its terminator (`TerminatorAssumption`): the file is read into a C
string.

`DocumentProofs` proves, for documents of any length and depth, numbers of any size and
strings over any alphabet:

| theorem | states |
|---|---|
| `ConfigurationKeeps` | `[]ConfKeepsDocument` |
| `PrintedIsReadBack` | `[]PrintedReadsBack` |

Both are about descents into a value.  The values that a text denotes are made of others
that parts of it denote (`PartsClosed`, `NestedClosed`), and have a rank, the length of
the least such part: so a descent is a function that exists and is what its equation
says at every value within (`Local`, `DescentExists`; `ConfIs`, `JsonIs`, `PrintIs`), and
a claim about all values is proved by rank.

For `ConfigurationKeeps`: at each kind, if the values within say what the document says,
so does the value (`ConfKeeps`); the values of the configuration are closed in turn, as
the image of closed ones (`ImageClosed`), so what they say is defined, and is the document
(`SaidBack`, `DocumentKept`).  What the code loses appears as the hypothesis of one case
each: `Plain` is what the proof asks for.

For `PrintedIsReadBack` it is shown that the print of a value, wherever it stands in a
text, is a part that denotes the value (`PrintedStands`), and of the whole text this is
what the parser reads (`DocumentPrinted`, by `DocumentIs`).  Digits that were printed
spell their number (`DigitsSpell`), and a number with an exponent is the normal form that
a parse leaves, as that never ends in a zero (`NumberNormal`, `NumberStands`).  The parts
of a list stand between their commas (`StandsSplit`, `ElementsStand`), and members do in
any order of the keys (`SetToSeqIs`, `MembersStand`), since no key is printed twice.

`ListInduction` is what these inductions rest on.  The library's theorems of induction
take an operator as a parameter; `AllNumbers`, `AllLists` and `LeastNumber` take the set
of those for which the claim holds instead, and follow from the library's theorem that
every non-empty set of numbers has a minimal element.  It also says what `Only` (of
`Lists`) keeps of a list, which the modules of `Startup` and the erasures of
`ModuleNames` have in common.

The proofs assume nothing but the ASSUMEs of the modules, which TLC evaluates in
every run.


## 6. Only model-checked, and not modelled

*Only model-checked*: every liveness property (`MasterProgress`, `WorkersFollowMaster`,
`RequestAnswered`, `StopEnds`, `QuitEnds`, `StartEnds`, `InterpretEnds`): fairness is
stated with ENABLED, which is out of the prover's reach.  Every other property
of a passing run, invariant, action property or refinement, is the statement of a
theorem.  The four properties that fail are shown by TLC's
counterexamples alone.

*Abstractions.*  In `NetStack` bytes are counted.  Handlers run between two steps: what
a handler does in the middle of an allocation is not modelled.  The length of the accept
queue (`listen(_fd, 42)`) is not limited.  Copies of the -1 entry are counted up to the
first list that poll refuses, as nothing reads that list any more.  In `Worker` an
answer is one step: a client that does not read makes `send` wait, which is a worker
that hangs, as it does in `recv` or in a handshake, and is what `NoWorkerHangs`
excludes; in `Interpreter` that wait is there.  The pipe end that a script leaves open
in the worker is not counted, as the directories are: it is the same leak.  In `Worker`,
the handshakes of an SSL client take bytes and the answer inside the session is not
counted; what is decoded and encoded is in `Interpreter`, where in turn the connection
does not appear.  `SSL_write` is given `sizeof(char *)` as length (`SSLModule.cpp:64`):
that eight bytes of the response arrive is not expressed.  In `Startup` a call of
`browser_conf` is one step, and so is `init` of one module; a reload that arrives within
another waits for it, as the signal is blocked while its handler runs. In `Daemon` a
constructor binds both ports or counts as refused: the one port it may hold all the same
is not followed further.  In `PhpProcess` `read` does not fail (its -1 would be a write
in front of the buffer and a loop without end). A number of a text is a whole number and
an exponent.  There is one double for it, however it is written: the code multiplies
digit by digit, so that `0.3e1` may come out a bit away from `3`; which numbers are kept
is then a matter of `Double`.  The printer is given the decimal digits of the double, in
one of the forms that `operator<<` chooses between.

*Not modelled*: text and file output (`Logger`, the log file, the printing of a
response), the values of response headers, the arguments and environment of php-cgi,
copying and ownership of JSON values (a document that is no object is never freed),
option parsing beyond the commands, certificates and OpenSSL, the error classes
(types without behaviour), the test page of `functions_php.cpp`, the copies and
assignments of the classes (not called), the Windows stub, the unit tests and Catch.
Catch is one vendored header of 12,795 lines, two thirds of all the source; of the
rest, what is not mapped is mostly declarations, logging and the items of this list.


## 7. Plan

1. The composition of `Daemon` and `Startup`: two servers that share ports, pid file
   and path, each with its workers as processes.
2. With it, the theorems of `DaemonProofs` and `StartupProofs` as theorems of the
   composition; every invariant of the present runs is proved.

New questions share instances with old ones where they can, so that the number of
runs stays readable.
