------------------------------ MODULE Interpreter ------------------------------
(***************************************************************************)
(* HttpInterpreter::interpret (sources/server/http/HttpInterpreter.cpp) on *)
(* one request of a worker: the SSL module decodes, the request is parsed, *)
(* the modules run by priority, what they leave unanswered is answered     *)
(* from the file system, errors get a page, the SSL module encodes and the *)
(* worker sends.                                                           *)
(*                                                                         *)
(* A request is what the stages find in it; a response its status, whether *)
(* its body has something in it and who wrote it.                          *)
(***************************************************************************)
EXTENDS Integers, Sequences

CONSTANT MaxModules   \* bound: length of the list of loaded modules

ASSUME MaxModulesAssumption == MaxModules \in Nat

Modules == {"ssl", "php", "log"}
Priority == [ssl |-> 0, php |-> 1, log |-> 100]   \* getPriority()

Requests ==
  [faults : SUBSET {"syntax", "size", "host"},    \* what parse and getRootFromHost refuse
   method : {"GET", "HEAD", "POST", "unknown"},   \* POST: also OPTIONS, PUT ... CONNECT
   kind   : {"script", "file", "directory", "none"},
   exists : BOOLEAN,                              \* something readable has that name
   query  : BOOLEAN]                              \* the URI has a '?' and more

VARIABLES
  ssl,       \* interpret's argument is "", as it is for an SSL client
  request,   \* what the client asked
  modules,   \* HttpInterpreter::_modules
  templates, \* the two files below templates/: "ok", "missing", "broken"
  pc,        \* where interpret() is
  i,         \* the entry of modules the loop is at
  raw,       \* duplex.raw_req: "nothing", the "request" or the "path"
  resp,      \* duplex.resp
  ret,       \* the string interpret returns: "nothing" ("") or the "text" of a response
  out,       \* what the client gets: "none", "plain" or "tls"
  trace      \* the calls of exec so far

vars == <<ssl, request, modules, templates, pc, i, raw, resp, ret, out, trace>>

Status == {0, 200, 400, 404, 414, 500, 501}
Responses == [status : Status, body : BOOLEAN, by : {"server", "php", "file"}]
Outcomes == {"request", "untouched", "answered", "cleared", "blank", "failed", "sent"}
Calls == [module : Modules, input : {"nothing", "request", "path"}, outcome : Outcomes]

TypeOK ==
  /\ ssl \in BOOLEAN
  /\ request \in Requests
  /\ modules \in Seq(Modules) /\ Len(modules) <= MaxModules
  /\ templates \in {"ok", "missing", "broken"}
  /\ pc \in {"decode", "parse", "root", "modules", "method", "page", "encode",
             "send", "done", "crashed"}
  /\ i \in 1 .. Len(modules) + 1
  /\ raw \in {"nothing", "request", "path"}
  /\ resp \in Responses
  /\ ret \in {"nothing", "text"}
  /\ out \in {"none", "plain", "tls"}
  /\ trace \in Seq(Calls)

\* getDefaultResponse
DefaultResponse(s) == [status |-> s, body |-> FALSE, by |-> "server"]

\* The constructor sorts by priority.
Sorted(list) == \A j, k \in DOMAIN list : j < k => Priority[list[j]] <= Priority[list[k]]

Init ==
  /\ ssl \in BOOLEAN
  /\ request \in Requests
  /\ modules \in UNION {[1 .. n -> Modules] : n \in 0 .. MaxModules}
  /\ Sorted(modules)
  /\ templates \in {"ok", "missing", "broken"}
  /\ pc = IF ssl THEN "decode" ELSE "parse"
  /\ i = 1
  /\ raw = IF ssl THEN "nothing" ELSE "request"
  /\ resp = DefaultResponse(0)
  /\ ret = "nothing"
  /\ out = "none"
  /\ trace = <<>>

Front(m) == modules # <<>> /\ Head(modules) = m

Called(m, input, outcome) ==
  trace' = Append(trace, [module |-> m, input |-> input, outcome |-> outcome])

\* An exception of the try block: a fresh response, and on to the error page.
Catch(s) == resp' = DefaultResponse(s) /\ pc' = "page"

-------------------------------------------------------------------------------
(* SSLModule::exec before the request is known: SSL_accept, which waits for  *)
(* the client, then reading while the uninitialized buffer spells an empty   *)
(* line, so perhaps never, or for ever.                                      *)
Decode ==
  /\ pc = "decode"
  /\ IF Front("ssl")
       THEN \/ /\ raw' \in {"nothing", "request"}
               /\ Called("ssl", "nothing", IF raw' = "nothing" THEN "blank" ELSE "request")
               /\ pc' = "parse"
               /\ UNCHANGED resp
            \/ Called("ssl", "nothing", "failed") /\ Catch(400) /\ UNCHANGED raw
       ELSE Catch(400) /\ UNCHANGED <<raw, trace>>
  /\ UNCHANGED <<ssl, request, modules, templates, i, ret, out>>

\* Mutant: the length of the URI is looked at before the headers.
ParseSizeFirst ==
  /\ pc = "parse"
  /\ IF raw = "nothing" THEN Catch(400)
     ELSE IF "size" \in request.faults THEN Catch(414)
     ELSE IF "syntax" \in request.faults THEN Catch(400)
     ELSE pc' = "root" /\ UNCHANGED resp
  /\ UNCHANGED <<ssl, request, modules, templates, i, raw, ret, out, trace>>

Parse ==
  /\ pc = "parse"
  /\ IF raw = "nothing" \/ "syntax" \in request.faults THEN Catch(400)
     ELSE IF "size" \in request.faults THEN Catch(414)
     ELSE pc' = "root" /\ UNCHANGED resp
  /\ UNCHANGED <<ssl, request, modules, templates, i, raw, ret, out, trace>>

Root ==
  /\ pc = "root"
  /\ IF "host" \in request.faults
       THEN Catch(400) /\ UNCHANGED raw
       ELSE resp' = DefaultResponse(200) /\ pc' = "modules" /\ raw' = "path"
  /\ UNCHANGED <<ssl, request, modules, templates, i, ret, out, trace>>

\* split(host, ":")[0] of a Host header without a value.
RootCrashes ==
  /\ pc = "root"
  /\ "host" \in request.faults
  /\ pc' = "crashed"
  /\ UNCHANGED <<ssl, request, modules, templates, i, raw, resp, ret, out, trace>>

-------------------------------------------------------------------------------
(* The loop over the modules. *)

\* Mutant: the iterator advances in the body as well.
SkipSslAndNext ==
  /\ pc = "modules"
  /\ i <= Len(modules) /\ modules[i] = "ssl"
  /\ i' = i + 2
  /\ UNCHANGED <<ssl, request, modules, templates, pc, raw, resp, ret, out, trace>>

SkipSsl ==
  /\ pc = "modules"
  /\ i <= Len(modules) /\ modules[i] = "ssl"
  /\ i' = i + 1
  /\ UNCHANGED <<ssl, request, modules, templates, pc, raw, resp, ret, out, trace>>

\* cppModule::exec: php-cgi answers for scripts, whether they exist or not; for
\* HEAD its output is cleared again; without php-cgi there is no output.
Script ==
  \/ request.kind # "script" /\ Called("php", raw, "untouched") /\ UNCHANGED resp
  \/ /\ request.kind = "script"
     /\ \E o \in {"blank", IF request.method = "HEAD" THEN "cleared" ELSE "answered"} :
          /\ Called("php", raw, o)
          /\ resp' = [resp EXCEPT !.body = o = "answered", !.by = "php"]

Php ==
  /\ pc = "modules"
  /\ i <= Len(modules) /\ modules[i] = "php"
  /\ Script
  /\ i' = i + 1
  /\ UNCHANGED <<ssl, request, modules, templates, pc, raw, ret, out>>

\* Mutant: the loop goes on after a module that failed.
PhpFailsAndLogs ==
  /\ pc = "modules"
  /\ i <= Len(modules) /\ modules[i] = "php"
  /\ request.kind = "script"
  /\ Called("php", raw, "failed")
  /\ resp' = DefaultResponse(500)
  /\ i' = i + 1
  /\ UNCHANGED <<ssl, request, modules, templates, pc, raw, ret, out>>

\* pipe or fork fails, or pipe in the child, which then goes on as a worker.
PhpFails ==
  /\ pc = "modules"
  /\ i <= Len(modules) /\ modules[i] = "php"
  /\ request.kind = "script"
  /\ Called("php", raw, "failed")
  /\ resp' = DefaultResponse(500)
  /\ pc' = "method"
  /\ UNCHANGED <<ssl, request, modules, templates, i, raw, ret, out>>

\* split(url, ".").back() of a path that is nothing but dots.
PhpCrashes ==
  /\ pc = "modules"
  /\ i <= Len(modules) /\ modules[i] = "php"
  /\ request.kind \in {"none", "directory"}
  /\ pc' = "crashed"
  /\ UNCHANGED <<ssl, request, modules, templates, i, raw, resp, ret, out, trace>>

\* A read that fills execRequest's buffer writes its final NUL behind it.
ScriptCrashes ==
  /\ pc = "modules"
  /\ i <= Len(modules) /\ modules[i] = "php"
  /\ request.kind = "script"
  /\ pc' = "crashed"
  /\ UNCHANGED <<ssl, request, modules, templates, i, raw, resp, ret, out, trace>>

\* From priority 2 on a module is given interpret's argument again.
Log ==
  /\ pc = "modules"
  /\ i <= Len(modules) /\ modules[i] = "log"
  /\ raw' = IF ssl THEN "nothing" ELSE "request"
  /\ Called("log", raw', "untouched")
  /\ i' = i + 1
  /\ UNCHANGED <<ssl, request, modules, templates, pc, resp, ret, out>>

ModulesDone ==
  /\ pc = "modules"
  /\ i > Len(modules)
  /\ pc' = "method"
  /\ UNCHANGED <<ssl, request, modules, templates, i, raw, resp, ret, out, trace>>

-------------------------------------------------------------------------------
(* What no module has answered. *)

\* A module's body stands.
Keep ==
  /\ pc = "method"
  /\ resp.body
  /\ pc' = "page"
  /\ UNCHANGED <<ssl, request, modules, templates, i, raw, resp, ret, out, trace>>

\* get(): the path keeps its query, so that a file is not found with one.
Found == request.exists /\ ~request.query

\* HEAD gets what GET would, without the body.
FileResponse(content) ==
  [status |-> 200, body |-> content = "full" /\ request.method = "GET", by |-> "file"]

\* viewDirectory needs its template, and opendir may refuse.  A directory with an
\* extension that has a MIME type is read like a file: nothing comes of it.
DirectoryResponses ==
  {FileResponse("empty")} \cup
  (IF templates = "ok" THEN {DefaultResponse(404), FileResponse("full")}
   ELSE IF templates = "broken" THEN {DefaultResponse(404), DefaultResponse(500)}
   ELSE {DefaultResponse(404)})

\* An empty file has an empty body.
GetResponses ==
  IF ~Found THEN {DefaultResponse(404)}
  ELSE IF request.kind = "directory" THEN DirectoryResponses
  ELSE {FileResponse("full"), FileResponse("empty")}

Get ==
  /\ pc = "method"
  /\ ~resp.body
  /\ request.method \in {"GET", "HEAD"}
  /\ request.kind # "none"
  /\ resp' \in GetResponses
  /\ pc' = "page"
  /\ UNCHANGED <<ssl, request, modules, templates, i, raw, ret, out, trace>>

\* split(uri, "?")[0] of a URI that is only '?'.
GetCrashes ==
  /\ pc = "method"
  /\ ~resp.body
  /\ request.method \in {"GET", "HEAD"}
  /\ request.kind = "none"
  /\ pc' = "crashed"
  /\ UNCHANGED <<ssl, request, modules, templates, i, raw, resp, ret, out, trace>>

OtherMethod ==
  /\ pc = "method"
  /\ ~resp.body
  /\ request.method \in {"POST", "unknown"}
  /\ Catch(IF request.method = "POST" THEN 501 ELSE 400)
  /\ UNCHANGED <<ssl, request, modules, templates, i, raw, ret, out, trace>>

-------------------------------------------------------------------------------
(* After the try block. *)

\* viewError: the page, or an exception.
ViewError ==
  IF templates = "ok" THEN [resp EXCEPT !.body = TRUE] ELSE [resp EXCEPT !.status = 500]

Page ==
  /\ pc = "page"
  /\ resp' = IF resp.status = 200 \/ resp.body THEN resp ELSE ViewError
  /\ pc' = "encode"
  /\ UNCHANGED <<ssl, request, modules, templates, i, raw, ret, out, trace>>

EncodePlain ==
  /\ pc = "encode"
  /\ ~ssl
  /\ ret' = "text"
  /\ pc' = "send"
  /\ UNCHANGED <<ssl, request, modules, templates, i, raw, resp, out, trace>>

\* SSLModule::exec again, with a handshake of its own that waits for the client; it
\* writes the first sizeof(char *) bytes.  When it fails the text of a 500 is returned.
EncodeSsl ==
  /\ pc = "encode"
  /\ ssl
  /\ Front("ssl")
  /\ \/ out' = "tls" /\ ret' = "nothing" /\ Called("ssl", raw, "sent")
     \/ ret' = "text" /\ Called("ssl", raw, "failed") /\ UNCHANGED out
  /\ pc' = "send"
  /\ UNCHANGED <<ssl, request, modules, templates, i, raw, resp>>

\* The first module is not the SSL module, and there may be none: front() of an
\* empty list, the PHP module on an empty path (vGet[0]), or the log module.
EncodeOther ==
  /\ pc = "encode"
  /\ ssl
  /\ ~Front("ssl")
  /\ IF Front("log") THEN Called("log", raw, "untouched") /\ pc' = "send"
     ELSE pc' = "crashed" /\ UNCHANGED trace
  /\ UNCHANGED <<ssl, request, modules, templates, i, raw, resp, ret, out>>

\* Worker::loop sends to clients of the plain port only; send waits for a client that
\* does not read.
Send ==
  /\ pc = "send"
  /\ out' = IF ssl THEN out ELSE "plain"
  /\ pc' = "done"
  /\ UNCHANGED <<ssl, request, modules, templates, i, raw, resp, ret, trace>>

Next ==
  \/ Decode \/ Parse \/ Root \/ RootCrashes
  \/ SkipSsl \/ Php \/ PhpFails \/ PhpCrashes \/ ScriptCrashes \/ Log \/ ModulesDone
  \/ Keep \/ Get \/ GetCrashes \/ OtherMethod
  \/ Page \/ EncodePlain \/ EncodeSsl \/ EncodeOther \/ Send

Spec == Init /\ [][Next]_vars

-------------------------------------------------------------------------------
(* Properties. *)

\* The outcome of the last call of the PHP module, of which there may be several.
PhpDid(o) ==
  \E k \in DOMAIN trace :
    /\ trace[k].module = "php" /\ trace[k].outcome = o
    /\ \A j \in k + 1 .. Len(trace) : trace[j].module # "php"

Decoded == ssl => \E k \in DOMAIN trace : trace[k].outcome = "request"

\* The status a request deserves: that of the first stage that refuses it.
Due ==
  IF ~Decoded \/ "syntax" \in request.faults THEN {400}
  ELSE IF "size" \in request.faults THEN {414}
  ELSE IF "host" \in request.faults THEN {400}
  ELSE IF PhpDid("answered") THEN {200}
  ELSE IF request.method = "POST" THEN {501}
  ELSE IF request.method = "unknown" THEN {400}
  ELSE IF ~Found THEN {404}
  ELSE IF request.kind = "directory" THEN {200, 404, 500}
  ELSE {200}

\* Whatever exceptions, failing modules and file accesses happen on the way, the
\* answer has the status of the first stage that refused the request, or 500 where
\* the error page itself failed, and every error that can have a page has one
\* (interpret, HttpInterpreter.cpp:61-125).
AnswerExplained ==
  pc \in {"encode", "send", "done"} =>
    /\ \/ resp.status \in Due
       \/ (resp.status = 500 /\ templates # "ok" /\ Due # {200})
    /\ resp.status # 200 => resp.body \/ templates # "ok"

\* The SSL module sees a request before, and its answer after, all others; PHP is
\* given a path and runs before the log module; after a failure no other
\* module runs (HttpInterpreter.cpp:64-82, :128-129).
ModulesInOrder ==
  \A k \in DOMAIN trace :
    /\ trace[k].module = "ssl" => k = 1 \/ (k = Len(trace) /\ pc \in {"send", "done"})
    /\ trace[k].module = "php" => trace[k].input = "path"
    /\ \A j \in 1 .. k - 1 :
         trace[k].module # "ssl" =>
           /\ Priority[trace[j].module] <= Priority[trace[k].module]
           /\ trace[j].outcome # "failed"

\* "If no module has set a response, try to interpret the request"
\* (HttpInterpreter.cpp:83): a response that the PHP module set is the answer.
\* It is replaced when its body is empty: for HEAD, and for a script without output.
ModuleResponseStands ==
  (pc \in {"encode", "send", "done"} /\ \E o \in {"answered", "cleared", "blank"} : PhpDid(o))
    => resp.by = "php"
===============================================================================
