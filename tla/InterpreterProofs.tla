-------------------------- MODULE InterpreterProofs ---------------------------
(***************************************************************************)
(* What a client gets for a request, for lists of modules of any length.   *)
(***************************************************************************)
EXTENDS PhpProcess, TLAPS, FiniteSetTheorems

\* In the try block nothing has been sent; before the modules run none of them
\* has, and the body is what the last call of the PHP module left.
TryInv ==
  /\ pc = "decode" => ssl /\ raw = "nothing" /\ trace = <<>>
  /\ pc = "parse" => (Decoded <=> raw # "nothing")
  /\ pc \in {"decode", "parse", "root"} => \A o \in Outcomes : ~PhpDid(o)
  /\ pc \in {"root", "modules", "method"} =>
       Decoded /\ "syntax" \notin request.faults /\ "size" \notin request.faults
  /\ pc \in {"modules", "method"} =>
       /\ "host" \notin request.faults
       /\ resp.body <=> PhpDid("answered")
       /\ resp.body => resp.status = 200 /\ request.kind = "script"
  /\ pc = "modules" => resp.status = 200

\* From the error page on, the status is the one that is due.
DueInv ==
  /\ pc = "page" => resp.status \in Due
  /\ AnswerExplained

IInv == TypeOK /\ TryInv /\ DueInv

-------------------------------------------------------------------------------
(* What the histories say after one more call. *)

\* A call of another module does not change what the PHP module did.
LEMMA OtherCall ==
  ASSUME trace \in Seq(Calls), NEW c \in Calls, c.module # "php", trace' = Append(trace, c)
  PROVE  \A o \in Outcomes : PhpDid(o)' <=> PhpDid(o)
<1> TAKE o \in Outcomes
<1>1. /\ Len(trace') = Len(trace) + 1 /\ DOMAIN trace' = 1 .. Len(trace) + 1
      /\ DOMAIN trace = 1 .. Len(trace) /\ Len(trace) \in Nat
      /\ \A k \in 1 .. Len(trace) : trace'[k] = trace[k]
      /\ trace'[Len(trace) + 1] = c
  OBVIOUS
<1> QED  BY <1>1 DEF PhpDid

\* A call of the PHP module is the last of them.
LEMMA PhpCall ==
  ASSUME trace \in Seq(Calls), NEW c \in Calls, c.module = "php", trace' = Append(trace, c)
  PROVE  \A o \in Outcomes : PhpDid(o)' <=> c.outcome = o
<1> TAKE o \in Outcomes
<1>1. /\ Len(trace') = Len(trace) + 1 /\ DOMAIN trace' = 1 .. Len(trace) + 1
      /\ DOMAIN trace = 1 .. Len(trace) /\ Len(trace) \in Nat
      /\ trace'[Len(trace) + 1] = c
  OBVIOUS
<1> QED  BY <1>1 DEF PhpDid

\* Only a call that yields a request can decode one.
LEMMA DecodedKept ==
  ASSUME trace \in Seq(Calls), NEW c \in Calls, c.outcome # "request",
         trace' = Append(trace, c), UNCHANGED ssl
  PROVE  Decoded' <=> Decoded
<1>1. /\ DOMAIN trace' = 1 .. Len(trace) + 1
      /\ DOMAIN trace = 1 .. Len(trace) /\ Len(trace) \in Nat
      /\ \A k \in 1 .. Len(trace) : trace'[k] = trace[k]
      /\ trace'[Len(trace) + 1] = c
  OBVIOUS
<1> QED  BY <1>1 DEF Decoded

\* The calls that the steps make are well typed.
LEMMA CallTyped ==
  ASSUME NEW m \in Modules, NEW input \in {"nothing", "request", "path"}, NEW o \in Outcomes,
         Called(m, input, o), trace \in Seq(Calls)
  PROVE  \E c \in Calls : /\ c.module = m /\ c.outcome = o
                          /\ trace' = Append(trace, c) /\ trace' \in Seq(Calls)
<1> DEFINE c == [module |-> m, input |-> input, outcome |-> o]
<1>1. c \in Calls  BY DEF Calls
<1>2. trace' = Append(trace, c)  BY DEF Called
<1>3. trace' \in Seq(Calls)  BY <1>1, <1>2
<1>4. c.module = m /\ c.outcome = o  OBVIOUS
<1> QED  BY <1>1, <1>2, <1>3, <1>4

-------------------------------------------------------------------------------
(* Types. *)

LEMMA DefaultTyped == \A s \in Status : DefaultResponse(s) \in Responses
BY DEF DefaultResponse, Responses

LEMMA TypeInit == Init => TypeOK
<1> SUFFICES ASSUME Init PROVE TypeOK
  OBVIOUS
<1>1. PICK n \in 0 .. MaxModules : modules \in [1 .. n -> Modules]  BY DEF Init
<1>2. modules \in Seq(Modules) /\ Len(modules) = n
  BY <1>1, MaxModulesAssumption
<1>3. modules \in Seq(Modules) /\ Len(modules) <= MaxModules /\ 1 \in 1 .. Len(modules) + 1
  BY <1>1, <1>2, MaxModulesAssumption
<1>4. resp \in Responses
  BY DefaultTyped DEF Init, Status
<1>5. trace \in Seq(Calls) /\ i = 1  BY DEF Init
<1> QED
  BY <1>3, <1>4, <1>5 DEF Init, TypeOK

LEMMA TypeStep == TypeOK /\ [Next]_vars => TypeOK'
<1> SUFFICES ASSUME TypeOK, [Next]_vars PROVE TypeOK'
  OBVIOUS
<1>0. resp' \in Responses
  <2>1. \A t \in {200, 400, 404, 414, 500, 501} : DefaultResponse(t) \in Responses
    BY DefaultTyped DEF Status
  <2>2. resp \in Responses  BY DEF TypeOK
  <2>3. CASE Decode  BY <2>1, <2>2, <2>3 DEF Decode, Catch
  <2>4. CASE Parse  BY <2>1, <2>2, <2>4 DEF Parse, Catch
  <2>5. CASE Root  BY <2>1, <2>2, <2>5 DEF Root, Catch
  <2>6. CASE Php
    <3>1. \A b \in BOOLEAN : [resp EXCEPT !.body = b, !.by = "php"] \in Responses
      BY <2>2 DEF Responses
    <3> QED  BY <2>2, <2>6, <3>1 DEF Php, Script
  <2>7. CASE PhpFails  BY <2>1, <2>7 DEF PhpFails
  <2>8. CASE Get
    <3>1. FileResponse("full") \in Responses /\ FileResponse("empty") \in Responses
      BY DEF FileResponse, Responses, Status
    <3>2. \/ resp' = DefaultResponse(404) \/ resp' = DefaultResponse(500)
          \/ resp' = FileResponse("full") \/ resp' = FileResponse("empty")
      BY <2>8, ZenonT(60) DEF Get, GetResponses, DirectoryResponses
    <3>3. DefaultResponse(404) \in Responses /\ DefaultResponse(500) \in Responses
      BY <2>1
    <3> QED  BY <3>1, <3>2, <3>3
  <2>9. CASE OtherMethod  BY <2>1, <2>9 DEF OtherMethod, Catch
  <2>10. CASE Page
    <3>1. \A b \in BOOLEAN : [resp EXCEPT !.body = b] \in Responses
      BY <2>2 DEF Responses
    <3>2. \A t \in Status : [resp EXCEPT !.status = t] \in Responses
      BY <2>2 DEF Responses
    <3>3. 500 \in Status  BY DEF Status
    <3> QED  BY <2>2, <2>10, <3>1, <3>2, <3>3, ZenonT(60) DEF Page, ViewError
  <2> QED
    BY <2>2, <2>3, <2>4, <2>5, <2>6, <2>7, <2>8, <2>9, <2>10
    DEF Next, vars, RootCrashes, SkipSsl, PhpCrashes, ScriptCrashes, Log, ModulesDone, Keep,
        GetCrashes, EncodePlain, EncodeSsl, EncodeOther, Send
<1> USE <1>0 DEF TypeOK, Catch
<1>1. CASE Decode
  <2>1. CASE UNCHANGED trace  BY <1>1, <2>1 DEF Decode
  <2>2. CASE \E o \in Outcomes : Called("ssl", "nothing", o)
    <3>1. trace' \in Seq(Calls)  BY <2>2, CallTyped DEF Modules
    <3> QED  BY <1>1, <3>1 DEF Decode
  <2> QED  BY <1>1, <2>1, <2>2 DEF Decode, Outcomes
<1>2. CASE Parse  BY <1>2 DEF Parse
<1>3. CASE Root  BY <1>3 DEF Root
<1>4. CASE SkipSsl  BY <1>4 DEF SkipSsl
<1>5. CASE Php
  <2>1. trace' \in Seq(Calls)
    BY <1>5, CallTyped, raw \in {"nothing", "request", "path"} DEF Php, Script, Modules, Outcomes
  <2> QED  BY <1>5, <2>1 DEF Php
<1>6. CASE PhpFails
  <2>1. trace' \in Seq(Calls)
    BY <1>6, CallTyped DEF PhpFails, Modules, Outcomes
  <2> QED  BY <1>6, <2>1 DEF PhpFails
<1>7. CASE RootCrashes \/ PhpCrashes \/ ScriptCrashes
  BY <1>7 DEF RootCrashes, PhpCrashes, ScriptCrashes
<1>8. CASE Log
  <2>1. raw' \in {"nothing", "request"}  BY <1>8 DEF Log
  <2>2. trace' \in Seq(Calls)
    BY <1>8, <2>1, CallTyped DEF Log, Modules, Outcomes
  <2> QED  BY <1>8, <2>1, <2>2 DEF Log
<1>9. CASE ModulesDone  BY <1>9 DEF ModulesDone
<1>10. CASE Keep  BY <1>10 DEF Keep
<1>11. CASE Get  BY <1>11 DEF Get
<1>12. CASE GetCrashes  BY <1>12 DEF GetCrashes
<1>13. CASE OtherMethod  BY <1>13 DEF OtherMethod
<1>14. CASE Page  BY <1>14 DEF Page
<1>15. CASE EncodePlain  BY <1>15 DEF EncodePlain
<1>16. CASE EncodeSsl
  <2>1. trace' \in Seq(Calls)
    BY <1>16, CallTyped DEF EncodeSsl, Modules, Outcomes
  <2> QED  BY <1>16, <2>1 DEF EncodeSsl
<1>17. CASE EncodeOther
  <2>1. trace' \in Seq(Calls)
    BY <1>17, CallTyped DEF EncodeOther, Modules, Outcomes
  <2> QED  BY <1>17, <2>1 DEF EncodeOther
<1>18. CASE Send  BY <1>18 DEF Send
<1>19. CASE UNCHANGED vars  BY <1>19 DEF vars
<1> QED
  BY <1>1, <1>2, <1>3, <1>4, <1>5, <1>6, <1>7, <1>8, <1>9, <1>10, <1>11, <1>12, <1>13,
     <1>14, <1>15, <1>16, <1>17, <1>18, <1>19 DEF Next

-------------------------------------------------------------------------------
(* The status that is due. *)

LEMMA DueKept ==
  ASSUME Decoded' <=> Decoded, PhpDid("answered")' <=> PhpDid("answered"), UNCHANGED request
  PROVE  Due' = Due
BY DEF Due, Found

\* A call of a module other than PHP that decodes nothing.
LEMMA DueAfterCall ==
  ASSUME trace \in Seq(Calls), NEW m \in Modules \ {"php"},
         NEW input \in {"nothing", "request", "path"}, NEW o \in Outcomes \ {"request"},
         Called(m, input, o), UNCHANGED <<ssl, request>>
  PROVE  Due' = Due /\ (Decoded' <=> Decoded)
         /\ \A x \in Outcomes : PhpDid(x)' <=> PhpDid(x)
<1>1. PICK c \in Calls : c.module = m /\ c.outcome = o /\ trace' = Append(trace, c)
  BY CallTyped
<1>2. Decoded' <=> Decoded  BY <1>1, DecodedKept
<1>3. \A x \in Outcomes : PhpDid(x)' <=> PhpDid(x)  BY <1>1, OtherCall
<1>4. "answered" \in Outcomes  BY DEF Outcomes
<1> QED  BY <1>2, <1>3, <1>4, DueKept

LEMMA InvInit == Init => IInv
<1> SUFFICES ASSUME Init PROVE IInv
  OBVIOUS
<1>1. TypeOK  BY TypeInit
<1>2. trace = <<>> /\ DOMAIN trace = {}  BY DEF Init
<1>3. (Decoded <=> ~ssl) /\ \A o : ~PhpDid(o)  BY <1>2 DEF Decoded, PhpDid
<1>4. TryInv  BY <1>2, <1>3 DEF Init, TryInv
<1>5. DueInv  BY DEF Init, DueInv, AnswerExplained
<1> QED  BY <1>1, <1>4, <1>5 DEF IInv

LEMMA InvStep == IInv /\ [Next]_vars => IInv'
<1> SUFFICES ASSUME IInv, [Next]_vars PROVE TryInv' /\ DueInv'
  BY TypeStep DEF IInv
<1> USE DEF IInv
<1>0. trace \in Seq(Calls) /\ ssl \in BOOLEAN /\ raw \in {"nothing", "request", "path"}
      /\ resp \in Responses /\ request.method \in {"GET", "HEAD", "POST", "unknown"}
  BY DEF TypeOK, Requests
<1>a. "answered" \in Outcomes /\ {"ssl", "php", "log"} \subseteq Modules
  BY DEF Outcomes, Modules
\* Where no call is made, the histories and what is due stay.
<1>b. ASSUME UNCHANGED <<ssl, request, trace>>
      PROVE  Due' = Due /\ (Decoded' <=> Decoded) /\ \A x \in Outcomes : PhpDid(x)' <=> PhpDid(x)
  BY <1>b DEF Due, Found, Decoded, PhpDid
<1>1. CASE Decode
  <2>1. ssl /\ trace = <<>> /\ ~Decoded
    BY <1>1, <1>0 DEF Decode, TryInv, Decoded
  <2>2. CASE Front("ssl") /\ pc' = "parse"
    <3>1. PICK o \in {"blank", "request"} :
            Called("ssl", "nothing", o) /\ (o = "request" <=> raw' # "nothing")
      BY <1>1, <2>2 DEF Decode, Catch
    <3>2. PICK c \in Calls : c.module = "ssl" /\ c.outcome = o /\ trace' = Append(trace, c)
      BY <3>1, <1>0, <1>a, CallTyped DEF Outcomes
    <3>3. \A x \in Outcomes : PhpDid(x)' <=> PhpDid(x)  BY <3>2, <1>0, OtherCall
    <3>4. Decoded' <=> raw' # "nothing"
      <4>1. trace' = <<c>>  BY <3>2, <2>1
      <4> QED  BY <4>1, <3>1, <3>2, <2>1, <1>1 DEF Decoded, Decode
    <3> QED  BY <1>1, <2>2, <3>3, <3>4 DEF Decode, TryInv, DueInv, AnswerExplained
  <2>3. CASE pc' = "page"
    <3>1. ~Decoded'
      <4>1. CASE UNCHANGED trace  BY <1>1, <4>1, <2>1 DEF Decode, Decoded
      <4>2. CASE Called("ssl", "nothing", "failed")
        BY <4>2, <2>1, <1>0, <1>1, <1>a, DueAfterCall DEF Decode, Outcomes
      <4> QED  BY <1>1, <2>3, <4>1, <4>2 DEF Decode
    <3>2. Due' = {400}  BY <3>1 DEF Due
    <3>3. resp'.status = 400  BY <1>1, <2>3 DEF Decode, Catch, DefaultResponse
    <3> QED  BY <2>3, <3>2, <3>3 DEF TryInv, DueInv, AnswerExplained
  <2> QED  BY <1>1, <2>2, <2>3 DEF Decode, Catch
<1>2. CASE Parse
  <2>1. CASE pc' = "root"
    BY <1>2, <2>1, <1>b DEF Parse, TryInv, DueInv, AnswerExplained, Catch
  <2>2. CASE pc' = "page"
    <3>1. resp'.status \in Due
      BY <1>2, <2>2 DEF Parse, TryInv, Due, Catch, DefaultResponse
    <3> QED  BY <1>2, <2>2, <3>1, <1>b DEF Parse, TryInv, DueInv, AnswerExplained
  <2> QED  BY <1>2, <2>1, <2>2 DEF Parse, Catch
<1>3. CASE Root
  <2>1. CASE pc' = "modules"
    BY <1>3, <2>1, <1>a, <1>b
    DEF Root, TryInv, DueInv, AnswerExplained, Catch, DefaultResponse
  <2>2. CASE pc' = "page"
    <3>1. resp'.status \in Due
      BY <1>3, <2>2 DEF Root, TryInv, Due, Catch, DefaultResponse
    <3> QED  BY <1>3, <2>2, <3>1, <1>b DEF Root, TryInv, DueInv, AnswerExplained
  <2> QED  BY <1>3, <2>1, <2>2 DEF Root, Catch
<1>4. CASE SkipSsl
  BY <1>4, <1>a, <1>b DEF SkipSsl, TryInv, DueInv, AnswerExplained
<1>5. CASE Php
  <2>1. pc = "modules" /\ pc' = "modules" /\ UNCHANGED <<ssl, request>>  BY <1>5 DEF Php
  <2>2. PICK o \in {"untouched", "blank", "cleared", "answered"} :
          /\ Called("php", raw, o)
          /\ \/ o = "untouched" /\ request.kind # "script" /\ resp' = resp
             \/ /\ o # "untouched" /\ request.kind = "script"
                /\ resp' = [resp EXCEPT !.body = (o = "answered"), !.by = "php"]
    BY <1>5 DEF Php, Script
  <2>3. PICK c \in Calls : c.module = "php" /\ c.outcome = o /\ trace' = Append(trace, c)
    BY <2>2, <1>0, <1>a, CallTyped DEF Outcomes
  <2>4. PhpDid("answered")' <=> o = "answered"  BY <2>3, <1>0, <1>a, PhpCall
  <2>5. Decoded' <=> Decoded
    BY <2>1, <2>3, <1>0, DecodedKept
  <2>6. /\ resp'.body <=> PhpDid("answered")'
        /\ resp'.body => request.kind = "script"
        /\ resp'.status = 200
    <3>1. resp.status = 200 /\ (resp.body => request.kind = "script")
      BY <2>1 DEF TryInv
    <3>2. CASE o = "untouched"  BY <2>2, <2>4, <3>1, <3>2
    <3>3. CASE o # "untouched"  BY <2>2, <2>4, <3>1, <3>3, <1>0, ZenonT(60) DEF Responses
    <3> QED  BY <3>2, <3>3
  <2> QED  BY <2>1, <2>5, <2>6 DEF TryInv, DueInv, AnswerExplained
<1>6. CASE PhpFails
  <2>1. pc = "modules" /\ pc' = "method" /\ UNCHANGED <<ssl, request>>  BY <1>6 DEF PhpFails
  <2>2. PICK c \in Calls : c.module = "php" /\ c.outcome = "failed" /\ trace' = Append(trace, c)
    BY <1>6, <1>0, <1>a, CallTyped DEF PhpFails, Outcomes
  <2>3. ~PhpDid("answered")'  BY <2>2, <1>0, <1>a, PhpCall
  <2>4. Decoded' <=> Decoded  BY <2>1, <2>2, <1>0, DecodedKept
  <2>5. ~resp'.body  BY <1>6 DEF PhpFails, DefaultResponse
  <2> QED  BY <2>1, <2>3, <2>4, <2>5 DEF TryInv, DueInv, AnswerExplained
<1>7. CASE RootCrashes \/ PhpCrashes \/ ScriptCrashes
  BY <1>7 DEF RootCrashes, PhpCrashes, ScriptCrashes, TryInv, DueInv, AnswerExplained
<1>8. CASE Log
  <2>1. Called("log", raw', "untouched") /\ raw' \in {"nothing", "request"}  BY <1>8 DEF Log
  <2>2. (Decoded' <=> Decoded) /\ (PhpDid("answered")' <=> PhpDid("answered"))
    BY <2>1, <1>8, <1>0, <1>a, DueAfterCall DEF Log, Outcomes
  <2> QED  BY <1>8, <2>2 DEF Log, TryInv, DueInv, AnswerExplained
<1>9. CASE ModulesDone
  BY <1>9, <1>a, <1>b DEF ModulesDone, TryInv, DueInv, AnswerExplained
<1>10. CASE Keep
  <2>1. resp.status \in Due  BY <1>10 DEF Keep, TryInv, Due
  <2> QED  BY <1>10, <2>1, <1>b DEF Keep, TryInv, DueInv, AnswerExplained
<1>11. CASE Get
  <2>1. \/ ~Found /\ resp' = DefaultResponse(404)
        \/ Found /\ request.kind # "directory" /\ resp'.status = 200
        \/ Found /\ request.kind = "directory" /\ resp'.status \in {200, 404, 500}
    BY <1>11 DEF Get, GetResponses, DirectoryResponses, DefaultResponse, FileResponse
  <2>2. resp'.status \in Due
    BY <1>11, <2>1 DEF Get, TryInv, Due, DefaultResponse
  <2> QED  BY <1>11, <2>2, <1>b DEF Get, TryInv, DueInv, AnswerExplained
<1>12. CASE GetCrashes
  BY <1>12 DEF GetCrashes, TryInv, DueInv, AnswerExplained
<1>13. CASE OtherMethod
  <2>1. ~PhpDid("answered") /\ resp'.status = IF request.method = "POST" THEN 501 ELSE 400
    BY <1>13 DEF OtherMethod, TryInv, Catch, DefaultResponse
  <2>2. resp'.status \in Due
    BY <1>13, <2>1 DEF OtherMethod, TryInv, Due
  <2> QED  BY <1>13, <2>2, <1>b DEF OtherMethod, Catch, TryInv, DueInv, AnswerExplained
<1>14. CASE Page
  <2>1. resp.status \in Due  BY <1>14 DEF Page, DueInv
  <2>2. \/ resp' = resp /\ (resp.status = 200 \/ resp.body)
        \/ resp'.body /\ resp'.status = resp.status
        \/ templates # "ok" /\ resp.status # 200 /\ resp'.status = 500
    BY <1>14, <1>0 DEF Page, ViewError, Responses
  <2> QED  BY <1>14, <2>1, <2>2, <1>b DEF Page, TryInv, DueInv, AnswerExplained
<1>15. CASE EncodePlain
  BY <1>15, <1>b DEF EncodePlain, TryInv, DueInv, AnswerExplained
<1>16. CASE EncodeSsl
  <2>1. Due' = Due  BY <1>16, <1>0, <1>a, DueAfterCall DEF EncodeSsl, Outcomes
  <2> QED  BY <1>16, <2>1 DEF EncodeSsl, TryInv, DueInv, AnswerExplained
<1>17. CASE EncodeOther
  <2>1. CASE Called("log", raw, "untouched")
    <3>1. Due' = Due  BY <1>17, <2>1, <1>0, <1>a, DueAfterCall DEF EncodeOther, Outcomes
    <3> QED  BY <1>17, <3>1 DEF EncodeOther, TryInv, DueInv, AnswerExplained
  <2>2. CASE pc' = "crashed"  BY <2>2 DEF TryInv, DueInv, AnswerExplained
  <2> QED  BY <1>17, <2>1, <2>2 DEF EncodeOther
<1>18. CASE Send
  BY <1>18, <1>b DEF Send, TryInv, DueInv, AnswerExplained
<1>19. CASE UNCHANGED vars
  BY <1>19, <1>a, <1>b DEF vars, TryInv, DueInv, AnswerExplained
<1> QED
  BY <1>1, <1>2, <1>3, <1>4, <1>5, <1>6, <1>7, <1>8, <1>9, <1>10, <1>11, <1>12, <1>13,
     <1>14, <1>15, <1>16, <1>17, <1>18, <1>19 DEF Next

-------------------------------------------------------------------------------
(* Theorems. *)

\* The variables of interpret keep their types, for lists of modules of any length.
THEOREM InterpreterTypes == Spec => []TypeOK
<1> QED  BY TypeInit, TypeStep, PTL DEF Spec

\* Every answer has the status of the first stage that refused the request, or 500
\* where its page failed, and a page where one can be made.
THEOREM StatusExplained == Spec => []AnswerExplained
<1>1. IInv => AnswerExplained  BY DEF IInv, DueInv
<1> QED  BY InvInit, InvStep, <1>1, PTL DEF Spec

-------------------------------------------------------------------------------
(* The order of the calls. *)

\* Before the loop only the SSL module was called, and it did not fail; in the
\* loop no call failed, none was of a module behind those still to come, and
\* the path is only replaced when no PHP module is left.  Without the SSL module
\* in front an SSL client gets no module called before the encoding.
OrderInv ==
  /\ Sorted(modules)
  /\ pc = "decode" => ssl /\ trace = <<>>
  /\ ssl /\ ~Front("ssl") => /\ pc \notin {"parse", "root", "modules", "method"}
                             /\ pc \in {"page", "encode"} => trace = <<>>
  /\ pc \in {"parse", "root"} =>
       \A k \in DOMAIN trace : trace[k].module = "ssl" /\ trace[k].outcome # "failed"
  /\ pc = "modules" =>
       /\ \A k \in DOMAIN trace :
            /\ trace[k].outcome # "failed"
            /\ \A j \in i .. Len(modules) :
                 Priority[trace[k].module] <= Priority[modules[j]]
       /\ raw # "path" => \A j \in i .. Len(modules) : modules[j] = "log"
  /\ ModulesInOrder

LEMMA Priorities ==
  /\ Priority["ssl"] = 0 /\ Priority["php"] = 1 /\ Priority["log"] = 100
  /\ \A m \in Modules : Priority[m] \in Int /\ 0 <= Priority[m]
  /\ \A m \in Modules : Priority[m] >= 100 => m = "log"
<1>1. Priority["ssl"] = 0 /\ Priority["php"] = 1 /\ Priority["log"] = 100
  BY DEF Priority
<1> QED  BY <1>1 DEF Modules

\* A call of a module other than SSL, which comes behind all calls so far, none of
\* which failed.
LEMMA OrderAfterCall ==
  ASSUME trace \in Seq(Calls), ModulesInOrder, pc \notin {"send", "done"},
         NEW m \in Modules \ {"ssl"}, NEW input \in {"nothing", "request", "path"},
         NEW o \in Outcomes, Called(m, input, o), m = "php" => input = "path",
         \A k \in DOMAIN trace : /\ trace[k].outcome # "failed"
                                 /\ Priority[trace[k].module] <= Priority[m]
  PROVE  ModulesInOrder'
<1> DEFINE c == [module |-> m, input |-> input, outcome |-> o]
<1>1. /\ Len(trace) \in Nat /\ Len(trace') = Len(trace) + 1
      /\ DOMAIN trace = 1 .. Len(trace) /\ DOMAIN trace' = 1 .. Len(trace) + 1
      /\ \A k \in 1 .. Len(trace) : trace'[k] = trace[k]
      /\ trace'[Len(trace) + 1] = c
  BY DEF Called
<1>2. c.module = m /\ c.input = input /\ c.outcome = o
  OBVIOUS
<1> HIDE DEF c
<1>3. ASSUME NEW k \in 1 .. Len(trace)
      PROVE  /\ trace'[k].module = "ssl" => k = 1
             /\ trace'[k].module = "php" => trace'[k].input = "path"
             /\ \A j \in 1 .. k - 1 :
                  trace'[k].module # "ssl" =>
                    /\ Priority[trace'[j].module] <= Priority[trace'[k].module]
                    /\ trace'[j].outcome # "failed"
  BY <1>1 DEF ModulesInOrder
<1>4. \A j \in 1 .. Len(trace) :
        /\ Priority[trace'[j].module] <= Priority[m]
        /\ trace'[j].outcome # "failed"
  BY <1>1
<1>5. ASSUME NEW k \in DOMAIN trace'
      PROVE  /\ trace'[k].module = "ssl" =>
                  k = 1 \/ (k = Len(trace') /\ pc' \in {"send", "done"})
             /\ trace'[k].module = "php" => trace'[k].input = "path"
             /\ \A j \in 1 .. k - 1 :
                  trace'[k].module # "ssl" =>
                    /\ Priority[trace'[j].module] <= Priority[trace'[k].module]
                    /\ trace'[j].outcome # "failed"
  <2>1. CASE k \in 1 .. Len(trace)
    BY <1>3, <2>1
  <2>2. CASE k = Len(trace) + 1
    BY <1>1, <1>2, <1>4, <2>2
  <2> QED  BY <1>1, <2>1, <2>2
<1> QED  BY <1>5 DEF ModulesInOrder

LEMMA OrderInit == Init => OrderInv
<1> SUFFICES ASSUME Init PROVE OrderInv
  OBVIOUS
<1>1. trace = <<>> /\ DOMAIN trace = {} /\ Sorted(modules) /\ pc = IF ssl THEN "decode" ELSE "parse"
  BY DEF Init
<1> QED  BY <1>1 DEF OrderInv, ModulesInOrder

LEMMA OrderStep == TypeOK /\ OrderInv /\ [Next]_vars => OrderInv'
<1> SUFFICES ASSUME TypeOK, OrderInv, [Next]_vars PROVE OrderInv'
  OBVIOUS
<1>0. /\ trace \in Seq(Calls) /\ modules \in Seq(Modules)
      /\ raw \in {"nothing", "request", "path"} /\ i \in Nat
      /\ ModulesInOrder /\ Sorted(modules)
  BY DEF TypeOK, OrderInv
<1>a. "php" \in Modules \ {"ssl"} /\ "log" \in Modules \ {"ssl"} /\ "ssl" \in Modules
  BY DEF Modules
<1>m. UNCHANGED <<ssl, modules>>
  BY DEF Next, vars, Decode, Parse, Root, RootCrashes, SkipSsl, Php, PhpFails, PhpCrashes,
     ScriptCrashes, Log, ModulesDone, Keep, Get, GetCrashes, OtherMethod, Page, EncodePlain, EncodeSsl, EncodeOther, Send
<1>s. Sorted(modules)' /\ (Front("ssl")' <=> Front("ssl"))
  BY <1>0, <1>m DEF Sorted, Front
\* Where no call is made before the answer is sent, the order stays.
<1>k. ASSUME UNCHANGED trace, pc \in {"send", "done"} => pc' \in {"send", "done"}
      PROVE  ModulesInOrder'
  BY <1>0, <1>k DEF ModulesInOrder
<1>1. CASE Decode
  <2>1. pc = "decode" /\ ssl /\ trace = <<>>
    BY <1>1 DEF Decode, OrderInv
  <2>2. CASE UNCHANGED trace
    <3>1. pc' = "page" /\ trace' = <<>>
      BY <1>1, <2>1, <2>2 DEF Decode, Called, Catch
    <3> QED  BY <1>k, <1>s, <2>1, <2>2, <3>1 DEF OrderInv
  <2>3. CASE Front("ssl") /\ \E o \in Outcomes :
               Called("ssl", "nothing", o) /\ pc' \in {"parse", "page"}
                 /\ (pc' = "parse" => o # "failed")
    <3>1. PICK o \in Outcomes :
            Called("ssl", "nothing", o) /\ pc' \in {"parse", "page"} /\ (pc' = "parse" => o # "failed")
      BY <2>3
    <3>2. PICK c \in Calls : c.module = "ssl" /\ c.outcome = o /\ trace' = Append(trace, c)
      BY <1>0, <1>a, <3>1, CallTyped
    <3>3. trace' = <<c>> /\ DOMAIN trace' = {1} /\ Len(trace') = 1
      BY <2>1, <3>2
    <3>4. ModulesInOrder'
      BY <3>2, <3>3 DEF ModulesInOrder
    <3> QED  BY <1>s, <2>3, <3>1, <3>2, <3>3, <3>4 DEF OrderInv
  <2> QED  BY <1>1, <2>2, <2>3 DEF Decode, Catch, Outcomes
<1>2. CASE Parse
  <2>1. pc = "parse" /\ pc' \in {"root", "page"} /\ UNCHANGED trace
    BY <1>2 DEF Parse, Catch
  <2> QED  BY <1>k, <1>m, <1>s, <2>1 DEF OrderInv
<1>3. CASE Root
  <2>1. pc = "root" /\ UNCHANGED trace /\ (pc' = "page" \/ (pc' = "modules" /\ raw' = "path"))
    BY <1>3 DEF Root, Catch
  <2>2. ModulesInOrder'  BY <1>k, <2>1
  <2>3. ASSUME NEW k \in DOMAIN trace
        PROVE  /\ trace[k].outcome # "failed"
               /\ \A j \in 1 .. Len(modules) : Priority[trace[k].module] <= Priority[modules[j]]
    <3>1. trace[k].module = "ssl" /\ trace[k].outcome # "failed"
      BY <2>1 DEF OrderInv
    <3>2. \A j \in 1 .. Len(modules) : modules[j] \in Modules
      BY <1>0
    <3> QED  BY <3>1, <3>2, Priorities
  <2>4. \A j \in i .. Len(modules) : j \in 1 .. Len(modules)
    BY <1>0 DEF TypeOK
  <2>5. UNCHANGED i  BY <1>3 DEF Root
  <2> QED  BY <1>m, <1>s, <2>1, <2>2, <2>3, <2>4, <2>5 DEF OrderInv
<1>4. CASE SkipSsl
  <2>1. pc = "modules" /\ pc' = "modules" /\ UNCHANGED <<trace, raw>> /\ i' = i + 1
    BY <1>4 DEF SkipSsl
  <2>2. \A j \in i' .. Len(modules') : j \in i .. Len(modules)
    BY <1>0, <1>m, <2>1
  <2> QED  BY <1>k, <1>m, <1>s, <2>1, <2>2 DEF OrderInv
<1>5. CASE Php
  <2>1. /\ pc = "modules" /\ pc' = "modules" /\ i <= Len(modules) /\ modules[i] = "php"
        /\ i' = i + 1 /\ UNCHANGED raw
    BY <1>5 DEF Php
  <2>2. PICK o \in {"untouched", "blank", "cleared", "answered"} : Called("php", raw, o)
    BY <1>5 DEF Php, Script
  <2>3. i \in i .. Len(modules) /\ raw = "path"
    BY <1>0, <2>1 DEF OrderInv
  <2>4. \A k \in DOMAIN trace : /\ trace[k].outcome # "failed"
                                /\ Priority[trace[k].module] <= Priority["php"]
    BY <2>1, <2>3 DEF OrderInv
  <2>5. ModulesInOrder'
    BY <1>0, <1>a, <2>1, <2>2, <2>3, <2>4, OrderAfterCall DEF Outcomes
  <2>6. /\ \A k \in DOMAIN trace' : /\ trace'[k].outcome # "failed"
                                    /\ trace'[k].module = "php" \/ (k \in DOMAIN trace /\ trace'[k] = trace[k])
    BY <1>0, <2>2, <2>4 DEF Called
  <2>7. \A j \in i + 1 .. Len(modules) : j \in i .. Len(modules) /\ Priority["php"] <= Priority[modules[j]]
    BY <1>0, <2>1 DEF Sorted, TypeOK
  <2>8. \A k \in DOMAIN trace', j \in i + 1 .. Len(modules) :
          Priority[trace'[k].module] <= Priority[modules[j]]
    BY <2>1, <2>6, <2>7 DEF OrderInv
  <2> QED  BY <1>m, <1>s, <2>1, <2>3, <2>5, <2>6, <2>8 DEF OrderInv
<1>6. CASE PhpFails
  <2>1. /\ pc = "modules" /\ pc' = "method" /\ i <= Len(modules) /\ modules[i] = "php"
        /\ Called("php", raw, "failed")
    BY <1>6 DEF PhpFails
  <2>2. i \in i .. Len(modules) /\ raw = "path"
    BY <1>0, <2>1 DEF OrderInv
  <2>3. \A k \in DOMAIN trace : /\ trace[k].outcome # "failed"
                                /\ Priority[trace[k].module] <= Priority["php"]
    BY <2>1, <2>2 DEF OrderInv
  <2>4. ModulesInOrder'
    BY <1>0, <1>a, <2>1, <2>2, <2>3, OrderAfterCall DEF Outcomes
  <2> QED  BY <1>m, <1>s, <2>1, <2>4 DEF OrderInv
<1>7. CASE Log
  <2>1. /\ pc = "modules" /\ pc' = "modules" /\ i <= Len(modules) /\ modules[i] = "log"
        /\ i' = i + 1 /\ raw' \in {"nothing", "request"} /\ Called("log", raw', "untouched")
    BY <1>7 DEF Log
  <2>2. i \in i .. Len(modules)
    BY <1>0, <2>1
  <2>3. \A k \in DOMAIN trace : /\ trace[k].outcome # "failed"
                                /\ Priority[trace[k].module] <= Priority["log"]
    BY <2>1, <2>2 DEF OrderInv
  <2>4. ModulesInOrder'
    BY <1>0, <1>a, <2>1, <2>3, OrderAfterCall DEF Outcomes
  <2>5. /\ \A k \in DOMAIN trace' : /\ trace'[k].outcome # "failed"
                                    /\ trace'[k].module = "log" \/ (k \in DOMAIN trace /\ trace'[k] = trace[k])
    BY <1>0, <2>1, <2>3 DEF Called
  <2>6. \A j \in i + 1 .. Len(modules) :
          /\ j \in i .. Len(modules) /\ Priority["log"] <= Priority[modules[j]]
          /\ modules[j] = "log"
    <3> TAKE j \in i + 1 .. Len(modules)
    <3>1. j \in i .. Len(modules) /\ Priority["log"] <= Priority[modules[j]] /\ modules[j] \in Modules
      BY <1>0, <2>1 DEF Sorted, TypeOK
    <3> QED  BY <3>1, Priorities
  <2>7. \A k \in DOMAIN trace', j \in i + 1 .. Len(modules) :
          Priority[trace'[k].module] <= Priority[modules[j]]
    BY <2>1, <2>5, <2>6 DEF OrderInv
  <2> QED  BY <1>m, <1>s, <2>1, <2>4, <2>5, <2>6, <2>7 DEF OrderInv
<1>8. CASE RootCrashes \/ PhpCrashes \/ ScriptCrashes \/ ModulesDone
  <2>1. pc \in {"root", "modules"} /\ pc' \in {"crashed", "method"} /\ UNCHANGED trace
    BY <1>8 DEF RootCrashes, PhpCrashes, ScriptCrashes, ModulesDone
  <2> QED  BY <1>k, <1>m, <1>s, <2>1 DEF OrderInv
<1>9. CASE Keep \/ Get \/ GetCrashes \/ OtherMethod
  <2>1. pc = "method" /\ pc' \in {"page", "crashed"} /\ UNCHANGED trace
    BY <1>9 DEF Keep, Get, GetCrashes, OtherMethod, Catch
  <2> QED  BY <1>k, <1>m, <1>s, <2>1 DEF OrderInv
<1>10. CASE Page
  <2>1. pc = "page" /\ pc' = "encode" /\ UNCHANGED trace
    BY <1>10 DEF Page
  <2> QED  BY <1>k, <1>m, <1>s, <2>1 DEF OrderInv
<1>11. CASE EncodePlain \/ Send
  <2>1. pc \in {"encode", "send"} /\ pc' \in {"send", "done"} /\ UNCHANGED trace
    BY <1>11 DEF EncodePlain, Send
  <2> QED  BY <1>k, <1>m, <1>s, <2>1 DEF OrderInv
<1>12. CASE EncodeSsl
  <2>1. PICK o \in Outcomes : Called("ssl", raw, o)
    BY <1>12 DEF EncodeSsl, Outcomes
  <2>2. PICK c \in Calls : c.module = "ssl" /\ trace' = Append(trace, c)
    BY <1>0, <1>a, <2>1, CallTyped
  <2>3. /\ Len(trace) \in Nat /\ Len(trace') = Len(trace) + 1
        /\ DOMAIN trace = 1 .. Len(trace) /\ DOMAIN trace' = 1 .. Len(trace) + 1
        /\ \A k \in 1 .. Len(trace) : trace'[k] = trace[k]
        /\ trace'[Len(trace) + 1] = c
    BY <1>0, <2>2
  <2>4. pc = "encode" /\ pc' = "send"  BY <1>12 DEF EncodeSsl
  <2>5. ModulesInOrder'
    BY <1>0, <2>2, <2>3, <2>4 DEF ModulesInOrder
  <2> QED  BY <1>s, <2>4, <2>5 DEF OrderInv
<1>13. CASE EncodeOther
  <2>1. pc = "encode" /\ trace = <<>> /\ pc' \in {"send", "crashed"}
    BY <1>13 DEF EncodeOther, OrderInv
  <2>2. ModulesInOrder'
    <3>1. CASE UNCHANGED trace
      BY <1>k, <2>1, <3>1
    <3>2. CASE Called("log", raw, "untouched")
      <4>1. \A k \in DOMAIN trace : FALSE  BY <2>1
      <4> QED  BY <1>0, <1>a, <2>1, <3>2, <4>1, OrderAfterCall DEF Outcomes
    <3> QED  BY <1>13, <3>1, <3>2 DEF EncodeOther
  <2> QED  BY <1>s, <2>1, <2>2 DEF OrderInv
<1>14. CASE UNCHANGED vars
  <2>1. UNCHANGED <<ssl, modules, pc, i, raw, trace>>  BY <1>14 DEF vars
  <2>2. ModulesInOrder'  BY <1>k, <2>1
  <2> QED  BY <1>s, <2>1, <2>2 DEF OrderInv
<1> QED
  BY <1>1, <1>2, <1>3, <1>4, <1>5, <1>6, <1>7, <1>8, <1>9, <1>10, <1>11, <1>12, <1>13, <1>14
  DEF Next

\* For every list of modules: SSL first and last, PHP before the log module and on
\* a path, and no module but SSL after a failure.
THEOREM CallsInOrder == Spec => []ModulesInOrder
<1>1. TypeOK /\ OrderInv /\ [Next]_vars => (TypeOK /\ OrderInv)'
  BY TypeStep, OrderStep
<1>2. OrderInv => ModulesInOrder  BY DEF OrderInv
<1> QED  BY <1>1, <1>2, TypeInit, OrderInit, PTL DEF Spec

-------------------------------------------------------------------------------
(* With php-cgi as a process of its own: what the worker has read of a script, for
   pipes and outputs of any size. *)

\* What was printed is in the pipe or has been read, and what was read has been kept
\* unless it has zero bytes; only php-cgi has anything left to print, and outside
\* execRequest there is no child.
FlowInv ==
  /\ size \in Nat /\ todo \in Nat /\ pipe \in Nat /\ got \in Nat /\ kept \in Nat
  /\ size = todo + pipe + got
  /\ nuls = {} => kept = got
  /\ child # "running" => todo = 0
  /\ child \in {"none", "born", "fed", "stuck", "copy"} => pipe = 0 /\ got = 0 /\ kept = 0
  /\ exec \in {"idle", "reading"}
  /\ exec = "idle" => child = "none"

\* A read adds a number of bytes to totalStr, all of them if none is zero.
LEMMA TextLength ==
  ASSUME NEW n \in Nat
  PROVE  Text(n) \in Nat /\ (nuls = {} => Text(n) = n)
<1> DEFINE T == {k \in 1 .. n : \A j \in 1 .. k : got + j \notin nuls}
<1>1. IsFiniteSet(1 .. n) /\ Cardinality(1 .. n) = n
  BY FS_Interval
<1>2. IsFiniteSet(T)
  BY <1>1, FS_Subset
<1>3. Cardinality(T) \in Nat
  BY <1>2, FS_CardinalityType
<1>4. nuls = {} => T = 1 .. n
  OBVIOUS
<1> QED
  BY <1>1, <1>3, <1>4 DEF Text

LEMMA FlowInit == ProcInit => FlowInv
BY DEF ProcInit, FlowInv

LEMMA FlowStep == FlowInv /\ [ProcNext]_allVars => FlowInv'
<1> SUFFICES ASSUME FlowInv, [ProcNext]_allVars PROVE FlowInv'
  OBVIOUS
<1> USE DEF FlowInv, script
<1>1. CASE UNCHANGED procVars
  BY <1>1 DEF procVars
<1>2. CASE Fork
  BY <1>2 DEF Fork
<1>3. CASE ReadChunk
  <2>1. PICK n \in Chunk : Take(n)
    BY <1>3 DEF ReadChunk
  <2>2. n \in Nat /\ n <= pipe
    BY <2>1 DEF Chunk
  <2>3. Text(n) \in Nat /\ (nuls = {} => Text(n) = n)
    BY <2>2, TextLength
  <2>4. pipe' = pipe - n /\ got' = got + n /\ kept' = kept + Text(n)
    BY <2>1 DEF Take
  <2>5. child \notin {"none", "born", "fed", "stuck", "copy"}
    BY <2>1 DEF Chunk
  <2> QED
    BY <1>3, <2>2, <2>3, <2>4, <2>5 DEF ReadChunk
<1>4. CASE ReadEnd
  BY <1>4 DEF ReadEnd, Return
<1>5. CASE ChildReturns \/ ChildWrites \/ CopyEnds
  BY <1>5 DEF ChildReturns, ChildWrites, CopyEnds
<1>6. CASE Execve
  <2>1. size' \in Nat /\ todo' = size' /\ child' = "running" /\ child = "fed"
        /\ exec' = exec /\ pipe' = pipe /\ got' = got /\ kept' = kept
    BY <1>6, PhpAssumption DEF Execve
  <2>2. pipe' = 0 /\ got' = 0 /\ kept' = 0 /\ exec # "idle"
    BY <2>1
  <2>3. \A n \in Nat : n = n + 0 + 0
    OBVIOUS
  <2> QED
    BY <2>1, <2>2, <2>3
<1>7. CASE ExecveFails
  BY <1>7 DEF ExecveFails
<1>8. CASE ScriptPrints
  BY <1>8 DEF ScriptPrints
<1>9. CASE ScriptExits
  BY <1>9 DEF ScriptExits
<1> QED
  BY <1>1, <1>2, <1>3, <1>4, <1>5, <1>6, <1>7, <1>8, <1>9
     DEF ProcNext, WorkerNext, ChildNext, Around, NoScript, ForkFails, Read, ReadOverflows,
         allVars, procVars

\* execRequest returns with all the script has printed, cut nowhere if it is text, for
\* pipes, reads and outputs of any size.
THEOREM NothingLost == ProcSpec => OutputWhole
<1>1. ASSUME FlowInv, [ProcNext]_allVars, exec = "reading", exec' = "idle"
      PROVE  got = size /\ (nuls = {} => kept = size)
  <2>1. ReadEnd
    BY <1>1 DEF ProcNext, WorkerNext, ChildNext, Around, NoScript, ForkFails, Fork, Read,
                ReadChunk, ReadOverflows, ChildReturns, ChildWrites, Execve, ExecveFails, ScriptPrints,
                ScriptExits, CopyEnds, allVars, procVars
  <2> QED
    BY <1>1, <2>1 DEF FlowInv, ReadEnd
<1>2. FlowInv /\ [ProcNext]_allVars =>
        [exec = "reading" /\ exec' = "idle" => got = size /\ (nuls = {} => kept = size)]_allVars
  BY <1>1
<1> QED
  BY FlowInit, FlowStep, <1>2, PTL DEF ProcSpec, OutputWhole

\* Whatever the worker and the child do to each other, what interpret does is a
\* behaviour of Interpreter: the script is one of its steps.
LEMMA ProcStep == [ProcNext]_allVars => [Next]_vars
<1> SUFFICES ASSUME [ProcNext]_allVars PROVE Next \/ UNCHANGED vars
  OBVIOUS
<1>1. CASE UNCHANGED allVars
  BY <1>1 DEF allVars
<1>2. CASE Around
  BY <1>2 DEF Around, Next
<1>3. CASE NoScript \/ ReadEnd
  <2>1. Php
    BY <1>3 DEF NoScript, ReadEnd, Return
  <2> QED
    BY <2>1 DEF Next
<1>4. CASE ForkFails
  BY <1>4 DEF ForkFails, Next
<1>5. CASE ReadOverflows
  BY <1>5 DEF ReadOverflows, Next
<1>6. CASE Fork \/ ReadChunk \/ ChildNext \/ CopyEnds
  BY <1>6 DEF Fork, ReadChunk, ChildNext, ChildReturns, ChildWrites, Execve, ExecveFails,
              ScriptPrints, ScriptExits, CopyEnds
<1> QED
  BY <1>1, <1>2, <1>3, <1>4, <1>5, <1>6 DEF ProcNext, WorkerNext, Read

\* interpret with the child of its PHP script takes the steps of interpret, or stutters:
\* fork, pipe and waits stay inside one call of the module.
THEOREM ProcImplements == ProcSpec => Spec
<1>1. ProcInit => Init
  BY DEF ProcInit
<1> QED
  BY <1>1, ProcStep, PTL DEF ProcSpec, Spec

\* So what holds of interpret holds of it with its child: the status of the answer is
\* explained and the modules run in their order.
THEOREM WithItsChild ==
  ProcSpec => [](TypeOK /\ AnswerExplained /\ ModulesInOrder)
BY ProcImplements, InterpreterTypes, StatusExplained, CallsInOrder, PTL
===============================================================================
