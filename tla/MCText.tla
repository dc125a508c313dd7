------------------------------- MODULE MCText -------------------------------
(* Texts a step or two away from a small configuration and from requests. *)
EXTENDS Text

String(s) == <<Quote>> \o s \o <<Quote>>

JsonSeeds == {
  <<"{">> \o String(<<"x">>) \o <<":", "1", ".", "1", "}">>,
  <<"{">> \o String(<<"x">>) \o <<":", "[", "true", ",", "2", "]", "}">>,
  <<"[", "-", "1", "0", ".", "2", "e", "-", "1", "]">>,
  <<"{">> \o String(<<"x">>) \o <<":">> \o String(<<"/", Backslash, "n">>) \o <<"}">>,
  String(<<"x", Backslash, "u", "hex">>)}

Get == <<"GET", " ", "/", " ", "HTTP/1.1", "CR", "LF">>
Field == <<"k", ":", " ", "v", "CR", "LF">>
Empty == <<"CR", "LF">>

HttpSeeds == {
  Get \o Empty,
  Get \o Field \o Field \o Empty,
  Get \o <<"k", ":", "v", ":", "k", "CR", "LF">> \o Empty \o <<"v", "LF", "k">>}

FormSeeds == {<<"k", "=", "%", "2", "6", "&", "k", "+", "=", "k">>}

MCSeeds ==
  [kind : {"json"}, text : JsonSeeds] \cup [kind : {"http"}, text : HttpSeeds]
    \cup [kind : {"form"}, text : FormSeeds]

\* A platform with five digits, none beyond 1000, where no fraction is exact: what is
\* too small becomes zero.
MCDouble(m, s) ==
  LET n == DigitCount(m)
      a == IF n > 5 THEN Units(Absolute(m), 10 ^ (n - 5)) ELSE Absolute(m) * 10 ^ (5 - n)
  IN IF m = 0 \/ n + s < -3 THEN <<"number", 0, 0>>
     ELSE IF n + s > 3 THEN Infinite
     ELSE IF s >= 0 THEN <<"number", m, s>>
     ELSE Number(IF m < 0 THEN -a - 1 ELSE a + 1, s + n - 5)

MCOverflow == <<"number", -128, 0>>

MCChars ==
  [json |-> {Quote, Backslash, "/", "{", "}", "[", "]", ",", ":", "LF", "x",
             "wide", "TRUE", "null", "0", "1", "-", ".", "e"},
   http |-> {"HTTP/1.1", " ", "CR", "LF", ":", "NUL", "k"},
   form |-> {"&", "=", "%", "+", "2", "6", "f", "k"}]
=============================================================================
