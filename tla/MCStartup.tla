------------------------------- MODULE MCStartup -------------------------------
(* A start, reloads and edits of a few configuration files. *)
EXTENDS Startup, TLC

MCKeys == {"port", "server_name", "Log"}
MCValues == {"80", "8080", "text"}
MCDefaults == ("port" :> "80") @@ ("server_name" :> "text")
MCLibraries == {<<"php", "dir1">>, <<"php", "dir2">>, <<"ssl", "dir2">>}
MCLoads ==
  {[n \in {"php", "ssl", "log"} |-> "accepted"],
   [php |-> "accepted", ssl |-> "refused", log |-> "accepted"],
   [php |-> "absent", ssl |-> "accepted", log |-> "throws"],
   [php |-> "refused", ssl |-> "throws", log |-> "accepted"]}
\* Everything, with a module listed twice and one that is nowhere; a null and a key
\* less; a port that is no number; a file that cannot be read.
MCFiles ==
  {[keys |-> ("port" :> "8080") @@ ("Log" :> "text"),
    modules |-> <<"ssl", "log", "php", "ssl">>, dirs |-> <<"dir1", "dir2">>],
   [keys |-> ("port" :> Null) @@ ("server_name" :> "8080"),
    modules |-> <<"php">>, dirs |-> <<>>],
   [keys |-> ("port" :> "text") @@ ("Log" :> Null), modules |-> <<>>, dirs |-> <<>>],
   Unreadable}
================================================================================
