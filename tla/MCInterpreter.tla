---------------------------- MODULE MCInterpreter -----------------------------
(* One request, for every list of up to MaxModules modules. *)
EXTENDS PhpProcess
===============================================================================
