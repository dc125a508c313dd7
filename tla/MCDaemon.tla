-------------------------------- MODULE MCDaemon --------------------------------
(* The pid file on small numbers of commands. *)
EXTENDS Daemon

=================================================================================
