-------------------------- MODULE MCServiceProcess --------------------------
(* Instances of ServiceProcess for TLC; the constants are in the cfg. *)
EXTENDS ServiceProcess
=============================================================================
