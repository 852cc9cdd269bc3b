-------------------------- MODULE MCStartupResume --------------------------
(* StartupResume within small bounds. *)
EXTENDS StartupResume
=============================================================================
