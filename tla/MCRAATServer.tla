---------------------------- MODULE MCRAATServer ----------------------------
(***************************************************************************)
(* Instances of the server.  MCRAATServer.cfg: two clients come and go     *)
(* while the device is stopped and run again; two inputs - scripts,        *)
(* messages, posts of the sessions, rebinds - are spread among them in     *)
(* every way.  RAATServerStop.cfg has one client that sends one script.    *)
(***************************************************************************)
EXTENDS RAATServer

=============================================================================
