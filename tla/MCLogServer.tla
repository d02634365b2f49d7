---------------------------- MODULE MCLogServer ----------------------------
(* LogServer with two browsers and a ring of two entries, so that the ring *)
(* wraps and the channel overflows within the messages logged.             *)
EXTENDS LogServer
=============================================================================
