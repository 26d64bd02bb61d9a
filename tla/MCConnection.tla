---------------------------- MODULE MCConnection ----------------------------
(* TLC instances of Connection.  The roomy one holds whatever can be in     *)
(* transit towards the session; the tight one fills up, as a socket does   *)
(* when stdin is a long file.                                              *)
EXTENDS Connection

=============================================================================
