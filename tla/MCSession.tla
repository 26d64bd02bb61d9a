----------------------------- MODULE MCSession -----------------------------
(* TLC instances of Session: a queue of one, and an outbound buffer of a   *)
(* frame and a half, so that a write can stop inside a frame.              *)
EXTENDS Session

MCOutBuffer == 3

=============================================================================
