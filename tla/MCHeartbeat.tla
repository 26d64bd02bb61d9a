---------------------------- MODULE MCHeartbeat ----------------------------
(* The TLC instance of Heartbeat: the default proportions of ServerConfig, *)
(* a ping interval of half the timeout.                                    *)
EXTENDS Heartbeat

=============================================================================
