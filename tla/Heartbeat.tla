----------------------------- MODULE Heartbeat -----------------------------
(***************************************************************************)
(* The heartbeat of Session::serve_loop in discrete time: the ticker of    *)
(* period ping_interval, last_activity, and the idle check made when the   *)
(* tick arm runs (session.rs), with the durations of ServerConfig.  Module *)
(* Session has the same arm without the clock; here it is the clock that   *)
(* matters, and everything else the loop does is the time it takes.        *)
(***************************************************************************)
EXTENDS Integers

CONSTANTS
  ping_interval, idle_timeout,  \* ServerConfig, in units of time
  Slack,      \* the tick arm runs at most this late: other arms and their
              \* writes come first, MissedTickBehavior::Delay; and its own
              \* write takes at most this long
  Latency,    \* a responsive client's Pong is read this soon after the Ping
  MaxTime     \* bound: length of the run

\* "All Duration fields must be strictly positive": all that ServerConfig
\* asks of its heartbeat.
ConfigOK == ping_interval \in Nat \ {0} /\ idle_timeout \in Nat \ {0}

\* A client is responsive if it answers a Ping before the next one is due.
ASSUME HeartbeatAssumption ==
  /\ ConfigOK
  /\ Slack \in Nat /\ Latency \in Nat /\ MaxTime \in Nat
  /\ Latency < ping_interval

VARIABLES
  now,            \* the clock
  last_activity,  \* when the last inbound frame was read
  nextTick,       \* when the ticker is due
  owed,           \* when the Ping the client has not answered was sent, or -1
  client,         \* "responsive", or "silent": a half-open connection
  session         \* "open": in its loop; "idling": writing the Error of the
                  \* idle timeout, its username still claimed; "dropped"

vars == <<now, last_activity, nextTick, owed, client, session>>

NoPing == -1

TypeOK ==
  /\ now \in Nat /\ last_activity \in 0 .. now
  /\ nextTick \in Nat /\ nextTick <= now + ping_interval
  /\ owed \in (0 .. now) \cup {NoPing}
  /\ client \in {"responsive", "silent"}
  /\ session \in {"open", "idling", "dropped"}

\* serve_loop creates the ticker, consumes its immediate first tick and
\* notes the time.
Init ==
  /\ now = 0 /\ last_activity = 0
  /\ nextTick = ping_interval
  /\ owed = NoPing /\ client = "responsive" /\ session = "open"

\* The idle check: last_activity.elapsed() > idle_timeout.
IdleNever == FALSE
Idle == now - last_activity > idle_timeout

\* MissedTickBehavior::Delay: a period after the tick was taken.
Reschedules == now + ping_interval

\* The tick arm: begin to tell an idle client, or send a Ping.
PollTick ==
  /\ session = "open" /\ now >= nextTick
  /\ nextTick' = Reschedules
  /\ \/ /\ Idle
        /\ session' = "idling"
        /\ UNCHANGED owed
     \/ /\ ~Idle
        /\ owed' = IF owed = NoPing THEN now ELSE owed
        /\ UNCHANGED session
  /\ UNCHANGED <<now, last_activity, client>>

\* The Error is written, or the write has failed: break, and the claim goes.
IdleWritten ==
  /\ session = "idling"
  /\ session' = "dropped"
  /\ UNCHANGED <<now, last_activity, nextTick, owed, client>>

\* A bug: only chat counts as activity.
ReadPongIgnored ==
  /\ session = "open" /\ client = "responsive" /\ owed # NoPing
  /\ owed' = NoPing
  /\ UNCHANGED <<now, last_activity, nextTick, client, session>>

\* The reader arm takes the client's Pong: any frame counts as activity.
ReadPong ==
  /\ session = "open" /\ client = "responsive" /\ owed # NoPing
  /\ last_activity' = now
  /\ owed' = NoPing
  /\ UNCHANGED <<now, nextTick, client, session>>

\* The reader arm takes something the user sent.
ReadFrame ==
  /\ session = "open" /\ client = "responsive"
  /\ last_activity' = now
  /\ UNCHANGED <<now, nextTick, owed, client, session>>

\* The connection is half open from now on: nothing more arrives.
FallSilent ==
  /\ session = "open" /\ client = "responsive"
  /\ client' = "silent"
  /\ UNCHANGED <<now, last_activity, nextTick, owed, session>>

\* When the tick arm ran that the next tick was scheduled by.
LastTick == nextTick - ping_interval

\* Time passes, but not past what is due.
Advance ==
  /\ now < MaxTime
  /\ session = "open" => now < nextTick + Slack
  /\ session = "idling" => now < LastTick + Slack
  /\ session = "open" /\ client = "responsive" /\ owed # NoPing =>
        now < owed + Latency
  /\ now' = now + 1
  /\ UNCHANGED <<last_activity, nextTick, owed, client, session>>

Over == now = MaxTime /\ UNCHANGED vars

Next ==
  \/ PollTick \/ IdleWritten \/ ReadPong \/ ReadFrame \/ FallSilent \/ Advance \/ Over

Spec == Init /\ [][Next]_vars

-----------------------------------------------------------------------------
(* Properties.                                                             *)

\* "sending Pong keeps an otherwise idle session alive" (protocol
\* ClientFrame::Pong): a client that answers every Ping is never dropped, at
\* whatever point of a period its frames arrive and however late ticks run.
ResponsiveStays == client = "responsive" => session = "open"

\* "Detects half-open TCP connections that would otherwise sit in the
\* registry forever" (config.rs, idle_timeout): a session that holds its name
\* has had an inbound frame within the timeout, a period, the delay of one
\* tick and the time of one write.
SilenceBounded ==
  session # "dropped" =>
     now <= last_activity + idle_timeout + ping_interval + 2 * Slack

=============================================================================
