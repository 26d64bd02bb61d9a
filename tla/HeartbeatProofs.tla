-------------------------- MODULE HeartbeatProofs --------------------------
(***************************************************************************)
(* Theorems about Heartbeat, for every ping interval, timeout, slack and   *)
(* latency the assumption allows.                                          *)
(***************************************************************************)
EXTENDS Heartbeat, TLAPS

\* Neither a tick nor a Pong is ever later than promised.
OnTime ==
  /\ session = "open" => now <= nextTick + Slack
  /\ session = "idling" => now <= LastTick + Slack
  /\ session = "open" /\ client = "responsive" /\ owed # NoPing =>
        now <= owed + Latency

\* The tick that comes next is a period after the Ping that is unanswered,
\* or else at most a period after the last activity.
SinceLastTick ==
  session = "open" /\ client = "responsive" =>
     IF owed # NoPing THEN nextTick = owed + ping_interval
                      ELSE nextTick <= last_activity + ping_interval

\* When the next tick was scheduled the client was not idle, or the tick that
\* found it idle was the first that could.
NotIdleAtTick ==
  /\ session = "open" =>
        LastTick <= last_activity + idle_timeout
  /\ session = "idling" =>
        LastTick <= last_activity + idle_timeout + ping_interval + Slack

\* The invariant behind SilenceBounded, without any relation between the
\* ping interval and the timeout.
SilenceInv == TypeOK /\ OnTime /\ NotIdleAtTick

\* SilenceInv holds initially and is preserved by every step.
LEMMA SilenceInductive == Spec => []SilenceInv
<1> USE HeartbeatAssumption DEF NoPing, ConfigOK, LastTick
<1>1. Init => SilenceInv
  BY DEF Init, SilenceInv, TypeOK, OnTime, NotIdleAtTick
<1>2. SilenceInv /\ [Next]_vars => SilenceInv'
  <2> SUFFICES ASSUME SilenceInv, [Next]_vars PROVE SilenceInv'
    OBVIOUS
  <2> USE DEF SilenceInv, TypeOK, OnTime, NotIdleAtTick
  <2>1. CASE PollTick
    BY <2>1 DEF PollTick, Idle, Reschedules
  <2>2. CASE ReadPong
    BY <2>2 DEF ReadPong
  <2>3. CASE ReadFrame
    BY <2>3 DEF ReadFrame
  <2>4. CASE FallSilent
    BY <2>4 DEF FallSilent
  <2>5. CASE Advance
    BY <2>5 DEF Advance
  <2>6. CASE Over
    BY <2>6 DEF Over, vars
  <2>7. CASE UNCHANGED vars
    BY <2>7 DEF vars
  <2>8. CASE IdleWritten
    BY <2>8 DEF IdleWritten
  <2> QED
    BY <2>1, <2>2, <2>3, <2>4, <2>5, <2>6, <2>7, <2>8 DEF Next
<1> QED
  BY <1>1, <1>2, PTL DEF Spec

\* The session of a half-open connection is dropped (the tick arm of
\* serve_loop): no session holds its name without an inbound frame for longer
\* than the timeout, a period, the delay of one tick and one write.
THEOREM SilenceIsBounded == Spec => []SilenceBounded
<1>1. SilenceInv => SilenceBounded
  BY HeartbeatAssumption
     DEF ConfigOK, SilenceInv, TypeOK, OnTime, NotIdleAtTick, SilenceBounded,
         LastTick
<1> QED
  BY <1>1, SilenceInductive, PTL

\* The invariant behind ResponsiveStays.
ResponsiveInv == TypeOK /\ OnTime /\ SinceLastTick /\ ResponsiveStays

\* A client that answers its Pings keeps its session (the reader and tick
\* arms of serve_loop), provided a period and the delay of one tick fit into
\* the idle timeout, which ServerConfig does not ask for.
THEOREM ResponsiveKeepsSession ==
  ASSUME ping_interval + Slack <= idle_timeout
  PROVE  Spec => []ResponsiveStays
<1> USE HeartbeatAssumption DEF NoPing, ConfigOK, LastTick
<1>1. Init => ResponsiveInv
  BY DEF Init, ResponsiveInv, TypeOK, OnTime, SinceLastTick, ResponsiveStays
<1>2. ResponsiveInv /\ [Next]_vars => ResponsiveInv'
  <2> SUFFICES ASSUME ResponsiveInv, [Next]_vars PROVE ResponsiveInv'
    OBVIOUS
  <2> USE DEF ResponsiveInv, TypeOK, OnTime, SinceLastTick, ResponsiveStays
  <2>1. CASE PollTick
    <3>1. client = "responsive" => owed = NoPing
      BY <2>1 DEF PollTick
    <3>2. client = "responsive" => ~Idle
      BY <2>1, <3>1 DEF PollTick, Idle
    <3> QED
      BY <2>1, <3>1, <3>2 DEF PollTick, Reschedules, Idle
  <2>2. CASE ReadPong
    BY <2>2 DEF ReadPong
  <2>3. CASE ReadFrame
    BY <2>3 DEF ReadFrame
  <2>4. CASE FallSilent
    BY <2>4 DEF FallSilent
  <2>5. CASE Advance
    BY <2>5 DEF Advance
  <2>6. CASE Over
    BY <2>6 DEF Over, vars
  <2>7. CASE UNCHANGED vars
    BY <2>7 DEF vars
  <2>8. CASE IdleWritten
    BY <2>8 DEF IdleWritten
  <2> QED
    BY <2>1, <2>2, <2>3, <2>4, <2>5, <2>6, <2>7, <2>8 DEF Next
<1>3. ResponsiveInv => ResponsiveStays
  BY DEF ResponsiveInv
<1> QED
  BY <1>1, <1>2, <1>3, PTL DEF Spec

=============================================================================
