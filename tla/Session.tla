------------------------------ MODULE Session ------------------------------
(***************************************************************************)
(* One Session actor (server/src/actor/session.rs) and the TCP connection  *)
(* to its peer.  A `select!` polls its arms one after the other, and what  *)
(* an arm waits for may become ready between two polls, so every poll is a *)
(* step.  The body of an arm runs outside the select: while it awaits a    *)
(* write, nothing else of the session runs.  write_all hands a frame to    *)
(* the kernel piecemeal; two chunks per frame are enough for a cut frame.  *)
(* The Hub's side of register, broadcast and release is module Hub.        *)
(***************************************************************************)
EXTENDS Integers, Sequences

CONSTANTS
  InBuffer,   \* frames the connection holds towards the session
  OutBuffer,  \* chunks the connection holds towards the peer
  QueueDepth, \* capacity of the mailbox
  IdleTicks,  \* ping ticks without inbound frame after which idle_timeout
              \* has surely elapsed
  MaxFrames,  \* bound: frames the peer sends
  MaxMail,    \* bound: room frames delivered to the mailbox
  MayWedge    \* whether the peer may stop running with its socket open

ASSUME SessionAssumption ==
  /\ InBuffer \in Nat \ {0} /\ OutBuffer \in Nat \ {0}
  /\ QueueDepth \in Nat \ {0} /\ IdleTicks \in Nat \ {0}
  /\ MaxFrames \in Nat /\ MaxMail \in Nat
  /\ MayWedge \in BOOLEAN

VARIABLES
  pc,         \* where in Session::run the task is
  arm,        \* the select arm to be polled next
  out,        \* chunks the write in progress has not handed over yet
  claim,      \* the ClaimHandle: "none", "held", "released"
  announced,  \* what the room was told: "none", "joined", "departed"
  mail,       \* frames in the mailbox
  idle,       \* ping ticks since last_activity
  timer,      \* hello_timeout, ping tick or goodbye timeout has elapsed
  cancelled,  \* the shutdown token
  c2s,        \* frames in transit to the session
  s2c,        \* chunks in transit to the peer
  peer,       \* "open", "wedged" or "closed"
  sent,       \* frames the peer has sent
  delivered,  \* frames the mailbox has been given
  first,      \* history: the first frame put on the wire
  cut,        \* history: a write was abandoned inside a frame
  overtaken,  \* history: arms run while an inbound frame was waiting
  late        \* history: arms run although the token was cancelled

control == <<pc, arm, out>>
lifecycle == <<claim, announced>>
environment == <<cancelled, peer, sent, delivered>>
history == <<first, cut, overtaken, late>>
vars == <<control, lifecycle, mail, idle, timer, c2s, s2c, environment,
          history>>

ClientFrames == {"Hello", "BadHello", "Send", "BadSend", "Pong", "Leave",
                 "Garbage"}
\* "Goodbye" is the Error that names the shutdown, "Error" any other one.
ServerFrames == {"Welcome", "Rejected", "Error", "Goodbye", "Ping", "Room"}
Chunks == [frame : ServerFrames, part : {1, 2}]
Arms == {"shutdown", "reader", "mailbox", "tick"}
Writing == {"rejecting", "welcoming", "replying", "forwarding", "pinging",
            "violation", "idling", "goodbye"}
Phases == Writing \cup {"hello", "loop", "departing", "done"}

TypeOK ==
  /\ pc \in Phases
  /\ arm \in Arms
  /\ out \in Seq(Chunks) /\ Len(out) <= 2
  /\ pc \in Writing <=> out # <<>>
  /\ claim \in {"none", "held", "released"}
  /\ announced \in {"none", "joined", "departed"}
  /\ mail \in 0 .. QueueDepth
  /\ idle \in 0 .. IdleTicks
  /\ timer \in BOOLEAN /\ cancelled \in BOOLEAN
  /\ c2s \in Seq(ClientFrames) /\ Len(c2s) <= InBuffer
  /\ s2c \in Seq(Chunks) /\ Len(s2c) <= OutBuffer
  /\ peer \in {"open", "wedged", "closed"}
  /\ sent \in 0 .. MaxFrames /\ delivered \in 0 .. MaxMail
  /\ first \in ServerFrames \cup {"none"}
  /\ cut \in BOOLEAN
  /\ overtaken \in Nat /\ late \in Nat

-----------------------------------------------------------------------------

\* The order in which the biased selects poll their arms.
FirstArm == "shutdown"

NextArmRoomFirst ==
  [shutdown |-> "mailbox", mailbox |-> "reader", reader |-> "tick",
   tick |-> "shutdown"]
NextArm ==
  [shutdown |-> "reader", reader |-> "mailbox", mailbox |-> "tick",
   tick |-> "shutdown"]

\* Session::new on a connection just accepted.
Init ==
  /\ pc = "hello" /\ arm = FirstArm /\ out = <<>>
  /\ claim = "none" /\ announced = "none"
  /\ mail = 0 /\ idle = 0 /\ timer = FALSE /\ cancelled = FALSE
  /\ c2s = <<>> /\ s2c = <<>> /\ peer = "open"
  /\ sent = 0 /\ delivered = 0
  /\ first = "none" /\ cut = FALSE /\ overtaken = 0 /\ late = 0

\* This arm is not ready: poll the next one.
Pending == arm' = NextArm[arm] /\ UNCHANGED <<pc, out>>

Goto(phase) == pc' = phase /\ arm' = FirstArm /\ out' = <<>>

\* send_frame / write_all: encode and start writing; phase says which call
\* of the code is waiting for it.
StartWrite(frame, phase) ==
  /\ pc' = phase
  /\ arm' = FirstArm
  /\ out' = <<[frame |-> frame, part |-> 1], [frame |-> frame, part |-> 2]>>

\* Bookkeeping for the properties: an arm other than shutdown has won.
Capped(n) == IF n < 3 THEN n + 1 ELSE n
ArmWins(isReader) ==
  /\ overtaken' = IF isReader THEN 0
                  ELSE IF c2s # <<>> THEN Capped(overtaken) ELSE overtaken
  /\ late' = IF cancelled THEN Capped(late) ELSE late
  /\ UNCHANGED <<first, cut>>

Readable == c2s # <<>> \/ peer = "closed"

-----------------------------------------------------------------------------
(* Session::handshake.                                                     *)

\* biased select: the token first.
HelloShutdown ==
  /\ pc = "hello" /\ arm = "shutdown"
  /\ \/ cancelled /\ Goto("done")
     \/ ~cancelled /\ arm' = "reader" /\ UNCHANGED <<pc, out>>
  /\ UNCHANGED <<lifecycle, mail, idle, timer, c2s, s2c, environment, history>>

\* try_register succeeded: the Welcome is written before anything else.
AcceptUnwelcomed == claim' = "held" /\ Goto("loop")
Accept == claim' = "held" /\ StartWrite("Welcome", "welcoming")

\* The first frame: only a Hello with our version, a valid username and a
\* free name is welcomed; one that does not decode gets no answer.
ReadHello ==
  /\ pc = "hello" /\ arm = "reader" /\ c2s # <<>>
  /\ c2s' = Tail(c2s)
  /\ \/ /\ Head(c2s) = "Hello"
        /\ Accept
     \/ /\ Head(c2s) \in ClientFrames \ {"Garbage"}
        /\ UNCHANGED claim
        /\ StartWrite("Rejected", "rejecting")
     \/ /\ Head(c2s) = "Garbage"
        /\ UNCHANGED claim
        /\ Goto("done")
  /\ ArmWins(TRUE)
  /\ UNCHANGED <<announced, mail, idle, timer, s2c, environment>>

\* timeout(hello_timeout, reader.next()): the peer is gone or too slow.
HelloFails ==
  /\ pc = "hello" /\ arm = "reader" /\ c2s = <<>>
  /\ \/ (peer = "closed" \/ timer) /\ Goto("done")
     \/ ~(peer = "closed" \/ timer) /\ arm' = FirstArm /\ UNCHANGED <<pc, out>>
  /\ UNCHANGED <<lifecycle, mail, idle, timer, c2s, s2c, environment, history>>

-----------------------------------------------------------------------------
(* Session::serve_loop.                                                    *)

\* A bug: the writes of the other arms race the token too.
PollShutdownRacesWrites ==
  /\ (pc = "loop" /\ arm = "shutdown") \/ pc \in {"forwarding", "pinging"}
  /\ \/ cancelled /\ StartWrite("Goodbye", "goodbye") /\ timer' = FALSE
     \/ pc = "loop" /\ ~cancelled /\ Pending /\ UNCHANGED timer
  /\ UNCHANGED <<lifecycle, mail, idle, c2s, s2c, environment, history>>

\* A bug: the loop breaks without the goodbye.
PollShutdownSilent ==
  /\ pc = "loop" /\ arm = "shutdown"
  /\ \/ cancelled /\ Goto("departing")
     \/ ~cancelled /\ Pending
  /\ UNCHANGED <<lifecycle, mail, idle, timer, c2s, s2c, environment, history>>

\* First arm: on cancellation, say goodbye under a timeout and leave.
PollShutdown ==
  /\ pc = "loop" /\ arm = "shutdown"
  /\ \/ cancelled /\ StartWrite("Goodbye", "goodbye") /\ timer' = FALSE
     \/ ~cancelled /\ Pending /\ UNCHANGED timer
  /\ UNCHANGED <<lifecycle, mail, idle, c2s, s2c, environment, history>>

\* What follows a decoded frame: an admitted Send is broadcast (Hub!Send), a
\* Send with a bad body or over the rate is answered, Pong only counts as
\* activity, Leave ends the loop, a second Hello is a protocol violation.
HandleFrame(f) ==
  \/ f = "Send" /\ Goto("loop")
  \/ f \in {"Send", "BadSend"} /\ StartWrite("Error", "replying")
  \/ f = "Pong" /\ Goto("loop")
  \/ f \in {"Leave", "Garbage"} /\ Goto("departing")
  \/ f \in {"Hello", "BadHello"} /\ StartWrite("Error", "violation")

\* Second arm: end of stream, or the next frame; a frame that does not
\* decode ends the loop before it counts as activity.
PollReader ==
  /\ pc = "loop" /\ arm = "reader"
  /\ \/ /\ c2s # <<>>
        /\ c2s' = Tail(c2s)
        /\ idle' = IF Head(c2s) = "Garbage" THEN idle ELSE 0
        /\ HandleFrame(Head(c2s))
        /\ ArmWins(TRUE)
     \/ /\ c2s = <<>> /\ peer = "closed"
        /\ Goto("departing")
        /\ ArmWins(TRUE)
        /\ UNCHANGED <<c2s, idle>>
     \/ /\ ~Readable
        /\ Pending
        /\ UNCHANGED <<c2s, idle, history>>
  /\ UNCHANGED <<lifecycle, mail, timer, s2c, environment>>

\* Third arm: forward one room frame.
PollMailbox ==
  /\ pc = "loop" /\ arm = "mailbox"
  /\ \/ /\ mail > 0
        /\ mail' = mail - 1
        /\ StartWrite("Room", "forwarding")
        /\ ArmWins(FALSE)
     \/ /\ mail = 0
        /\ Pending
        /\ UNCHANGED <<mail, history>>
  /\ UNCHANGED <<lifecycle, idle, timer, c2s, s2c, environment>>

\* last_activity.elapsed() <= idle_timeout is possible.  Ticks may be late
\* (MissedTickBehavior::Delay), so it may also be false after fewer ticks.
MaybeActiveAlways == TRUE
MaybeActive == idle < IdleTicks

\* Fourth arm: the heartbeat.
PollTick ==
  /\ pc = "loop" /\ arm = "tick"
  /\ \/ /\ timer
        /\ timer' = FALSE
        /\ \/ StartWrite("Error", "idling") /\ UNCHANGED idle
           \/ /\ MaybeActive
              /\ idle' = IF idle < IdleTicks THEN idle + 1 ELSE idle
              /\ StartWrite("Ping", "pinging")
        /\ ArmWins(FALSE)
     \/ /\ ~timer
        /\ Pending
        /\ UNCHANGED <<idle, timer, history>>
  /\ UNCHANGED <<lifecycle, mail, c2s, s2c, environment>>

-----------------------------------------------------------------------------
(* Writing to the peer.                                                    *)

\* A bug: the goodbye arm has no `break`.
AfterWriteStays ==
  CASE pc = "rejecting" -> "done"
    [] pc \in {"violation", "idling"} -> "departing"
    [] OTHER -> "loop"

\* Where the call that awaited the write goes on when it succeeds.
AfterWrite ==
  CASE pc = "rejecting" -> "done"
    [] pc \in {"welcoming", "replying", "forwarding", "pinging"} -> "loop"
    [] pc \in {"violation", "idling", "goodbye"} -> "departing"

\* The Welcome is out: run announces Joined and serve_loop arms its ticker.
Welcomed ==
  IF pc = "welcoming"
  THEN announced' = "joined" /\ timer' = FALSE
  ELSE UNCHANGED <<announced, timer>>

\* The kernel takes a chunk if it has room; towards a peer that is gone it
\* takes it and throws it away until the reset comes back.
WriteChunk ==
  /\ pc \in Writing
  /\ \/ /\ peer # "closed" /\ Len(s2c) < OutBuffer
        /\ s2c' = Append(s2c, Head(out))
     \/ peer = "closed" /\ UNCHANGED s2c
  /\ first' = IF first = "none" THEN Head(out).frame ELSE first
  /\ \/ /\ Len(out) = 1
        /\ Goto(AfterWrite)
        /\ Welcomed
     \/ /\ Len(out) > 1
        /\ out' = Tail(out)
        /\ UNCHANGED <<pc, arm, announced, timer>>
  /\ UNCHANGED <<claim, mail, idle, c2s, environment, cut, overtaken, late>>

\* The write returns an error.  Before serve_loop the claim unwinds without
\* an announcement; inside it, `?` and `let _ =` both lead to the departure.
WriteFails ==
  /\ pc \in Writing /\ peer = "closed"
  /\ cut' = (cut \/ Len(out) = 1)
  /\ IF pc \in {"rejecting", "welcoming"}
     THEN /\ Goto("done")
          /\ claim' = IF claim = "held" THEN "released" ELSE claim
          /\ mail' = 0
     ELSE Goto("departing") /\ UNCHANGED <<claim, mail>>
  /\ UNCHANGED <<announced, idle, timer, c2s, s2c, environment, first,
                 overtaken, late>>

\* The same bug, when the goodbye times out.
GoodbyeTimeoutStays ==
  /\ pc = "goodbye" /\ timer
  /\ cut' = (cut \/ Len(out) = 1)
  /\ Goto("loop")
  /\ UNCHANGED <<lifecycle, mail, idle, timer, c2s, s2c, environment, first,
                 overtaken, late>>

\* timeout(shutdown_goodbye_timeout, ..) drops the write where it stands.
GoodbyeTimeout ==
  /\ pc = "goodbye" /\ timer
  /\ cut' = (cut \/ Len(out) = 1)
  /\ Goto("departing")
  /\ UNCHANGED <<lifecycle, mail, idle, timer, c2s, s2c, environment, first,
                 overtaken, late>>

\* A bug: no Departed when the loop has ended.
DepartSilently ==
  /\ pc = "departing"
  /\ claim' = "released"
  /\ mail' = 0
  /\ Goto("done")
  /\ UNCHANGED <<announced, idle, timer, c2s, s2c, environment, history>>

\* A bug: the claim is forgotten instead of dropped.
DepartLeaks ==
  /\ pc = "departing"
  /\ announced' = "departed"
  /\ mail' = 0
  /\ Goto("done")
  /\ UNCHANGED <<claim, idle, timer, c2s, s2c, environment, history>>

\* The end of run: broadcast Departed (Hub!Depart), drop the claim, the
\* mailbox and the socket halves.
Depart ==
  /\ pc = "departing"
  /\ announced' = "departed"
  /\ claim' = "released"
  /\ mail' = 0
  /\ Goto("done")
  /\ UNCHANGED <<idle, timer, c2s, s2c, environment, history>>

-----------------------------------------------------------------------------
(* What the session does not control.                                      *)

\* A bug: an unbounded channel as mailbox.
DeliverUnbounded ==
  /\ claim = "held" /\ delivered < MaxMail
  /\ mail' = mail + 1
  /\ delivered' = delivered + 1
  /\ UNCHANGED <<control, lifecycle, idle, timer, c2s, s2c, cancelled, peer,
                 sent, history>>

\* Another session's broadcast reaches the mailbox (Hub!TrySend).
Deliver ==
  /\ claim = "held" /\ mail < QueueDepth /\ delivered < MaxMail
  /\ mail' = mail + 1
  /\ delivered' = delivered + 1
  /\ UNCHANGED <<control, lifecycle, idle, timer, c2s, s2c, cancelled, peer,
                 sent, history>>

\* serve's caller cancels the token.
Cancel ==
  /\ ~cancelled
  /\ cancelled' = TRUE
  /\ UNCHANGED <<control, lifecycle, mail, idle, timer, c2s, s2c, peer, sent,
                 delivered, history>>

\* Time passes: the deadline or tick the session is waiting for is due.
TimerFires ==
  /\ ~timer /\ pc # "done"
  /\ timer' = TRUE
  /\ UNCHANGED <<control, lifecycle, mail, idle, c2s, s2c, environment,
                 history>>

\* A frame of the peer enters the connection, if it has room.
PeerPuts(f) ==
  /\ peer = "open" /\ pc # "done"
  /\ Len(c2s) < InBuffer
  /\ c2s' = Append(c2s, f)
  /\ UNCHANGED <<control, lifecycle, mail, idle, timer, s2c, cancelled, peer,
                 delivered, history>>

\* The peer may send anything, in any order.
PeerSend(f) ==
  /\ sent < MaxFrames
  /\ sent' = sent + 1
  /\ PeerPuts(f)

PeerRead ==
  /\ peer = "open" /\ s2c # <<>>
  /\ s2c' = Tail(s2c)
  /\ UNCHANGED <<control, lifecycle, mail, idle, timer, c2s, environment,
                 history>>

\* The peer closes or dies; when it closes over unread data or aborts the
\* connection, what it had sent may be lost.
PeerClose ==
  /\ peer # "closed"
  /\ peer' = "closed"
  /\ s2c' = <<>>
  /\ c2s' \in {c2s, <<>>}
  /\ UNCHANGED <<control, lifecycle, mail, idle, timer, cancelled, sent,
                 delivered, history>>

\* The peer's process stops, and its kernel keeps the connection alive.
PeerWedge ==
  /\ MayWedge /\ peer = "open"
  /\ peer' = "wedged"
  /\ UNCHANGED <<control, lifecycle, mail, idle, timer, c2s, s2c, cancelled,
                 sent, delivered, history>>

Terminated == pc = "done" /\ UNCHANGED vars

SessionStep ==
  \/ HelloShutdown \/ ReadHello \/ HelloFails
  \/ PollShutdown \/ PollReader \/ PollMailbox \/ PollTick
  \/ WriteChunk \/ WriteFails \/ GoodbyeTimeout \/ Depart

PeerStep ==
  \/ \E f \in ClientFrames : PeerSend(f)
  \/ PeerRead \/ PeerClose \/ PeerWedge

Next ==
  SessionStep \/ PeerStep \/ Deliver \/ Cancel \/ TimerFires \/ Terminated

Spec == Init /\ [][Next]_vars

\* The runtime runs a ready task, time passes, and a peer that has not
\* wedged reads what has arrived.
FairSpec ==
  /\ Spec
  /\ WF_vars(SessionStep)
  /\ WF_vars(TimerFires)
  /\ WF_vars(PeerRead)

-----------------------------------------------------------------------------
(* Properties.                                                             *)

\* The handshake answer is the first frame the client sees, although the
\* mailbox may fill from the moment of registration; the room hears of the
\* user only after the Welcome, and nothing follows a Rejected.
HandshakeFirst ==
  /\ first \in {"none", "Welcome", "Rejected"}
  /\ announced # "none" => first = "Welcome"
  /\ first = "Rejected" => pc \in {"rejecting", "done"} /\ claim = "none"

\* The peer's decoder never meets half a frame followed by another: write_all
\* is not cancel safe, and no arm's write is ever dropped and followed by one.
StreamWellFramed ==
  \A i \in 1 .. Len(s2c) - 1 :
     IF s2c[i].part = 1
     THEN s2c[i + 1] = [frame |-> s2c[i].frame, part |-> 2]
     ELSE s2c[i + 1].part = 1

\* Once a frame was cut short (goodbye timeout, write error) the session
\* writes nothing more.
NothingAfterCut == [][cut => Len(s2c') <= Len(s2c)]_vars

\* "shutdown over everything else, then the socket (so `Leave` is honoured
\* promptly)": at most one arm whose turn had come runs after a cancellation,
\* and at most one other arm before an inbound frame that waits is read.
SelectPriorities == late <= 1 /\ overtaken <= 1

\* However the session ended, the username is free, and a user the room was
\* told of has been announced as departed: "Always announce departure, even
\* if `serve_loop` errored".
CleanExit ==
  /\ pc = "done" => claim # "held" /\ announced # "joined"
  /\ announced = "joined" => claim = "held"

\* Shutdown ends the session, whatever it was doing, unless its peer has
\* stopped reading with the connection open.
ShutdownEnds == cancelled ~> (pc = "done" \/ peer = "wedged")

\* "A wedged peer cannot delay the rest of the drain" (config.rs), "All
\* session awaits race the CancellationToken" (ARCHITECTURE.md).
DrainNotDelayed == cancelled ~> (pc = "done")

\* "A session is disconnected if it has not produced any inbound frame
\* (including Pong)" (config.rs, idle_timeout): a peer that sends nothing
\* more does not keep its session, as long as it reads.
SilentPeerEnds == (sent = MaxFrames) ~> (pc = "done" \/ peer = "wedged")

=============================================================================
