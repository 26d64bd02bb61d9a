---------------------------- MODULE SessionProofs ---------------------------
(***************************************************************************)
(* Proofs about Session for every size of its buffers, its mailbox and its *)
(* idle bound, and whether the peer may wedge or not.                      *)
(***************************************************************************)
EXTENDS Session, TLAPS

-----------------------------------------------------------------------------
(* The inductive invariant.                                                *)

\* The rest of the frame being written.
OutShape ==
  /\ Len(out) = 1 => out[1].part = 2
  /\ Len(out) = 2 => /\ out[1].part = 1
                     /\ out[2] = [frame |-> out[1].frame, part |-> 2]

\* The stream is well framed, and its end fits what is written next; a frame
\* that was cut short is the last thing written.
Wire ==
  /\ StreamWellFramed
  /\ peer = "closed" => s2c = <<>>
  /\ cut => pc \in {"departing", "done"}
  /\ (s2c # <<>> /\ ~cut) =>
       IF Len(out) = 1
       THEN s2c[Len(s2c)] = [frame |-> out[1].frame, part |-> 1]
       ELSE s2c[Len(s2c)].part = 2

\* Phases of serve_loop and of the departure that follows it.
Serving == {"loop", "replying", "forwarding", "pinging", "violation",
            "idling", "goodbye", "departing"}

\* What the peer and the room know in each phase.
Progress ==
  /\ pc = "hello" => first = "none" /\ claim = "none" /\ announced = "none"
  /\ pc = "rejecting" =>
       /\ first \in {"none", "Rejected"} /\ out[1].frame = "Rejected"
       /\ claim = "none" /\ announced = "none"
  /\ pc = "welcoming" =>
       /\ first \in {"none", "Welcome"} /\ out[1].frame = "Welcome"
       /\ claim = "held" /\ announced = "none"
  /\ pc \in Serving =>
       first = "Welcome" /\ claim = "held" /\ announced = "joined"
  /\ pc = "done" =>
       \/ first \in {"none", "Rejected"} /\ claim = "none" /\ announced = "none"
       \/ first \in {"none", "Welcome"} /\ claim = "released" /\ announced = "none"
       \/ first = "Welcome" /\ claim = "released" /\ announced = "departed"

\* The biased selects: an arm that wins is followed by the token's, and a
\* frame that waits is read before another arm wins again.
Priorities ==
  /\ late <= 1 /\ (late > 0 => cancelled)
  /\ (pc \in {"hello", "loop"} /\ arm # "shutdown") => late = 0
  /\ overtaken <= 1 /\ (overtaken > 0 => Readable)
  /\ (pc = "loop" /\ arm \in {"mailbox", "tick"}) => overtaken = 0
  /\ pc = "hello" => arm \in {"shutdown", "reader"}

SessionInv == TypeOK /\ OutShape /\ Wire /\ Progress /\ Priorities

\* A step of the session, of its room and timers, or of any peer; how many
\* frames the peer still sends does not matter to the session.
PeerMoves ==
  \/ \E f \in ClientFrames : PeerPuts(f) /\ sent' \in 0 .. MaxFrames
  \/ PeerRead \/ PeerClose \/ PeerWedge

Step == SessionStep \/ PeerMoves \/ Deliver \/ Cancel \/ TimerFires

\* Every step of the specification is one.
LEMMA NextIsStep ==
  ASSUME TypeOK, [Next]_vars
  PROVE  [Step]_vars
  <1>1. ASSUME NEW f \in ClientFrames, PeerSend(f) PROVE PeerMoves
    BY <1>1, SessionAssumption DEF PeerSend, PeerMoves, TypeOK
  <1> QED
    BY <1>1 DEF Next, PeerStep, PeerMoves, Step, Terminated

-----------------------------------------------------------------------------
(* Types.                                                                  *)

\* What a sequence is to the proofs below.
LEMMA SeqFacts ==
  ASSUME NEW S, NEW s \in Seq(S)
  PROVE  /\ Len(s) \in Nat /\ (s = <<>> <=> Len(s) = 0)
         /\ \A i \in 1 .. Len(s) : s[i] \in S
         /\ s # <<>> => Head(s) = s[1] /\ Head(s) \in S
         /\ s # <<>> => /\ Tail(s) \in Seq(S) /\ Len(Tail(s)) = Len(s) - 1
                        /\ \A i \in 1 .. Len(s) - 1 : Tail(s)[i] = s[i + 1]
         /\ \A x \in S : /\ Append(s, x) \in Seq(S)
                         /\ Len(Append(s, x)) = Len(s) + 1
                         /\ Append(s, x)[Len(s) + 1] = x
                         /\ \A i \in 1 .. Len(s) : Append(s, x)[i] = s[i]
  OBVIOUS

\* The second of two.
LEMMA TailOfTwo ==
  ASSUME NEW S, NEW s \in Seq(S), Len(s) = 2
  PROVE  s # <<>> /\ Tail(s) \in Seq(S) /\ Len(Tail(s)) = 1 /\ Tail(s)[1] = s[2]
  <1>1. s # <<>> /\ Tail(s) \in Seq(S) /\ Len(Tail(s)) = 2 - 1
    BY SeqFacts
  <1>2. 1 \in 1 .. Len(s) - 1 /\ 1 + 1 = 2
    OBVIOUS
  <1>3. \A i \in 1 .. Len(s) - 1 : Tail(s)[i] = s[i + 1]
    BY <1>1, SeqFacts
  <1>4. Tail(s)[1] = s[1 + 1]
    BY <1>2, <1>3
  <1> QED
    BY <1>1, <1>4

\* A write starts with the two chunks of its frame.
LEMMA WriteStarts ==
  ASSUME NEW frame \in ServerFrames, NEW phase, StartWrite(frame, phase)
  PROVE  /\ pc' = phase /\ arm' = "shutdown"
         /\ out' \in Seq(Chunks) /\ Len(out') = 2 /\ out' # <<>>
         /\ out'[1] = [frame |-> frame, part |-> 1]
         /\ out'[2] = [frame |-> frame, part |-> 2]
  <1>1. [frame |-> frame, part |-> 1] \in Chunks
        /\ [frame |-> frame, part |-> 2] \in Chunks
    BY DEF Chunks
  <1> QED
    BY <1>1 DEF StartWrite, FirstArm

\* Every step keeps the types: control.
LEMMA ControlTypes ==
  ASSUME TypeOK, Step
  PROVE  /\ pc' \in Phases /\ arm' \in Arms
         /\ out' \in Seq(Chunks) /\ Len(out') <= 2
         /\ pc' \in Writing <=> out' # <<>>
  <1> DEFINE Good == /\ pc' \in Phases /\ arm' \in Arms
                     /\ out' \in Seq(Chunks) /\ Len(out') <= 2
                     /\ pc' \in Writing <=> out' # <<>>
  <1>0. /\ pc \in Phases /\ arm \in Arms
        /\ out \in Seq(Chunks) /\ Len(out) <= 2
        /\ pc \in Writing <=> out # <<>>
    BY DEF TypeOK
  <1>1. ASSUME NEW phase \in Phases \ Writing, Goto(phase) PROVE Good
    BY <1>1 DEF Goto, FirstArm, Arms
  <1>2. ASSUME NEW frame \in ServerFrames, NEW phase \in Writing,
               StartWrite(frame, phase)
        PROVE  Good
    <2>1. /\ pc' = phase /\ arm' = "shutdown"
          /\ out' \in Seq(Chunks) /\ Len(out') = 2 /\ out' # <<>>
      BY <1>2, WriteStarts
    <2> QED
      BY <1>2, <2>1 DEF Phases, Arms
  <1>3. ASSUME NEW x \in Arms, arm' = x, UNCHANGED <<pc, out>> PROVE Good
    BY <1>0, <1>3
  <1>4. NextArm[arm] \in Arms
    BY <1>0 DEF NextArm, Arms
  <1>5. ASSUME Pending PROVE Good
    BY <1>3, <1>4, <1>5 DEF Pending
  <1>6. ASSUME UNCHANGED control PROVE Good
    BY <1>0, <1>6 DEF control
  <1>7. /\ {"done", "loop", "departing"} \subseteq Phases \ Writing
        /\ {"Welcome", "Rejected", "Error", "Goodbye", "Ping", "Room"} = ServerFrames
        /\ {"shutdown", "reader"} \subseteq Arms
        /\ {"rejecting", "welcoming", "replying", "forwarding", "pinging",
            "violation", "idling", "goodbye"} = Writing
    BY DEF Phases, Writing, ServerFrames, Arms
  <1> HIDE DEF Good
  <1>8. ASSUME HelloShutdown \/ ReadHello \/ HelloFails PROVE Good
    BY <1>1, <1>2, <1>3, <1>7, <1>8
    DEF HelloShutdown, ReadHello, HelloFails, Accept, FirstArm
  <1>9. ASSUME PollShutdown \/ PollMailbox \/ PollTick PROVE Good
    BY <1>1, <1>2, <1>5, <1>7, <1>9 DEF PollShutdown, PollMailbox, PollTick
  <1>10. ASSUME PollReader PROVE Good
    BY <1>1, <1>2, <1>5, <1>7, <1>10 DEF PollReader, HandleFrame
  <1>11. ASSUME WriteChunk PROVE Good
    <2>1. CASE Len(out) = 1 /\ Goto(AfterWrite)
      <3>1. AfterWrite \in Phases \ Writing
        BY <1>7, <1>11 DEF WriteChunk, AfterWrite
      <3> QED
        BY <1>1, <2>1, <3>1
    <2>2. CASE Len(out) > 1 /\ out' = Tail(out) /\ UNCHANGED <<pc, arm>>
      <3>0. Len(out) \in Nat /\ Len(out) <= 2 /\ Len(out) > 1
        BY <1>0, <2>2, SeqFacts
      <3>1. Len(out) = 2
        <4>1. \A n \in Nat : n <= 2 /\ n > 1 => n = 2
          OBVIOUS
        <4> QED
          BY <3>0, <4>1
      <3>2. Tail(out) \in Seq(Chunks) /\ Len(Tail(out)) = 1
        BY <1>0, <3>1
      <3> QED
        BY <1>0, <1>11, <2>2, <3>2 DEF WriteChunk, Good
    <2> QED
      BY <1>11, <2>1, <2>2 DEF WriteChunk
  <1>12. ASSUME WriteFails \/ GoodbyeTimeout \/ Depart PROVE Good
    BY <1>1, <1>7, <1>12 DEF WriteFails, GoodbyeTimeout, Depart
  <1>13. ASSUME PeerMoves \/ Deliver \/ Cancel \/ TimerFires PROVE Good
    BY <1>6, <1>13 DEF PeerMoves, PeerPuts, PeerRead, PeerClose, PeerWedge,
                       Deliver, Cancel, TimerFires
  <1>14. Good
    BY <1>8, <1>9, <1>10, <1>11, <1>12, <1>13 DEF Step, SessionStep
  <1> QED
    BY <1>14 DEF Good

\* Every step keeps the types: the wire.
LEMMA WireTypes ==
  ASSUME TypeOK, Step
  PROVE  /\ c2s' \in Seq(ClientFrames) /\ Len(c2s') <= InBuffer
         /\ s2c' \in Seq(Chunks) /\ Len(s2c') <= OutBuffer
         /\ peer' \in {"open", "wedged", "closed"}
         /\ sent' \in 0 .. MaxFrames
  <1> DEFINE Good == /\ c2s' \in Seq(ClientFrames) /\ Len(c2s') <= InBuffer
                     /\ s2c' \in Seq(Chunks) /\ Len(s2c') <= OutBuffer
                     /\ peer' \in {"open", "wedged", "closed"}
                     /\ sent' \in 0 .. MaxFrames
  <1>0. /\ c2s \in Seq(ClientFrames) /\ Len(c2s) <= InBuffer
        /\ s2c \in Seq(Chunks) /\ Len(s2c) <= OutBuffer
        /\ peer \in {"open", "wedged", "closed"} /\ sent \in 0 .. MaxFrames
        /\ out \in Seq(Chunks) /\ InBuffer \in Nat /\ OutBuffer \in Nat
        /\ pc \in Writing <=> out # <<>>
    BY SessionAssumption DEF TypeOK
  <1>1. c2s # <<>> => Tail(c2s) \in Seq(ClientFrames)
                      /\ Len(Tail(c2s)) <= InBuffer
    BY <1>0
  <1>2. s2c # <<>> => Tail(s2c) \in Seq(Chunks) /\ Len(Tail(s2c)) <= OutBuffer
    BY <1>0
  <1>3. <<>> \in Seq(Chunks) /\ <<>> \in Seq(ClientFrames) /\ Len(<<>>) = 0
    OBVIOUS
  <1>4. ASSUME UNCHANGED <<c2s, s2c, peer, sent>> PROVE Good
    BY <1>0, <1>4
  <1>5. ASSUME c2s # <<>>, c2s' = Tail(c2s), UNCHANGED <<s2c, peer, sent>>
        PROVE  Good
    BY <1>0, <1>1, <1>5
  <1> HIDE DEF Good
  <1>6. ASSUME HelloShutdown \/ ReadHello \/ HelloFails PROVE Good
    BY <1>4, <1>5, <1>6
    DEF HelloShutdown, ReadHello, HelloFails, environment
  <1>7. ASSUME PollShutdown \/ PollReader \/ PollMailbox \/ PollTick
        PROVE  Good
    BY <1>4, <1>5, <1>7
    DEF PollShutdown, PollReader, PollMailbox, PollTick, environment
  <1>8. ASSUME WriteChunk PROVE Good
    <2>1. out # <<>> /\ UNCHANGED <<c2s, peer, sent>>
      BY <1>0, <1>8 DEF WriteChunk, environment
    <2>2. CASE s2c' = s2c
      BY <1>4, <2>1, <2>2
    <2>3. CASE s2c' = Append(s2c, Head(out)) /\ Len(s2c) < OutBuffer
      <3>1. Head(out) \in Chunks
        BY <1>0, <2>1
      <3>2. Append(s2c, Head(out)) \in Seq(Chunks)
            /\ Len(Append(s2c, Head(out))) = Len(s2c) + 1
        BY <1>0, <3>1
      <3> QED
        BY <1>0, <2>1, <2>3, <3>2 DEF Good
    <2> QED
      BY <1>8, <2>2, <2>3 DEF WriteChunk
  <1>9. ASSUME WriteFails \/ GoodbyeTimeout \/ Depart PROVE Good
    BY <1>4, <1>9 DEF WriteFails, GoodbyeTimeout, Depart, environment
  <1>10. ASSUME Deliver \/ Cancel \/ TimerFires PROVE Good
    BY <1>4, <1>10 DEF Deliver, Cancel, TimerFires, environment
  <1>11. ASSUME NEW f \in ClientFrames, PeerPuts(f), sent' \in 0 .. MaxFrames
         PROVE  Good
    <2>1. Append(c2s, f) \in Seq(ClientFrames)
          /\ Len(Append(c2s, f)) = Len(c2s) + 1 /\ Len(c2s) \in Nat
      BY <1>0
    <2> QED
      BY <1>0, <1>11, <2>1 DEF PeerPuts, Good
  <1>12. ASSUME PeerRead \/ PeerClose \/ PeerWedge PROVE Good
    <2>1. CASE PeerRead
      BY <1>0, <1>2, <2>1 DEF PeerRead, environment, Good
    <2>2. CASE PeerClose
      <3>1. c2s' = c2s \/ c2s' = <<>>
        BY <2>2 DEF PeerClose
      <3>2. s2c' = <<>> /\ peer' = "closed" /\ sent' = sent
        BY <2>2 DEF PeerClose
      <3>3. c2s' \in Seq(ClientFrames) /\ Len(c2s') <= InBuffer
        <4>1. CASE c2s' = c2s
          BY <1>0, <4>1
        <4>2. CASE c2s' = <<>>
          BY <1>0, <1>3, <4>2
        <4> QED
          BY <3>1, <4>1, <4>2
      <3>4. s2c' \in Seq(Chunks) /\ Len(s2c') <= OutBuffer
        BY <1>0, <1>3, <3>2
      <3> QED
        BY <1>0, <3>2, <3>3, <3>4 DEF Good
    <2>3. CASE PeerWedge
      BY <1>0, <2>3 DEF PeerWedge, Good
    <2> QED
      BY <1>12, <2>1, <2>2, <2>3
  <1>13. Good
    BY <1>6, <1>7, <1>8, <1>9, <1>10, <1>11, <1>12
    DEF Step, SessionStep, PeerMoves
  <1> QED
    BY <1>13 DEF Good

\* Every step keeps the types: the rest.
LEMMA RestTypes ==
  ASSUME TypeOK, Step
  PROVE  /\ claim' \in {"none", "held", "released"}
         /\ announced' \in {"none", "joined", "departed"}
         /\ mail' \in 0 .. QueueDepth /\ idle' \in 0 .. IdleTicks
         /\ delivered' \in 0 .. MaxMail
         /\ timer' \in BOOLEAN /\ cancelled' \in BOOLEAN /\ cut' \in BOOLEAN
         /\ first' \in ServerFrames \cup {"none"}
         /\ overtaken' \in Nat /\ late' \in Nat
  <1>0. /\ claim \in {"none", "held", "released"}
        /\ announced \in {"none", "joined", "departed"}
        /\ first \in ServerFrames \cup {"none"}
    BY DEF TypeOK
  <1>1. /\ claim' \in {"none", "held", "released"}
        /\ announced' \in {"none", "joined", "departed"}
    <2> USE <1>0 DEF lifecycle
    <2>1. ASSUME HelloShutdown \/ ReadHello \/ HelloFails PROVE <1>1!1 /\ <1>1!2
      BY <2>1 DEF HelloShutdown, ReadHello, HelloFails, Accept
    <2>2. ASSUME PollShutdown \/ PollReader \/ PollMailbox \/ PollTick
          PROVE  <1>1!1 /\ <1>1!2
      BY <2>2 DEF PollShutdown, PollReader, PollMailbox, PollTick
    <2>3. ASSUME WriteChunk \/ WriteFails \/ GoodbyeTimeout \/ Depart
          PROVE  <1>1!1 /\ <1>1!2
      BY <2>3 DEF WriteChunk, Welcomed, WriteFails, GoodbyeTimeout, Depart
    <2>4. ASSUME PeerMoves \/ Deliver \/ Cancel \/ TimerFires
          PROVE  <1>1!1 /\ <1>1!2
      BY <2>4 DEF PeerMoves, PeerPuts, PeerRead, PeerClose, PeerWedge,
                  Deliver, Cancel, TimerFires
    <2> QED
      BY <2>1, <2>2, <2>3, <2>4 DEF Step, SessionStep
  <1>2. /\ mail' \in 0 .. QueueDepth /\ idle' \in 0 .. IdleTicks
        /\ delivered' \in 0 .. MaxMail
    <2>0. /\ mail \in 0 .. QueueDepth /\ idle \in 0 .. IdleTicks
          /\ delivered \in 0 .. MaxMail
          /\ QueueDepth \in Nat /\ IdleTicks \in Nat /\ MaxMail \in Nat
      BY SessionAssumption DEF TypeOK
    <2> USE <2>0 DEF environment
    <2>1. ASSUME HelloShutdown \/ ReadHello \/ HelloFails PROVE <1>2!1 /\ <1>2!2
      BY <2>1 DEF HelloShutdown, ReadHello, HelloFails
    <2>2. ASSUME PollShutdown \/ PollReader \/ PollMailbox \/ PollTick
          PROVE  <1>2!1 /\ <1>2!2
      <3>1. CASE PollShutdown
        BY <3>1 DEF PollShutdown
      <3>2. CASE PollReader
        <4>1. UNCHANGED <<mail, delivered>> /\ (idle' = idle \/ idle' = 0)
          BY <3>2 DEF PollReader
        <4> QED
          BY <4>1
      <3>3. CASE PollMailbox
        <4>1. /\ UNCHANGED <<idle, delivered>>
              /\ mail' = mail \/ (mail > 0 /\ mail' = mail - 1)
          BY <3>3 DEF PollMailbox
        <4> QED
          BY <4>1
      <3>4. CASE PollTick
        <4>1. /\ UNCHANGED <<mail, delivered>>
              /\ idle' = idle \/ (idle < IdleTicks /\ idle' = idle + 1)
          BY <3>4 DEF PollTick
        <4> QED
          BY <4>1
      <3> QED
        BY <2>2, <3>1, <3>2, <3>3, <3>4
    <2>3. ASSUME WriteChunk \/ WriteFails \/ GoodbyeTimeout \/ Depart
          PROVE  <1>2!1 /\ <1>2!2
      BY <2>3 DEF WriteChunk, WriteFails, GoodbyeTimeout, Depart
    <2>4. ASSUME PeerMoves \/ Deliver \/ Cancel \/ TimerFires
          PROVE  <1>2!1 /\ <1>2!2
      BY <2>4 DEF PeerMoves, PeerPuts, PeerRead, PeerClose, PeerWedge,
                  Deliver, Cancel, TimerFires
    <2> QED
      BY <2>1, <2>2, <2>3, <2>4 DEF Step, SessionStep
  <1>3. timer' \in BOOLEAN /\ cancelled' \in BOOLEAN /\ cut' \in BOOLEAN
    <2>0. timer \in BOOLEAN /\ cancelled \in BOOLEAN /\ cut \in BOOLEAN
      BY DEF TypeOK
    <2>1. timer' \in BOOLEAN
      BY <2>0 DEF Step, SessionStep, HelloShutdown, ReadHello, HelloFails,
        PollShutdown, PollReader, PollMailbox, PollTick, WriteChunk, Welcomed,
        WriteFails, GoodbyeTimeout, Depart, PeerMoves, PeerPuts, PeerRead,
        PeerClose, PeerWedge, Deliver, Cancel, TimerFires
    <2>2. cancelled' \in BOOLEAN
      BY <2>0 DEF Step, SessionStep, HelloShutdown, ReadHello, HelloFails,
        PollShutdown, PollReader, PollMailbox, PollTick, WriteChunk,
        WriteFails, GoodbyeTimeout, Depart, PeerMoves, PeerPuts, PeerRead,
        PeerClose, PeerWedge, Deliver, Cancel, TimerFires, environment
    <2>3. cut' \in BOOLEAN
      BY <2>0 DEF Step, SessionStep, HelloShutdown, ReadHello, HelloFails,
        PollShutdown, PollReader, PollMailbox, PollTick, WriteChunk,
        WriteFails, GoodbyeTimeout, Depart, PeerMoves, PeerPuts, PeerRead,
        PeerClose, PeerWedge, Deliver, Cancel, TimerFires, history, ArmWins
    <2> QED
      BY <2>1, <2>2, <2>3
  <1>4. first' \in ServerFrames \cup {"none"}
    <2>1. ASSUME WriteChunk PROVE <1>4
      <3>1. Head(out) \in Chunks
        BY <2>1, SeqFacts DEF TypeOK, WriteChunk
      <3>2. Head(out).frame \in ServerFrames
        BY <3>1 DEF Chunks
      <3> QED
        BY <1>0, <2>1, <3>2 DEF WriteChunk
    <2>2. ASSUME first' = first PROVE <1>4
      BY <1>0, <2>2
    <2> QED
      BY <2>1, <2>2 DEF Step, SessionStep, HelloShutdown, ReadHello, HelloFails,
        PollShutdown, PollReader, PollMailbox, PollTick,
        WriteFails, GoodbyeTimeout, Depart, PeerMoves, PeerPuts, PeerRead,
        PeerClose, PeerWedge, Deliver, Cancel, TimerFires, history, ArmWins
  <1>5. overtaken' \in Nat /\ late' \in Nat
    <2>0. overtaken \in Nat /\ late \in Nat
      BY DEF TypeOK
    <2>1. \A n \in Nat : Capped(n) \in Nat
      BY DEF Capped
    <2>2. ASSUME NEW b, ArmWins(b) PROVE overtaken' \in Nat /\ late' \in Nat
      BY <2>0, <2>1, <2>2 DEF ArmWins
    <2>3. ASSUME UNCHANGED <<overtaken, late>>
          PROVE  overtaken' \in Nat /\ late' \in Nat
      BY <2>0, <2>3
    <2> QED
      BY <2>2, <2>3 DEF Step, SessionStep, HelloShutdown, ReadHello, HelloFails,
        PollShutdown, PollReader, PollMailbox, PollTick, WriteChunk,
        WriteFails, GoodbyeTimeout, Depart, PeerMoves, PeerPuts, PeerRead,
        PeerClose, PeerWedge, Deliver, Cancel, TimerFires, history
  <1> QED
    BY <1>1, <1>2, <1>3, <1>4, <1>5

\* Every step keeps the types.
LEMMA TypeStep == TypeOK /\ [Step]_vars => TypeOK'
  <1> SUFFICES ASSUME TypeOK, [Step]_vars PROVE TypeOK'
    OBVIOUS
  <1>1. CASE Step
    BY <1>1, ControlTypes, WireTypes, RestTypes DEF TypeOK
  <1>2. CASE UNCHANGED vars
    BY <1>2 DEF vars, control, lifecycle, environment, history, TypeOK
  <1> QED
    BY <1>1, <1>2

-----------------------------------------------------------------------------
(* The stream towards the peer.                                            *)

\* The selects run between writes: they start one or none.
LEMMA SelectSteps ==
  ASSUME TypeOK,
         \/ HelloShutdown \/ ReadHello \/ HelloFails
         \/ PollShutdown \/ PollReader \/ PollMailbox \/ PollTick
  PROVE  /\ pc \in {"hello", "loop"} /\ out = <<>> /\ Len(out) = 0
         /\ UNCHANGED <<s2c, peer, cut, first>>
         /\ \/ out' = <<>>
            \/ /\ Len(out') = 2 /\ out'[1].part = 1
               /\ out'[2] = [frame |-> out'[1].frame, part |-> 2]
  <1>1. pc \in {"hello", "loop"}
    BY DEF HelloShutdown, ReadHello, HelloFails, PollShutdown, PollReader,
           PollMailbox, PollTick
  <1>2. UNCHANGED <<s2c, peer, cut, first>>
    BY DEF HelloShutdown, ReadHello, HelloFails, PollShutdown, PollReader,
           PollMailbox, PollTick, environment, history, ArmWins
  <1>3. out = <<>> /\ Len(out) = 0
    BY <1>1 DEF TypeOK, Writing
  <1>4. \/ out' = out \/ out' = <<>>
        \/ \E frame \in ServerFrames, phase \in Writing : StartWrite(frame, phase)
    <2>1. /\ \A frame \in {"Welcome", "Rejected", "Error", "Goodbye", "Ping",
                            "Room"} :
               frame \in ServerFrames
          /\ \A phase \in {"rejecting", "welcoming", "replying", "forwarding",
                  "pinging", "violation", "idling", "goodbye"} : phase \in Writing
      BY DEF ServerFrames, Writing
    <2>2. ASSUME HelloShutdown \/ ReadHello \/ HelloFails PROVE <1>4
      BY <2>1, <2>2 DEF HelloShutdown, ReadHello, HelloFails, Accept, Goto
    <2>3. ASSUME PollShutdown \/ PollMailbox \/ PollTick PROVE <1>4
      BY <2>1, <2>3 DEF PollShutdown, PollMailbox, PollTick, Pending
    <2>4. ASSUME PollReader PROVE <1>4
      BY <2>1, <2>4 DEF PollReader, HandleFrame, Pending, Goto
    <2> QED
      BY <2>2, <2>3, <2>4
  <1>5. ASSUME NEW frame \in ServerFrames, NEW phase \in Writing,
               StartWrite(frame, phase)
        PROVE  /\ Len(out') = 2 /\ out'[1].part = 1
               /\ out'[2] = [frame |-> out'[1].frame, part |-> 2]
    <2>1. /\ Len(out') = 2
          /\ out'[1] = [frame |-> frame, part |-> 1]
          /\ out'[2] = [frame |-> frame, part |-> 2]
      BY <1>5, WriteStarts
    <2> QED
      BY <2>1
  <1> QED
    BY <1>1, <1>2, <1>3, <1>4, <1>5

\* What is left to write keeps its shape.
LEMMA OutShapeStep ==
  ASSUME TypeOK, OutShape, Step
  PROVE  OutShape'
  <1>0. out \in Seq(Chunks) /\ Len(out) \in Nat /\ Len(<<>>) = 0
    BY SeqFacts DEF TypeOK
  <1>1. ASSUME out' = <<>> PROVE OutShape'
    BY <1>0, <1>1 DEF OutShape
  <1>2. ASSUME out' = out PROVE OutShape'
    BY <1>2 DEF OutShape
  <1>3. CASE \/ HelloShutdown \/ ReadHello \/ HelloFails
             \/ PollShutdown \/ PollReader \/ PollMailbox \/ PollTick
    BY <1>1, <1>3, SelectSteps DEF OutShape
  <1>4. CASE WriteChunk
    <2>1. CASE out' = <<>>
      BY <1>1, <2>1
    <2>2. CASE Len(out) > 1 /\ out' = Tail(out)
      <3>1. \A n \in Nat : n <= 2 /\ n > 1 => n = 2
        OBVIOUS
      <3>2. Len(out) <= 2
        BY DEF TypeOK
      <3>3. Len(out) = 2
        BY <1>0, <2>2, <3>1, <3>2
      <3>4. Len(out') = 1 /\ out'[1] = out[2]
        BY <1>0, <2>2, <3>3, TailOfTwo
      <3> QED
        BY <3>3, <3>4 DEF OutShape
    <2> QED
      BY <1>4, <2>1, <2>2 DEF WriteChunk, Goto
  <1>5. CASE WriteFails \/ GoodbyeTimeout \/ Depart
    BY <1>1, <1>5 DEF WriteFails, GoodbyeTimeout, Depart, Goto
  <1>6. CASE PeerMoves \/ Deliver \/ Cancel \/ TimerFires
    BY <1>2, <1>6 DEF PeerMoves, PeerPuts, PeerRead, PeerClose, PeerWedge,
                      Deliver, Cancel, TimerFires, control
  <1> QED
    BY <1>3, <1>4, <1>5, <1>6 DEF Step, SessionStep

\* Every step keeps the stream well framed.
LEMMA WireStep ==
  ASSUME TypeOK, OutShape, Wire, Step
  PROVE  Wire'
  <1>0. /\ s2c \in Seq(Chunks) /\ Len(s2c) \in Nat
        /\ out \in Seq(Chunks) /\ Len(out) \in Nat /\ Len(out) <= 2
        /\ pc \in Writing <=> out # <<>>
        /\ out = <<>> <=> Len(out) = 0
        /\ s2c = <<>> <=> Len(s2c) = 0
    BY SeqFacts DEF TypeOK
  <1>1. CASE \/ HelloShutdown \/ ReadHello \/ HelloFails
             \/ PollShutdown \/ PollReader \/ PollMailbox \/ PollTick
    <2>1. /\ Len(out) # 1 /\ Len(out') # 1 /\ UNCHANGED <<s2c, peer, cut>>
          /\ pc \in {"hello", "loop"}
      BY <1>1, SelectSteps
    <2>2. ~cut
      BY <2>1 DEF Wire
    <2> QED
      BY <2>1, <2>2 DEF Wire, StreamWellFramed
  <1>2. CASE WriteChunk
    <2>0. pc \in Writing /\ Len(out) # 0 /\ out # <<>> /\ Head(out) = out[1]
          /\ Head(out) \in Chunks /\ UNCHANGED <<peer, cut>>
      BY <1>0, <1>2, SeqFacts DEF WriteChunk, environment
    <2>1. ~cut
      BY <2>0 DEF Wire, Writing
    <2>2. \/ Len(out) = 1 /\ out' = <<>> /\ Len(out') = 0
          \/ Len(out) = 2 /\ Len(out') = 1 /\ out'[1] = out[2]
      <3>1. CASE Len(out) = 1
        BY <1>2, <3>1 DEF WriteChunk, Goto
      <3>2. CASE Len(out) # 1
        <4>1. \A n \in Nat : n <= 2 /\ n # 1 /\ n # 0 => n = 2 /\ n > 1
          OBVIOUS
        <4>2. Len(out) = 2 /\ Len(out) > 1
          BY <1>0, <2>0, <3>2, <4>1
        <4>3. out' = Tail(out)
          BY <1>2, <3>2, <4>2 DEF WriteChunk
        <4> QED
          BY <1>0, <4>2, <4>3, TailOfTwo
      <3> QED
        BY <3>1, <3>2
    <2>3. CASE peer = "closed" /\ s2c' = s2c
      <3>1. s2c' = <<>> /\ Len(s2c') = 0
        BY <1>0, <2>3 DEF Wire
      <3> QED
        BY <2>0, <2>1, <3>1 DEF Wire, StreamWellFramed
    <2>4. CASE peer # "closed" /\ s2c' = Append(s2c, Head(out))
      <3>1. /\ Len(s2c') = Len(s2c) + 1 /\ s2c'[Len(s2c) + 1] = out[1]
            /\ \A k \in 1 .. Len(s2c) : s2c'[k] = s2c[k]
        BY <1>0, <2>0, <2>4, SeqFacts
      <3>2. IF Len(out') = 1
            THEN out[1] = [frame |-> out'[1].frame, part |-> 1]
            ELSE out[1].part = 2
        <4>1. CASE Len(out) = 1
          BY <2>2, <4>1 DEF OutShape
        <4>2. CASE Len(out) = 2
          <5>1. out[1] = [frame |-> out[1].frame, part |-> out[1].part]
            BY <2>0 DEF Chunks
          <5> QED
            BY <2>2, <4>2, <5>1 DEF OutShape
        <4> QED
          BY <2>2, <4>1, <4>2
      <3>3. ASSUME s2c # <<>>
            PROVE  IF s2c[Len(s2c)].part = 1
                   THEN out[1] = [frame |-> s2c[Len(s2c)].frame, part |-> 2]
                   ELSE out[1].part = 1
        <4>1. CASE Len(out) = 1
          <5>1. s2c[Len(s2c)] = [frame |-> out[1].frame, part |-> 1]
            BY <2>1, <3>3, <4>1 DEF Wire
          <5>2. out[1] = [frame |-> out[1].frame, part |-> 2]
            BY <2>0, <4>1 DEF Chunks, OutShape
          <5> QED
            BY <5>1, <5>2
        <4>2. CASE Len(out) = 2
          BY <2>1, <3>3, <4>2 DEF Wire, OutShape
        <4> QED
          BY <2>2, <4>1, <4>2
      <3>4. ASSUME NEW k \in 1 .. Len(s2c') - 1
            PROVE  IF s2c'[k].part = 1
                   THEN s2c'[k + 1] = [frame |-> s2c'[k].frame, part |-> 2]
                   ELSE s2c'[k + 1].part = 1
        <4>1. CASE k = Len(s2c)
          BY <1>0, <3>1, <3>3, <4>1
        <4>2. CASE k # Len(s2c)
          <5>1. k \in 1 .. Len(s2c) - 1 /\ k + 1 \in 1 .. Len(s2c)
                /\ k \in 1 .. Len(s2c)
            BY <1>0, <3>1, <4>2
          <5> QED
            BY <3>1, <5>1 DEF Wire, StreamWellFramed
        <4> QED
          BY <4>1, <4>2
      <3>5. StreamWellFramed'
        BY <3>4 DEF StreamWellFramed
      <3>6. s2c'[Len(s2c')] = out[1]
        BY <3>1
      <3> QED
        BY <2>0, <2>1, <2>4, <3>2, <3>5, <3>6 DEF Wire
    <2> QED
      BY <1>2, <2>3, <2>4 DEF WriteChunk
  <1>3. CASE WriteFails \/ GoodbyeTimeout
    <2>1. /\ UNCHANGED <<s2c, peer>> /\ out' = <<>> /\ Len(out') # 1
          /\ pc' \in {"departing", "done"}
      BY <1>3 DEF WriteFails, GoodbyeTimeout, Goto, environment
    <2>2. cut' = (cut \/ Len(out) = 1)
      BY <1>3 DEF WriteFails, GoodbyeTimeout
    <2>3. ~cut' => ~cut /\ Len(out) # 1
      BY <2>2
    <2> QED
      BY <2>1, <2>3 DEF Wire, StreamWellFramed
  <1>4. CASE Depart
    <2>1. /\ UNCHANGED <<s2c, peer, cut>> /\ Len(out') # 1
          /\ pc' = "done" /\ pc = "departing"
      BY <1>4 DEF Depart, Goto, environment, history
    <2>2. Len(out) # 1
      BY <1>0, <2>1 DEF Writing
    <2> QED
      BY <2>1, <2>2 DEF Wire, StreamWellFramed
  <1>5. CASE PeerRead
    <2>1. s2c # <<>> /\ s2c' = Tail(s2c) /\ UNCHANGED <<pc, out, peer, cut>>
          /\ peer # "closed"
      BY <1>5 DEF PeerRead, control, environment, history
    <2>2. /\ Len(s2c') = Len(s2c) - 1 /\ Len(s2c) # 0
          /\ \A k \in 1 .. Len(s2c) - 1 : s2c'[k] = s2c[k + 1]
          /\ s2c' = <<>> <=> Len(s2c') = 0
      BY <1>0, <2>1, SeqFacts
    <2>3. ASSUME NEW k \in 1 .. Len(s2c') - 1
          PROVE  IF s2c'[k].part = 1
                 THEN s2c'[k + 1] = [frame |-> s2c'[k].frame, part |-> 2]
                 ELSE s2c'[k + 1].part = 1
      <3>1. /\ k \in 1 .. Len(s2c) - 1 /\ k + 1 \in 1 .. Len(s2c) - 1
            /\ s2c'[k] = s2c[k + 1] /\ s2c'[k + 1] = s2c[(k + 1) + 1]
        BY <1>0, <2>2
      <3> QED
        BY <3>1 DEF Wire, StreamWellFramed
    <2>4. ASSUME s2c' # <<>> PROVE s2c'[Len(s2c')] = s2c[Len(s2c)]
      <3>1. Len(s2c) - 1 \in 1 .. Len(s2c) - 1 /\ (Len(s2c) - 1) + 1 = Len(s2c)
        BY <1>0, <2>2, <2>4
      <3> QED
        BY <2>2, <3>1
    <2>5. StreamWellFramed'
      BY <2>3 DEF StreamWellFramed
    <2> QED
      BY <2>1, <2>4, <2>5 DEF Wire
  <1>6. CASE PeerClose
    <2>1. s2c' = <<>> /\ Len(s2c') = 0 /\ UNCHANGED <<pc, cut>>
      BY <1>6 DEF PeerClose, control, history
    <2> QED
      BY <2>1 DEF Wire, StreamWellFramed
  <1>7. ASSUME UNCHANGED <<s2c, pc, out, cut>>,
               peer' = peer \/ peer' # "closed"
        PROVE  Wire'
    BY <1>7 DEF Wire, StreamWellFramed
  <1>8. CASE \/ PeerWedge \/ Deliver \/ Cancel \/ TimerFires
             \/ \E f \in ClientFrames : PeerPuts(f)
    BY <1>7, <1>8 DEF PeerWedge, Deliver, Cancel, TimerFires, PeerPuts,
                      control, environment, history
  <1> QED
    BY <1>1, <1>2, <1>3, <1>4, <1>5, <1>6, <1>8
    DEF Step, SessionStep, PeerMoves

-----------------------------------------------------------------------------
(* What the peer and the room are told.                                    *)

\* Every step keeps claim, announcement and first frame in line with the
\* place the session has reached.
LEMMA ProgressStep ==
  ASSUME TypeOK, OutShape, Progress, Step
  PROVE  Progress'
  <1>0. /\ out \in Seq(Chunks) /\ Len(out) \in Nat /\ Len(out) <= 2
        /\ out # <<>> => Head(out) = out[1]
        /\ pc \in Writing <=> out # <<>>
    BY SeqFacts DEF TypeOK
  <1>1. CASE HelloShutdown \/ HelloFails
    <2>1. /\ pc = "hello" /\ pc' \in {"hello", "done"}
          /\ UNCHANGED <<first, claim, announced>>
      BY <1>1 DEF HelloShutdown, HelloFails, Goto, lifecycle, history
    <2> QED
      BY <2>1 DEF Progress, Serving
  <1>2. CASE ReadHello
    <2>1. /\ pc = "hello" /\ UNCHANGED <<first, announced>>
      BY <1>2 DEF ReadHello, ArmWins
    <2>2. CASE claim' = "held" /\ StartWrite("Welcome", "welcoming")
      <3>1. pc' = "welcoming" /\ out'[1].frame = "Welcome"
        BY <2>2, WriteStarts DEF ServerFrames
      <3> QED
        BY <2>1, <2>2, <3>1 DEF Progress, Serving
    <2>3. CASE claim' = claim /\ StartWrite("Rejected", "rejecting")
      <3>1. pc' = "rejecting" /\ out'[1].frame = "Rejected"
        BY <2>3, WriteStarts DEF ServerFrames
      <3> QED
        BY <2>1, <2>3, <3>1 DEF Progress, Serving
    <2>4. CASE claim' = claim /\ Goto("done")
      BY <2>1, <2>4 DEF Progress, Serving, Goto
    <2> QED
      BY <1>2, <2>2, <2>3, <2>4 DEF ReadHello, Accept
  <1>3. ASSUME pc \in Serving, pc' \in Serving,
               UNCHANGED <<first, claim, announced>>
        PROVE  Progress'
    BY <1>3 DEF Progress, Serving
  <1>4. CASE PollShutdown \/ PollReader \/ PollMailbox \/ PollTick
    <2>1. pc = "loop" /\ UNCHANGED <<first, claim, announced>>
      BY <1>4 DEF PollShutdown, PollReader, PollMailbox, PollTick, lifecycle,
                  history, ArmWins
    <2>2. pc' \in Serving
      BY <1>4 DEF PollShutdown, PollReader, PollMailbox, PollTick, HandleFrame,
                  Goto, StartWrite, Pending, Serving
    <2> QED
      BY <1>3, <2>1, <2>2 DEF Serving
  <1>5. CASE WriteChunk
    <2>1. /\ pc \in Writing /\ claim' = claim /\ Head(out) = out[1]
          /\ first' = IF first = "none" THEN out[1].frame ELSE first
      BY <1>0, <1>5 DEF WriteChunk
    <2>2. \A n \in Nat : n > 1 /\ n <= 2 => n = 2
      OBVIOUS
    <2>3. \/ /\ Len(out) = 1 /\ pc' = AfterWrite /\ Welcomed
          \/ /\ Len(out) = 2 /\ out' = Tail(out)
             /\ UNCHANGED <<pc, announced>>
      BY <1>0, <1>5, <2>2 DEF WriteChunk, Goto
    <2>4. CASE Len(out) = 1 /\ pc' = AfterWrite /\ Welcomed
      <3>1. CASE pc = "rejecting"
        <4>1. pc' = "done" /\ announced' = announced
          BY <2>4, <3>1 DEF AfterWrite, Welcomed
        <4> QED
          BY <2>1, <3>1, <4>1 DEF Progress, Serving
      <3>2. CASE pc = "welcoming"
        <4>1. pc' = "loop" /\ announced' = "joined"
          BY <2>4, <3>2 DEF AfterWrite, Welcomed
        <4> QED
          BY <2>1, <3>2, <4>1 DEF Progress, Serving
      <3>3. CASE pc \notin {"rejecting", "welcoming"}
        <4>1. pc \in Serving /\ pc' \in Serving /\ announced' = announced
          BY <2>1, <2>4, <3>3 DEF AfterWrite, Welcomed, Serving, Writing
        <4>2. first = "Welcome"
          BY <4>1 DEF Progress
        <4> QED
          BY <1>3, <2>1, <4>1, <4>2
      <3> QED
        BY <3>1, <3>2, <3>3
    <2>5. CASE /\ Len(out) = 2 /\ out' = Tail(out) /\ UNCHANGED <<pc, announced>>
      <3>1. out'[1] = out[2]
        BY <1>0, <2>5, TailOfTwo
      <3>2. out'[1].frame = out[1].frame
        BY <2>5, <3>1 DEF OutShape
      <3>3. CASE pc = "rejecting"
        BY <2>1, <2>5, <3>2, <3>3 DEF Progress, Serving
      <3>4. CASE pc = "welcoming"
        BY <2>1, <2>5, <3>2, <3>4 DEF Progress, Serving
      <3>5. CASE pc \notin {"rejecting", "welcoming"}
        <4>1. pc \in Serving
          BY <2>1, <3>5 DEF Serving, Writing
        <4>2. first = "Welcome"
          BY <4>1 DEF Progress
        <4> QED
          BY <1>3, <2>1, <2>5, <4>1, <4>2
      <3> QED
        BY <3>3, <3>4, <3>5
    <2> QED
      BY <2>3, <2>4, <2>5
  <1>6. CASE WriteFails
    <2>1. pc \in Writing /\ UNCHANGED <<announced, first>>
      BY <1>6 DEF WriteFails
    <2>2. CASE pc \in {"rejecting", "welcoming"}
      <3>1. pc' = "done" /\ claim' = IF claim = "held" THEN "released" ELSE claim
        BY <1>6, <2>2 DEF WriteFails, Goto
      <3> QED
        BY <2>1, <2>2, <3>1 DEF Progress, Serving
    <2>3. CASE pc \notin {"rejecting", "welcoming"}
      <3>1. pc' = "departing" /\ claim' = claim
        BY <1>6, <2>3 DEF WriteFails, Goto
      <3> QED
        BY <1>3, <2>1, <2>3, <3>1 DEF Writing, Serving
    <2> QED
      BY <2>2, <2>3
  <1>7. CASE GoodbyeTimeout
    <2>1. pc = "goodbye" /\ pc' = "departing"
          /\ UNCHANGED <<first, claim, announced>>
      BY <1>7 DEF GoodbyeTimeout, Goto, lifecycle
    <2> QED
      BY <1>3, <2>1 DEF Serving
  <1>8. CASE Depart
    <2>1. /\ pc = "departing" /\ pc' = "done" /\ first' = first
          /\ claim' = "released" /\ announced' = "departed"
      BY <1>8 DEF Depart, Goto, history
    <2> QED
      BY <2>1 DEF Progress, Serving
  <1>9. CASE PeerMoves \/ Deliver \/ Cancel \/ TimerFires
    <2>1. UNCHANGED <<pc, out, first, claim, announced>>
      BY <1>9 DEF PeerMoves, PeerPuts, PeerRead, PeerClose, PeerWedge,
                  Deliver, Cancel, TimerFires, control, lifecycle, history
    <2> QED
      BY <2>1 DEF Progress
  <1> QED
    BY <1>1, <1>2, <1>4, <1>5, <1>6, <1>7, <1>8, <1>9 DEF Step, SessionStep

-----------------------------------------------------------------------------
(* The biased selects.                                                     *)

\* Every step keeps the priorities of the arms.
LEMMA PrioritiesStep ==
  ASSUME TypeOK, Priorities, Step
  PROVE  Priorities'
  <1>0. late \in Nat /\ overtaken \in Nat /\ pc \in Phases /\ arm \in Arms
    BY DEF TypeOK
  <1>1. \A n \in Nat : n = 0 => Capped(n) = 1
    BY DEF Capped
  \* An arm other than the reader's wins where nothing was overtaken.
  <1>2. ASSUME pc = "loop", arm \in {"mailbox", "tick"}, ArmWins(FALSE),
               arm' = "shutdown", pc' # "hello",
               UNCHANGED <<c2s, peer, cancelled>>
        PROVE  Priorities'
    <2>1. late = 0 /\ overtaken = 0
      BY <1>2 DEF Priorities
    <2>2. /\ overtaken' = IF c2s # <<>> THEN 1 ELSE 0
          /\ late' = IF cancelled THEN 1 ELSE 0
      BY <1>0, <1>1, <1>2, <2>1 DEF ArmWins
    <2> QED
      BY <1>2, <2>2 DEF Priorities, Readable
  \* The reader's arm wins.
  <1>3. ASSUME pc \in {"hello", "loop"}, arm = "reader", ArmWins(TRUE),
               arm' = "shutdown", cancelled' = cancelled, pc' # "hello"
        PROVE  Priorities'
    <2>1. late = 0
      BY <1>3 DEF Priorities
    <2>2. overtaken' = 0 /\ late' = IF cancelled THEN 1 ELSE 0
      BY <1>0, <1>1, <1>3, <2>1 DEF ArmWins
    <2> QED
      BY <1>3, <2>2 DEF Priorities
  \* The next arm is polled.
  <1>4. ASSUME pc = "loop", Pending, UNCHANGED <<c2s, peer, cancelled>>,
               UNCHANGED <<late, overtaken>>,
               arm = "shutdown" => ~cancelled,
               arm = "reader" => ~Readable
        PROVE  Priorities'
    <2>1. pc' = pc /\ arm' = NextArm[arm]
      BY <1>4 DEF Pending
    <2>2. arm = "shutdown" => arm' = "reader"
      BY <2>1 DEF NextArm
    <2>3. arm = "tick" => arm' = "shutdown"
      BY <2>1 DEF NextArm
    <2>4. late = 0 \/ (arm = "tick" /\ arm' = "shutdown")
      BY <1>0, <1>4, <2>3 DEF Priorities
    <2>5. overtaken = 0 \/ arm' \in {"shutdown", "reader"}
      BY <1>0, <1>4, <2>2, <2>3 DEF Priorities, Arms
    <2> QED
      BY <1>0, <1>4, <2>1, <2>4, <2>5 DEF Priorities, Readable
  <1>5. ASSUME arm' = "shutdown", UNCHANGED <<late, overtaken, cancelled>>,
               UNCHANGED <<c2s, peer>>
        PROVE  Priorities'
    BY <1>5 DEF Priorities, Readable
  <1>6. CASE HelloShutdown
    <2>1. UNCHANGED <<late, overtaken, cancelled, c2s, peer>>
      BY <1>6 DEF HelloShutdown, history, environment
    <2>2. CASE Goto("done")
      BY <1>5, <2>1, <2>2 DEF Goto, FirstArm
    <2>3. CASE ~cancelled /\ arm' = "reader" /\ pc' = pc
      BY <1>0, <1>6, <2>1, <2>3 DEF HelloShutdown, Priorities, Readable
    <2> QED
      BY <1>6, <2>2, <2>3 DEF HelloShutdown
  <1>7. CASE HelloFails
    <2>1. UNCHANGED <<late, overtaken, cancelled, c2s, peer>>
      BY <1>7 DEF HelloFails, history, environment
    <2>2. arm' = "shutdown"
      BY <1>7 DEF HelloFails, Goto, FirstArm
    <2> QED
      BY <1>5, <2>1, <2>2
  <1>8. CASE ReadHello
    <2>1. /\ pc = "hello" /\ arm = "reader" /\ ArmWins(TRUE)
          /\ cancelled' = cancelled
      BY <1>8 DEF ReadHello, environment
    <2>2. arm' = "shutdown" /\ pc' # "hello"
      BY <1>8 DEF ReadHello, Accept, Goto, StartWrite, FirstArm
    <2> QED
      BY <1>3, <2>1, <2>2
  <1>9. CASE PollShutdown
    <2>1. UNCHANGED <<late, overtaken, cancelled, c2s, peer>>
      BY <1>9 DEF PollShutdown, history, environment
    <2>2. CASE StartWrite("Goodbye", "goodbye")
      BY <1>5, <2>1, <2>2 DEF StartWrite, FirstArm
    <2>3. CASE ~cancelled /\ Pending
      BY <1>4, <1>9, <2>1, <2>3 DEF PollShutdown
    <2> QED
      BY <1>9, <2>2, <2>3 DEF PollShutdown
  <1>10. CASE PollReader
    <2>1. /\ pc = "loop" /\ arm = "reader" /\ UNCHANGED <<cancelled, peer>>
      BY <1>10 DEF PollReader, environment
    <2>2. CASE ArmWins(TRUE) /\ (HandleFrame(Head(c2s)) \/ Goto("departing"))
      <3>1. arm' = "shutdown" /\ pc' # "hello"
        BY <2>2 DEF HandleFrame, Goto, StartWrite, FirstArm
      <3> QED
        BY <1>3, <2>1, <2>2, <3>1
    <2>3. CASE ~Readable /\ Pending /\ UNCHANGED <<c2s, idle, history>>
      BY <1>4, <2>1, <2>3 DEF history
    <2> QED
      BY <1>10, <2>2, <2>3 DEF PollReader
  <1>11. CASE PollMailbox
    <2>1. /\ pc = "loop" /\ arm = "mailbox"
          /\ UNCHANGED <<cancelled, peer, c2s>>
      BY <1>11 DEF PollMailbox, environment
    <2>2. CASE ArmWins(FALSE) /\ StartWrite("Room", "forwarding")
      BY <1>2, <2>1, <2>2 DEF StartWrite, FirstArm
    <2>3. CASE Pending /\ UNCHANGED <<mail, history>>
      BY <1>4, <2>1, <2>3 DEF history
    <2> QED
      BY <1>11, <2>2, <2>3 DEF PollMailbox
  <1>12. CASE PollTick
    <2>1. /\ pc = "loop" /\ arm = "tick" /\ UNCHANGED <<cancelled, peer, c2s>>
      BY <1>12 DEF PollTick, environment
    <2>2. CASE /\ ArmWins(FALSE)
               /\ \/ StartWrite("Error", "idling")
                  \/ StartWrite("Ping", "pinging")
      BY <1>2, <2>1, <2>2 DEF StartWrite, FirstArm
    <2>3. CASE Pending /\ UNCHANGED <<idle, timer, history>>
      BY <1>4, <2>1, <2>3 DEF history
    <2> QED
      BY <1>12, <2>2, <2>3 DEF PollTick
  <1>13. CASE WriteChunk
    <2>1. UNCHANGED <<late, overtaken, cancelled, c2s, peer>>
      BY <1>13 DEF WriteChunk, environment
    <2>2. CASE Goto(AfterWrite)
      BY <1>5, <2>1, <2>2 DEF Goto, FirstArm
    <2>3. CASE UNCHANGED <<pc, arm>>
      BY <2>1, <2>3 DEF Priorities, Readable
    <2> QED
      BY <1>13, <2>2, <2>3 DEF WriteChunk
  <1>14. CASE WriteFails \/ GoodbyeTimeout \/ Depart
    <2>1. UNCHANGED <<late, overtaken, cancelled, c2s, peer>>
      BY <1>14 DEF WriteFails, GoodbyeTimeout, Depart, environment, history
    <2>2. arm' = "shutdown"
      BY <1>14 DEF WriteFails, GoodbyeTimeout, Depart, Goto, FirstArm
    <2> QED
      BY <1>5, <2>1, <2>2
  \* Others make the socket readable, or leave it so.
  <1>15. ASSUME UNCHANGED <<pc, arm, late, overtaken>>,
                cancelled => cancelled', Readable => Readable'
         PROVE  Priorities'
    BY <1>15 DEF Priorities
  <1>16. CASE PeerMoves \/ Deliver \/ Cancel \/ TimerFires
    <2>1. UNCHANGED <<pc, arm, late, overtaken>>
      BY <1>16 DEF PeerMoves, PeerPuts, PeerRead, PeerClose, PeerWedge,
                   Deliver, Cancel, TimerFires, control, history
    <2>2. cancelled => cancelled'
      BY <1>16 DEF PeerMoves, PeerPuts, PeerRead, PeerClose, PeerWedge,
                   Deliver, Cancel, TimerFires, environment
    <2>3. ASSUME NEW f \in ClientFrames, PeerPuts(f) PROVE Readable'
      <3>1. c2s' = Append(c2s, f) /\ c2s \in Seq(ClientFrames)
        BY <2>3 DEF PeerPuts, TypeOK
      <3>2. c2s' # <<>>
        BY <3>1
      <3> QED
        BY <3>2 DEF Readable
    <2>4. ASSUME PeerClose PROVE Readable'
      BY <2>4 DEF PeerClose, Readable
    <2>5. ASSUME PeerRead \/ PeerWedge \/ Deliver \/ Cancel \/ TimerFires
          PROVE  Readable => Readable'
      BY <2>5 DEF PeerRead, PeerWedge, Deliver, Cancel, TimerFires, Readable,
                  environment
    <2> QED
      BY <1>15, <1>16, <2>1, <2>2, <2>3, <2>4, <2>5 DEF PeerMoves
  <1> QED
    BY <1>6, <1>7, <1>8, <1>9, <1>10, <1>11, <1>12, <1>13, <1>14, <1>16
    DEF Step, SessionStep

-----------------------------------------------------------------------------
(* The theorems.                                                           *)

\* The invariant holds when the connection has just been accepted ...
LEMMA SessionInit == Init => SessionInv
  <1> SUFFICES ASSUME Init PROVE SessionInv
    OBVIOUS
  <1>0. out = <<>> /\ Len(out) = 0 /\ s2c = <<>> /\ Len(s2c) = 0
    BY DEF Init
  <1>1. TypeOK
    <2>1. pc \in Phases /\ arm \in Arms /\ pc \notin Writing
      BY DEF Init, Phases, Writing, Arms, FirstArm
    <2>2. /\ out \in Seq(Chunks) /\ Len(out) <= 2
          /\ c2s \in Seq(ClientFrames) /\ Len(c2s) <= InBuffer
          /\ s2c \in Seq(Chunks) /\ Len(s2c) <= OutBuffer
      BY SessionAssumption DEF Init
    <2>3. /\ mail \in 0 .. QueueDepth /\ idle \in 0 .. IdleTicks
          /\ sent \in 0 .. MaxFrames /\ delivered \in 0 .. MaxMail
          /\ overtaken \in Nat /\ late \in Nat
      BY SessionAssumption DEF Init
    <2>4. timer \in BOOLEAN /\ cancelled \in BOOLEAN /\ cut \in BOOLEAN
      BY DEF Init
    <2> QED
      BY <1>0, <2>1, <2>2, <2>3, <2>4 DEF Init, TypeOK
  <1>2. OutShape /\ Progress
    BY <1>0 DEF Init, OutShape, Progress, Serving
  <1>3. Wire
    BY <1>0 DEF Init, Wire, StreamWellFramed
  <1>4. Priorities
    BY DEF Init, Priorities, FirstArm
  <1> QED
    BY <1>1, <1>2, <1>3, <1>4 DEF SessionInv

\* ... and every step keeps it.
LEMMA SessionKeeps == SessionInv /\ [Step]_vars => SessionInv'
  <1> SUFFICES ASSUME SessionInv, [Step]_vars PROVE SessionInv'
    OBVIOUS
  <1>1. CASE Step
    BY <1>1, TypeStep, OutShapeStep, WireStep, ProgressStep, PrioritiesStep
    DEF SessionInv
  <1>2. CASE UNCHANGED vars
    <2>1. TypeOK'
      BY <1>2, TypeStep DEF SessionInv
    <2>2. OutShape' /\ Wire' /\ Progress' /\ Priorities'
      BY <1>2 DEF SessionInv, OutShape, Wire, StreamWellFramed, Progress,
                  Priorities, Readable, vars, control, lifecycle, environment,
                  history
    <2> QED
      BY <2>1, <2>2 DEF SessionInv
  <1> QED
    BY <1>1, <1>2

\* The invariant of the session, under any peer.
THEOREM Invariance == Spec => []SessionInv
  <1>1. SessionInv /\ [Next]_vars => SessionInv'
    BY NextIsStep, SessionKeeps DEF SessionInv
  <1> QED
    BY <1>1, SessionInit, PTL DEF Spec

\* Types; a write is in progress exactly in the phases that await one, and
\* neither mailbox nor socket buffers exceed their sizes.
THEOREM TypeCorrect == Spec => []TypeOK
  <1>1. SessionInv => TypeOK
    BY DEF SessionInv
  <1> QED
    BY <1>1, Invariance, PTL

\* The answer to the Hello comes first, the room hears of nobody before the
\* Welcome is out, and nothing follows a Rejected.
THEOREM AnswerComesFirst == Spec => []HandshakeFirst
  <1>1. SessionInv => HandshakeFirst
    <2> SUFFICES ASSUME SessionInv PROVE HandshakeFirst
      OBVIOUS
    <2>1. pc \in {"hello", "rejecting", "welcoming", "done"} \cup Serving
      BY DEF SessionInv, TypeOK, Phases, Writing, Serving
    <2> QED
      BY <2>1 DEF SessionInv, Progress, HandshakeFirst, Serving
  <1> QED
    BY <1>1, Invariance, PTL

\* Whatever is written, cut short or read, the peer's decoder never meets
\* half a frame followed by another.
THEOREM WellFramed == Spec => []StreamWellFramed
  <1>1. SessionInv => StreamWellFramed
    BY DEF SessionInv, Wire
  <1> QED
    BY <1>1, Invariance, PTL

\* The token waits for at most one arm whose turn had come, and an inbound
\* frame for at most one other arm.
THEOREM PrioritiesHold == Spec => []SelectPriorities
  <1>1. SessionInv => SelectPriorities
    BY DEF SessionInv, Priorities, SelectPriorities
  <1> QED
    BY <1>1, Invariance, PTL

\* However the session ends, the claim is released and the departure of a
\* user the room knows is announced.
THEOREM ExitIsClean == Spec => []CleanExit
  <1>1. SessionInv => CleanExit
    <2> SUFFICES ASSUME SessionInv PROVE CleanExit
      OBVIOUS
    <2>1. pc \in {"hello", "rejecting", "welcoming", "done"} \cup Serving
      BY DEF SessionInv, TypeOK, Phases, Writing, Serving
    <2> QED
      BY <2>1 DEF SessionInv, Progress, CleanExit, Serving
  <1> QED
    BY <1>1, Invariance, PTL

\* Nothing is written after a frame that was cut short.
THEOREM CutIsLast == Spec => NothingAfterCut
  <1>1. ASSUME SessionInv, [Next]_vars, cut PROVE Len(s2c') <= Len(s2c)
    <2>0. s2c \in Seq(Chunks) /\ Len(s2c) \in Nat /\ pc \in {"departing", "done"}
      BY <1>1, SeqFacts DEF SessionInv, TypeOK, Wire
    <2>1. ASSUME s2c' = s2c PROVE Len(s2c') <= Len(s2c)
      BY <2>0, <2>1
    <2>2. ASSUME s2c # <<>>, s2c' = Tail(s2c) PROVE Len(s2c') <= Len(s2c)
      BY <2>0, <2>2, SeqFacts
    <2>3. ASSUME s2c' = <<>> PROVE Len(s2c') <= Len(s2c)
      BY <2>0, <2>3
    <2>4. [Step]_vars
      BY <1>1, NextIsStep DEF SessionInv
    <2>5. \/ s2c' = s2c \/ (s2c # <<>> /\ s2c' = Tail(s2c)) \/ s2c' = <<>>
      <3>1. ASSUME SessionStep PROVE s2c' = s2c
        BY <2>0, <3>1
        DEF SessionStep, HelloShutdown, ReadHello, HelloFails, PollShutdown,
            PollReader, PollMailbox, PollTick, WriteChunk, Writing, WriteFails,
            GoodbyeTimeout, Depart
      <3>2. ASSUME PeerMoves PROVE <2>5
        BY <3>2 DEF PeerMoves, PeerPuts, PeerRead, PeerClose, PeerWedge
      <3>3. ASSUME Deliver \/ Cancel \/ TimerFires \/ UNCHANGED vars
            PROVE  s2c' = s2c
        BY <3>3 DEF Deliver, Cancel, TimerFires, vars
      <3> QED
        BY <2>4, <3>1, <3>2, <3>3 DEF Step
    <2> QED
      BY <2>1, <2>2, <2>3, <2>5
  <1>2. ASSUME SessionInv, [Next]_vars
        PROVE  [cut => Len(s2c') <= Len(s2c)]_vars
    BY <1>1, <1>2
  <1> QED
    BY <1>2, Invariance, PTL DEF Spec, NothingAfterCut

=============================================================================
