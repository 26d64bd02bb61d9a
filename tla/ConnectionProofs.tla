-------------------------- MODULE ConnectionProofs --------------------------
(***************************************************************************)
(* Proofs about Connection, the client and its session, for every size of  *)
(* the buffers and any number of lines.                                    *)
(***************************************************************************)
EXTENDS Connection, SessionProofs

-----------------------------------------------------------------------------
(* The inductive invariant.                                                *)

\* Types of the client; it holds its socket until it hangs up.
ClientOK ==
  /\ cpc \in ClientWriting \cup {"awaiting", "repl", "closing", "lingering",
                               "exit"}
  /\ half \in ServerFrames \cup {"none"}
  /\ told \in BOOLEAN /\ reset \in BOOLEAN
  /\ parting \in {"none", "goodbye", "unsent"}
  /\ peer = IF HungUp THEN "closed" ELSE "open"

\* The client's decoder holds the first half of the frame whose second half
\* comes next, in transit or still to be written, or which was cut short.
Decoder ==
  /\ s2c # <<>> => half = IF s2c[1].part = 1 THEN "none" ELSE s2c[1].frame
  /\ (s2c = <<>> /\ peer # "closed") =>
        IF half = "none" THEN Len(out) # 1
        ELSE cut \/ (Len(out) = 1 /\ out[1].frame = half)

\* Before the client has decoded a frame, the first one is what it waits for.
FirstAnswer ==
  /\ cpc \in {"greeting", "awaiting"} =>
       /\ s2c # <<>> => s2c[1].frame = first
       /\ half # "none" => half = first
       /\ (s2c = <<>> /\ half = "none") => first = "none"
  /\ cpc \in {"repl", "sending", "ponging", "leaving"} => first # "none"

\* The client sends one Hello, before anything else.
OneHello ==
  /\ cpc = "greeting" => c2s = <<>> /\ pc \in {"hello", "done"}
  /\ \A i \in 1 .. Len(c2s) :
       c2s[i] \in {"Hello", "BadHello"} => i = 1 /\ pc \in {"hello", "done"}
  /\ pc # "violation"

\* The goodbye of a session that the token has ended is being written, is on
\* its way to the client or has been shown, unless part of it stays unsent.
GoodbyeAhead ==
  \/ told \/ half = "Goodbye" \/ pc = "goodbye"
  \/ \E i \in 1 .. Len(s2c) : s2c[i].frame = "Goodbye"

Goodbye ==
  /\ pc = "goodbye" => out[1].frame = "Goodbye"
  /\ parting # "none" => pc \in {"goodbye", "departing", "done"}
  /\ parting = "goodbye" => first # "none" /\ ~cut
  /\ (parting = "goodbye" /\ peer # "closed") => GoodbyeAhead

\* What each way to end tells of the session and the connection.
Outcome ==
  /\ SidesAgree /\ ToldWhy
  /\ outcome \in {"closed", "unanswered"} => pc = "done"
  /\ outcome = "unanswered" => first = "none"
  /\ outcome \in {"reset", "broken"} => reset
  /\ outcome \in {"running", "left", "killed", "stdin", "rejected", "closed",
                   "unanswered", "truncated", "reset", "broken", "unexpected",
                   "garbled"}

ConnInv ==
  /\ SessionInv /\ ClientOK /\ Decoder /\ FirstAnswer /\ OneHello
  /\ Goodbye /\ Outcome

-----------------------------------------------------------------------------
(* The client as a peer.                                                   *)

\* What the client's steps are to the session.
LEMMA ClientMoves ==
  ASSUME [ConnNext]_allVars
  PROVE  \/ SessionStep \/ Deliver \/ Cancel \/ TimerFires
         \/ \E f \in ClientFrames : PeerPuts(f) /\ UNCHANGED sent
         \/ PeerRead \/ PeerClose \/ UNCHANGED vars
  <1>1. ASSUME ClientWrite
        PROVE  \/ \E f \in ClientFrames : PeerPuts(f) /\ UNCHANGED sent
               \/ UNCHANGED vars
    <2>1. Outgoing \subseteq ClientFrames
      BY DEF Outgoing, ClientFrames
    <2> QED
      BY <1>1, <2>1 DEF ClientWrite
  <1>2. ASSUME PollStdin \/ ReadNothing \/ ClientWriteFails \/ LastLine
        PROVE  UNCHANGED vars
    BY <1>2 DEF PollStdin, ReadNothing, ClientWriteFails, LastLine
  <1>3. ASSUME ReadChunk PROVE PeerRead
    BY <1>3 DEF ReadChunk
  <1>4. ASSUME Close \/ Reset \/ Killed PROVE PeerClose
    BY <1>4 DEF Close, Reset, Killed, HangUp
  <1>5. ASSUME UNCHANGED allVars PROVE UNCHANGED vars
    BY <1>5 DEF allVars
  <1> QED
    BY <1>1, <1>2, <1>3, <1>4, <1>5
    DEF ConnNext, ClientStep, ServerRuns, BothEnded

\* Every step is one the session's invariant survives.
LEMMA ConnStep ==
  ASSUME TypeOK, [ConnNext]_allVars
  PROVE  [Step]_vars
  <1>1. sent \in 0 .. MaxFrames
    BY DEF TypeOK
  <1> QED
    BY <1>1, ClientMoves DEF Step, PeerMoves

\* The session does nothing more once it is done.
LEMMA DoneIsDone ==
  ASSUME SessionStep
  PROVE  pc # "done"
  BY DEF SessionStep, HelloShutdown, ReadHello, HelloFails, PollShutdown,
         PollReader, PollMailbox, PollTick, WriteChunk, WriteFails,
         GoodbyeTimeout, Depart, Writing

\* Every step is of one of these kinds.
LEMMA ConnKinds ==
  ASSUME [ConnNext]_allVars
  PROVE  \/ PollStdin /\ UNCHANGED parting
         \/ ReadChunk /\ UNCHANGED parting
         \/ ReadNothing /\ UNCHANGED parting
         \/ ClientWrite /\ UNCHANGED parting
         \/ ClientWriteFails /\ UNCHANGED parting
         \/ (Close \/ Reset \/ Killed) /\ UNCHANGED parting
         \/ LastLine /\ UNCHANGED parting
         \/ ServerRuns
         \/ (Deliver \/ Cancel \/ TimerFires) /\ UNCHANGED <<client, reset, parting>>
         \/ UNCHANGED allVars
  BY DEF ConnNext, ClientStep, BothEnded

\* The client's own steps: where they lead.
LEMMA ClientSteps ==
  ASSUME ClientOK
  PROVE  /\ PollStdin =>
              /\ cpc = "repl" /\ cpc' \in {"repl", "sending", "leaving", "closing"}
              /\ outcome' \in {outcome, "stdin"}
              /\ UNCHANGED <<vars, half, told, reset>>
         /\ ReadNothing =>
              /\ cpc \in {"awaiting", "repl"}
              /\ cpc' \in {"repl", "closing"} /\ (cpc = "awaiting" => cpc' = "closing")
              /\ s2c = <<>> /\ UNCHANGED <<vars, half, told, reset>>
              /\ outcome' # outcome => pc = "done"
              /\ outcome' \in {outcome, "truncated", "closed", "unanswered"}
              /\ outcome' # outcome /\ outcome' = "truncated" => half # "none"
              /\ outcome' # outcome /\ outcome' = "closed" =>
                   half = "none" /\ cpc = "repl"
              /\ outcome' # outcome /\ outcome' = "unanswered" =>
                   half = "none" /\ cpc = "awaiting"
         /\ ClientWriteFails =>
              /\ cpc \in ClientWriting /\ cpc' = "closing" /\ reset
              /\ outcome' \in {"broken", "left"}
              /\ UNCHANGED <<vars, half, told, reset>>
         /\ (Close \/ Reset \/ Killed) =>
              /\ ~HungUp /\ cpc' \in {"lingering", "exit"} /\ PeerClose
              /\ outcome' \in {outcome, "reset", "killed"}
              /\ outcome' # outcome /\ outcome' = "reset" => reset
              /\ UNCHANGED <<half, told, reset>>
         /\ LastLine =>
              /\ cpc = "lingering" /\ cpc' = "exit" /\ outcome' = outcome
              /\ UNCHANGED <<vars, half, told, reset>>
  <1>1. PollStdin =>
              /\ cpc = "repl" /\ cpc' \in {"repl", "sending", "leaving", "closing"}
              /\ outcome' \in {outcome, "stdin"}
              /\ UNCHANGED <<vars, half, told, reset>>
    <2> SUFFICES ASSUME PollStdin
                 PROVE  /\ cpc' \in {"repl", "sending", "leaving", "closing"}
                        /\ outcome' \in {outcome, "stdin"}
      BY DEF PollStdin
    <2>1. ASSUME NEW line \in Lines,
                 CASE parse_command(line) = "Send" -> ClientGoto("sending")
                   [] parse_command(line) = "Leave" -> ClientGoto("leaving")
                   [] OTHER -> ClientGoto("repl")
          PROVE  /\ cpc' \in {"repl", "sending", "leaving", "closing"}
                 /\ outcome' \in {outcome, "stdin"}
      BY <2>1 DEF ClientGoto
    <2> QED
      BY <2>1 DEF PollStdin, ClientGoto, Stop
  <1>2. ReadNothing =>
              /\ cpc \in {"awaiting", "repl"}
              /\ cpc' \in {"repl", "closing"} /\ (cpc = "awaiting" => cpc' = "closing")
              /\ s2c = <<>> /\ UNCHANGED <<vars, half, told, reset>>
              /\ outcome' # outcome => pc = "done"
              /\ outcome' \in {outcome, "truncated", "closed", "unanswered"}
              /\ outcome' # outcome /\ outcome' = "truncated" => half # "none"
              /\ outcome' # outcome /\ outcome' = "closed" =>
                   half = "none" /\ cpc = "repl"
              /\ outcome' # outcome /\ outcome' = "unanswered" =>
                   half = "none" /\ cpc = "awaiting"
    BY DEF ReadNothing, Reading, Stop, ClientGoto
  <1>3. ClientWriteFails =>
              /\ cpc \in ClientWriting /\ cpc' = "closing" /\ reset
              /\ outcome' \in {"broken", "left"}
              /\ UNCHANGED <<vars, half, told, reset>>
    BY DEF ClientWriteFails, Stop
  <1>4. (Close \/ Reset \/ Killed) =>
              /\ ~HungUp /\ cpc' \in {"lingering", "exit"} /\ PeerClose
              /\ outcome' \in {outcome, "reset", "killed"}
              /\ outcome' # outcome /\ outcome' = "reset" => reset
              /\ UNCHANGED <<half, told, reset>>
    BY DEF Close, Reset, Killed, HangUp, Reading, HungUp
  <1>5. LastLine =>
              /\ cpc = "lingering" /\ cpc' = "exit" /\ outcome' = outcome
              /\ UNCHANGED <<vars, half, told, reset>>
    BY DEF LastLine
  <1> QED
    BY <1>1, <1>2, <1>3, <1>4, <1>5

\* socket.send: the frame enters the connection or is lost with the session;
\* the client goes on after it.
LEMMA WriteSteps ==
  ASSUME ClientWrite
  PROVE  /\ cpc \in ClientWriting
         /\ cpc = "greeting" => cpc' = "awaiting" /\ outcome' = outcome
         /\ cpc = "leaving" => cpc' = "closing" /\ outcome' = "left"
         /\ cpc \in {"sending", "ponging"} => cpc' = "repl" /\ outcome' = outcome
         /\ UNCHANGED <<half, told>> /\ reset' \in {reset, TRUE}
         /\ \/ \E f \in ClientFrames : PeerPuts(f)
                 /\ (cpc # "greeting" => f \notin {"Hello", "BadHello"})
            \/ UNCHANGED vars
  <1>1. \A f \in Outgoing : /\ f \in ClientFrames
                            /\ cpc # "greeting" => f \notin {"Hello", "BadHello"}
    BY DEF Outgoing, ClientFrames
  <1>2. \/ \E f \in ClientFrames : PeerPuts(f)
             /\ (cpc # "greeting" => f \notin {"Hello", "BadHello"})
        \/ UNCHANGED vars
    BY <1>1 DEF ClientWrite
  <1>3. /\ cpc \in ClientWriting
        /\ cpc = "greeting" => cpc' = "awaiting" /\ outcome' = outcome
        /\ cpc = "leaving" => cpc' = "closing" /\ outcome' = "left"
        /\ cpc \in {"sending", "ponging"} => cpc' = "repl" /\ outcome' = outcome
        /\ UNCHANGED <<half, told>> /\ reset' \in {reset, TRUE}
    BY DEF ClientWrite, AfterSend, ClientGoto, Stop, ClientWriting
  <1> QED
    BY <1>2, <1>3

\* socket.next: with the decoder in step with the stream, a chunk starts a
\* frame or completes it.
LEMMA ReadSteps ==
  ASSUME SessionInv, ClientOK, Decoder, ReadChunk
  PROVE  /\ cpc \in {"awaiting", "repl"} /\ PeerRead /\ reset' = reset
         /\ s2c # <<>> /\ s2c[1] \in Chunks
         /\ \/ /\ s2c[1].part = 1 /\ half' = s2c[1].frame
               /\ UNCHANGED <<cpc, told, outcome>>
            \/ /\ s2c[1].part = 2 /\ half = s2c[1].frame /\ half' = "none"
               /\ told' = (told \/ s2c[1].frame = "Goodbye")
               /\ cpc' \in {"repl", "ponging", "closing"}
               /\ outcome' \in {outcome, "rejected", "unexpected"}
               /\ (cpc = "awaiting" /\ cpc' # "closing") => cpc' = "repl"
               /\ outcome' # outcome /\ outcome' = "unexpected" =>
                    /\ cpc = "awaiting"
                    /\ s2c[1].frame \notin {"Welcome", "Rejected"}
  <1>1. cpc \in {"awaiting", "repl"} /\ PeerRead /\ s2c # <<>> /\ reset' = reset
    BY DEF ReadChunk, Reading, PeerRead
  <1>2. s2c \in Seq(Chunks)
    BY DEF SessionInv, TypeOK
  <1>3. Head(s2c) = s2c[1] /\ s2c[1] \in Chunks
    BY <1>1, <1>2, SeqFacts
  <1>4. half = IF s2c[1].part = 1 THEN "none" ELSE s2c[1].frame
    BY <1>1 DEF Decoder
  <1>5. CASE s2c[1].part = 1 /\ half' = s2c[1].frame
             /\ UNCHANGED <<cpc, carm, told, outcome>>
    BY <1>1, <1>3, <1>5
  <1>6. CASE /\ s2c[1].part = 2 /\ half = s2c[1].frame /\ half' = "none"
             /\ told' = (told \/ s2c[1].frame = "Goodbye")
             /\ IF cpc = "repl" THEN ShowFrame(s2c[1].frame)
                                ELSE FirstFrame(s2c[1].frame)
    <2>1. CASE cpc = "repl"
      <3>1. /\ cpc' \in {"repl", "ponging", "closing"}
            /\ outcome' \in {outcome, "rejected"}
        BY <1>6, <2>1 DEF ShowFrame, ClientGoto, Stop
      <3> QED
        BY <1>1, <1>3, <1>6, <2>1, <3>1
    <2>2. CASE cpc # "repl"
      <3>1. \/ cpc' = "repl" /\ outcome' = outcome
            \/ cpc' = "closing" /\ outcome' = "rejected"
            \/ /\ cpc' = "closing" /\ outcome' = "unexpected"
               /\ s2c[1].frame \notin {"Welcome", "Rejected"}
        BY <1>6, <2>2 DEF FirstFrame, ClientGoto, Stop
      <3> QED
        BY <1>1, <1>3, <1>6, <2>2, <3>1
    <2> QED
      BY <2>1, <2>2
  <1> QED
    BY <1>3, <1>4, <1>5, <1>6 DEF ReadChunk

\* A chunk is written: what it is and where it goes.
LEMMA ChunkWritten ==
  ASSUME SessionInv, WriteChunk
  PROVE  /\ pc \in Writing /\ ~cut /\ out[1] \in Chunks
         /\ UNCHANGED <<peer, cut, c2s>>
         /\ first' = IF first = "none" THEN out[1].frame ELSE first
         /\ \/ Len(out) = 1 /\ Len(out') = 0 /\ out[1].part = 2 /\ pc' = AfterWrite
            \/ /\ Len(out) = 2 /\ Len(out') = 1 /\ out[1].part = 1
               /\ out'[1].frame = out[1].frame /\ UNCHANGED <<pc, timer>>
         /\ \/ peer = "closed" /\ s2c' = s2c
            \/ /\ peer # "closed"
               /\ s2c' # <<>> /\ Len(s2c') = Len(s2c) + 1
               /\ s2c'[Len(s2c) + 1] = out[1]
               /\ \A i \in 1 .. Len(s2c) : s2c'[i] = s2c[i]
               /\ s2c'[1] = IF s2c = <<>> THEN out[1] ELSE s2c[1]
  <1>0. /\ s2c \in Seq(Chunks) /\ Len(s2c) \in Nat
        /\ out \in Seq(Chunks) /\ Len(out) \in Nat /\ Len(out) <= 2
        /\ pc \in Writing <=> out # <<>>
        /\ out = <<>> <=> Len(out) = 0
        /\ s2c = <<>> <=> Len(s2c) = 0
    BY SeqFacts DEF SessionInv, TypeOK
  <1>1. pc \in Writing /\ out # <<>> /\ Head(out) = out[1]
        /\ out[1] \in Chunks /\ UNCHANGED <<peer, cut, c2s>>
    BY <1>0, SeqFacts DEF WriteChunk, environment
  <1>2. ~cut
    BY <1>1 DEF SessionInv, Wire, Writing
  <1>3. first' = IF first = "none" THEN out[1].frame ELSE first
    BY <1>1 DEF WriteChunk
  <1>4. \/ Len(out) = 1 /\ Len(out') = 0 /\ out[1].part = 2 /\ pc' = AfterWrite
        \/ /\ Len(out) = 2 /\ Len(out') = 1 /\ out[1].part = 1
           /\ out'[1].frame = out[1].frame /\ UNCHANGED <<pc, timer>>
    <2>1. CASE Len(out) = 1
      <3>1. out' = <<>> /\ pc' = AfterWrite
        BY <2>1 DEF WriteChunk, Goto
      <3> QED
        BY <2>1, <3>1 DEF SessionInv, OutShape
    <2>2. CASE Len(out) # 1
      <3>1. \A n \in Nat : n <= 2 /\ n # 1 /\ n # 0 => n = 2 /\ n > 1
        OBVIOUS
      <3>2. Len(out) = 2 /\ Len(out) > 1
        BY <1>0, <1>1, <2>2, <3>1
      <3>3. out' = Tail(out) /\ UNCHANGED <<pc, timer>>
        BY <2>2, <3>2 DEF WriteChunk
      <3>4. Len(out') = 1 /\ out'[1] = out[2]
        BY <1>0, <3>2, <3>3, TailOfTwo
      <3> QED
        BY <3>2, <3>3, <3>4 DEF SessionInv, OutShape
    <2> QED
      BY <2>1, <2>2
  <1>5. CASE peer = "closed" /\ s2c' = s2c
    BY <1>1, <1>2, <1>3, <1>4, <1>5
  <1>6. CASE peer # "closed" /\ s2c' = Append(s2c, Head(out))
    <2>1. /\ Append(s2c, out[1]) \in Seq(Chunks)
          /\ Len(s2c') = Len(s2c) + 1 /\ s2c'[Len(s2c) + 1] = out[1]
          /\ \A i \in 1 .. Len(s2c) : s2c'[i] = s2c[i]
      BY <1>0, <1>1, <1>6, SeqFacts
    <2>2. s2c' # <<>>
      BY <1>0, <1>1, <1>6
    <2>3. CASE s2c = <<>>
      <3>1. s2c'[1] = out[1]
        BY <1>0, <2>1, <2>3
      <3> QED
        BY <1>1, <1>2, <1>3, <1>4, <1>6, <2>1, <2>2, <2>3, <3>1
    <2>4. CASE s2c # <<>>
      <3>1. 1 \in 1 .. Len(s2c)
        BY <1>0, <2>4
      <3>2. s2c'[1] = s2c[1]
        BY <2>1, <3>1
      <3> QED
        BY <1>1, <1>2, <1>3, <1>4, <1>6, <2>1, <2>2, <2>4, <3>2
    <2> QED
      BY <2>3, <2>4
  <1> QED
    BY <1>5, <1>6 DEF WriteChunk

-----------------------------------------------------------------------------
(* Every step keeps the invariant, conjunct by conjunct.                   *)

\* Types of the client.
LEMMA ClientOKStep ==
  ASSUME ConnInv, [ConnNext]_allVars
  PROVE  ClientOK'
  <1>0. SessionInv /\ ClientOK /\ Decoder
    BY DEF ConnInv
  <1>1. /\ told \in BOOLEAN /\ reset \in BOOLEAN
        /\ parting \in {"none", "goodbye", "unsent"}
    BY <1>0 DEF ClientOK
  <1>2. ASSUME UNCHANGED <<peer, half, told, parting>>, reset' \in BOOLEAN,
               cpc \in ClientWriting \cup {"awaiting", "repl", "closing"},
               cpc' \in ClientWriting \cup {"awaiting", "repl", "closing"}
        PROVE  ClientOK'
    BY <1>0, <1>2 DEF ClientOK, ClientWriting, HungUp
  <1>3. ASSUME PollStdin, UNCHANGED parting PROVE ClientOK'
    BY <1>0, <1>1, <1>2, <1>3, ClientSteps DEF vars, environment, ClientWriting
  <1>4. ASSUME ReadNothing, UNCHANGED parting PROVE ClientOK'
    BY <1>0, <1>1, <1>2, <1>4, ClientSteps DEF vars, environment, ClientWriting
  <1>5. ASSUME ClientWriteFails, UNCHANGED parting PROVE ClientOK'
    BY <1>0, <1>1, <1>2, <1>5, ClientSteps DEF vars, environment, ClientWriting
  <1>6. ASSUME ClientWrite, UNCHANGED parting PROVE ClientOK'
    <2>1. peer' = peer
      BY <1>6, WriteSteps DEF PeerPuts, vars, environment
    <2>2. reset' \in BOOLEAN
      BY <1>1, <1>6, WriteSteps
    <2> QED
      BY <1>2, <1>6, <2>1, <2>2, WriteSteps DEF ClientWriting
  <1>7. ASSUME Close \/ Reset \/ Killed, UNCHANGED parting PROVE ClientOK'
    <2>1. /\ cpc' \in {"lingering", "exit"} /\ peer' = "closed"
          /\ UNCHANGED <<half, told, reset>>
      BY <1>0, <1>7, ClientSteps DEF PeerClose
    <2> QED
      BY <1>0, <1>7, <2>1 DEF ClientOK, HungUp
  <1>8. ASSUME ReadChunk, UNCHANGED parting PROVE ClientOK'
    <2>1. /\ cpc \in {"awaiting", "repl"} /\ peer' = peer /\ s2c[1] \in Chunks
          /\ cpc' \in {"awaiting", "repl", "ponging", "closing"}
          /\ half' \in {s2c[1].frame, "none"} /\ reset' = reset
      BY <1>0, <1>8, ReadSteps DEF PeerRead, environment
    <2>2. half' \in ServerFrames \cup {"none"}
      BY <2>1 DEF Chunks
    <2>3. told' \in BOOLEAN
      BY <1>0, <1>1, <1>8, ReadSteps
    <2> QED
      BY <1>0, <1>1, <1>8, <2>1, <2>2, <2>3 DEF ClientOK, ClientWriting, HungUp
  <1>9. ASSUME UNCHANGED <<cpc, half, told, peer>>, reset' \in BOOLEAN,
               parting' \in {"none", "goodbye", "unsent"}
        PROVE  ClientOK'
    BY <1>0, <1>9 DEF ClientOK, HungUp
  <1>10. ASSUME ServerRuns PROVE ClientOK'
    <2>1. peer' = peer
      BY <1>10 DEF ServerRuns, SessionStep, HelloShutdown, ReadHello, HelloFails,
             PollShutdown, PollReader, PollMailbox, PollTick, WriteChunk,
             WriteFails, GoodbyeTimeout, Depart, environment
    <2>2. reset' \in BOOLEAN /\ UNCHANGED <<cpc, half, told>>
      BY <1>10 DEF ServerRuns, client
    <2>3. parting' \in {"none", "goodbye", "unsent"}
      BY <1>1, <1>10 DEF ServerRuns
    <2> QED
      BY <1>9, <2>1, <2>2, <2>3
  <1>11. ASSUME \/ /\ Deliver \/ Cancel \/ TimerFires
                   /\ UNCHANGED <<client, reset, parting>>
                \/ UNCHANGED allVars
         PROVE  ClientOK'
    BY <1>1, <1>9, <1>11 DEF Deliver, Cancel, TimerFires, client, allVars, vars,
                       environment
  <1>12. ASSUME LastLine, UNCHANGED parting PROVE ClientOK'
    <2>1. /\ cpc = "lingering" /\ cpc' = "exit"
          /\ UNCHANGED <<peer, half, told, reset>>
      BY <1>0, <1>12, ClientSteps DEF vars, environment
    <2> QED
      BY <1>0, <1>12, <2>1 DEF ClientOK, HungUp
  <1> QED
    BY <1>3, <1>4, <1>5, <1>6, <1>7, <1>8, <1>10, <1>11, <1>12, ConnKinds

\* Steps that leave the wire to the client and its decoder alone.
LEMMA QuietSteps ==
  ASSUME ClientOK,
         \/ PollStdin \/ ReadNothing \/ ClientWrite \/ ClientWriteFails
         \/ LastLine
         \/ (Deliver \/ Cancel \/ TimerFires) /\ UNCHANGED <<client, reset, parting>>
         \/ UNCHANGED allVars
  PROVE  /\ UNCHANGED <<pc, out, s2c, peer, cut, first, half, told>>
         /\ reset' \in {reset, TRUE}
  <1>1. ASSUME PollStdin \/ ReadNothing \/ ClientWriteFails \/ LastLine
        PROVE  UNCHANGED <<vars, half, told, reset>>
    BY <1>1, ClientSteps
  <1>2. ASSUME ClientWrite
        PROVE  /\ UNCHANGED <<pc, out, s2c, peer, cut, first, half, told>>
               /\ reset' \in {reset, TRUE}
    BY <1>2, WriteSteps
    DEF PeerPuts, vars, control, environment, history
  <1>3. ASSUME Deliver \/ Cancel \/ TimerFires, UNCHANGED <<client, reset, parting>>
        PROVE  UNCHANGED <<pc, out, s2c, peer, cut, first, half, told, reset>>
    BY <1>3 DEF Deliver, Cancel, TimerFires, client, control, environment, history
  <1> QED
    BY <1>1, <1>2, <1>3 DEF allVars, vars, client, control, environment, history

\* The decoder stays in step with the stream.
LEMMA DecoderStep ==
  ASSUME ConnInv, [ConnNext]_allVars
  PROVE  Decoder'
  <1>0. SessionInv /\ ClientOK /\ Decoder
    BY DEF ConnInv
  <1>1. ASSUME UNCHANGED <<s2c, half, peer, out, cut>> PROVE Decoder'
    BY <1>0, <1>1 DEF Decoder
  <1>2. ASSUME Close \/ Reset \/ Killed PROVE Decoder'
    <2>1. s2c' = <<>> /\ peer' = "closed"
      BY <1>0, <1>2, ClientSteps DEF PeerClose
    <2> QED
      BY <2>1 DEF Decoder
  <1>3. ASSUME ReadChunk PROVE Decoder'
    <2>0. /\ s2c # <<>> /\ s2c' = Tail(s2c) /\ s2c[1] \in Chunks
          /\ UNCHANGED <<pc, peer, out, cut>>
      BY <1>0, <1>3, ReadSteps DEF PeerRead, environment, control, history
    <2>1. /\ s2c \in Seq(Chunks) /\ Len(s2c) \in Nat /\ Len(s2c) # 0
          /\ Len(s2c') = Len(s2c) - 1 /\ (s2c' = <<>> <=> Len(s2c') = 0)
          /\ \A i \in 1 .. Len(s2c) - 1 : s2c'[i] = s2c[i + 1]
      BY <1>0, <2>0, SeqFacts DEF SessionInv, TypeOK
    <2>2. /\ s2c[1].part \in {1, 2} /\ s2c[1].frame # "none"
      BY <2>0 DEF Chunks, ServerFrames
    <2>3. half' = IF s2c[1].part = 1 THEN s2c[1].frame ELSE "none"
      BY <1>0, <1>3, <2>2, ReadSteps
    <2>4. CASE Len(s2c) = 1
      <3>1. s2c' = <<>>
        BY <2>1, <2>4
      <3>2. ~cut => IF Len(out) = 1
                    THEN s2c[1] = [frame |-> out[1].frame, part |-> 1]
                    ELSE s2c[1].part = 2
        BY <1>0, <2>0, <2>4 DEF SessionInv, Wire
      <3>3. Len(out) = 1 => ~cut
        <4>1. cut => pc \notin Writing
          BY <1>0 DEF SessionInv, Wire, Writing
        <4>2. cut => out = <<>>
          BY <1>0, <4>1 DEF SessionInv, TypeOK
        <4> QED
          BY <4>2
      <3>4. CASE s2c[1].part = 1
        BY <2>0, <2>2, <2>3, <3>1, <3>2, <3>4 DEF Decoder
      <3>5. CASE s2c[1].part = 2
        BY <2>0, <2>2, <2>3, <3>1, <3>2, <3>3, <3>5 DEF Decoder
      <3> QED
        BY <2>2, <3>4, <3>5
    <2>5. CASE Len(s2c) # 1
      <3>1. 1 \in 1 .. Len(s2c) - 1 /\ s2c' # <<>> /\ 1 + 1 = 2
        BY <2>1, <2>5
      <3>2. s2c'[1] = s2c[1 + 1]
        BY <2>1, <3>1
      <3>3. IF s2c[1].part = 1
            THEN s2c'[1] = [frame |-> s2c[1].frame, part |-> 2]
            ELSE s2c'[1].part = 1
        BY <1>0, <3>1, <3>2 DEF SessionInv, Wire, StreamWellFramed
      <3> QED
        BY <2>2, <2>3, <3>1, <3>3 DEF Decoder
    <2> QED
      BY <2>4, <2>5
  <1>4. ASSUME \/ HelloShutdown \/ ReadHello \/ HelloFails
               \/ PollShutdown \/ PollReader \/ PollMailbox \/ PollTick,
               half' = half
        PROVE  Decoder'
    <2>1. /\ pc \in {"hello", "loop"} /\ Len(out) # 1 /\ Len(out') # 1
          /\ UNCHANGED <<s2c, peer, cut>>
      BY <1>0, <1>4, SelectSteps DEF SessionInv
    <2>2. ~cut
      BY <1>0, <2>1 DEF SessionInv, Wire
    <2> QED
      BY <1>0, <1>4, <2>1, <2>2 DEF Decoder
  <1>5. ASSUME WriteChunk, half' = half PROVE Decoder'
    <2>1. CASE peer = "closed" /\ s2c' = s2c
      <3>1. s2c' = <<>> /\ peer' = "closed"
        BY <1>0, <1>5, <2>1, ChunkWritten DEF SessionInv, Wire
      <3> QED
        BY <3>1 DEF Decoder
    <2>2. CASE peer # "closed"
      <3>1. /\ ~cut /\ s2c' # <<>>
            /\ s2c'[1] = IF s2c = <<>> THEN out[1] ELSE s2c[1]
            /\ IF Len(out) = 1 THEN out[1].part = 2 ELSE out[1].part = 1
        BY <1>0, <1>5, <2>2, ChunkWritten
      <3> QED
        BY <1>0, <1>5, <2>2, <3>1 DEF Decoder
    <2> QED
      BY <1>0, <1>5, <2>1, <2>2, ChunkWritten
  <1>6. ASSUME WriteFails PROVE Decoder'
    <2>1. s2c' = <<>> /\ peer' = "closed"
      BY <1>0, <1>6 DEF WriteFails, SessionInv, Wire, environment
    <2> QED
      BY <2>1 DEF Decoder
  <1>7. ASSUME GoodbyeTimeout, half' = half PROVE Decoder'
    <2>1. /\ UNCHANGED <<s2c, peer>> /\ out' = <<>> /\ Len(out') # 1
          /\ cut' = (cut \/ Len(out) = 1)
      BY <1>7 DEF GoodbyeTimeout, Goto, environment
    <2> QED
      BY <1>0, <1>7, <2>1 DEF Decoder
  <1>8. ASSUME Depart, half' = half PROVE Decoder'
    <2>1. /\ UNCHANGED <<s2c, peer, cut>> /\ out' = <<>> /\ Len(out') # 1
          /\ pc = "departing"
      BY <1>8 DEF Depart, Goto, environment, history
    <2>2. Len(out) # 1
      BY <1>0, <2>1 DEF SessionInv, TypeOK, Writing
    <2> QED
      BY <1>0, <1>8, <2>1, <2>2 DEF Decoder
  <1>9. ASSUME ServerRuns PROVE Decoder'
    BY <1>4, <1>5, <1>6, <1>7, <1>8, <1>9 DEF ServerRuns, SessionStep, client
  <1> QED
    BY <1>0, <1>1, <1>2, <1>3, <1>9, QuietSteps, ConnKinds

\* The first frame reaches the client first.
LEMMA FirstAnswerStep ==
  ASSUME ConnInv, [ConnNext]_allVars
  PROVE  FirstAnswer'
  <1>0. SessionInv /\ ClientOK /\ Decoder /\ FirstAnswer
    BY DEF ConnInv
  <1>1. ASSUME UNCHANGED <<s2c, half, first>>,
               cpc' \in {"greeting", "awaiting"} => cpc \in {"greeting", "awaiting"},
               cpc' \in {"repl", "sending", "ponging", "leaving"} => first # "none"
        PROVE  FirstAnswer'
    BY <1>0, <1>1 DEF FirstAnswer
  <1>2. ASSUME \/ PollStdin \/ ReadNothing \/ ClientWrite \/ ClientWriteFails
               \/ LastLine
        PROVE  FirstAnswer'
    <2>1. UNCHANGED <<s2c, half, first>>
      BY <1>0, <1>2, QuietSteps
    <2>2. cpc' \in {"greeting", "awaiting"} => cpc \in {"greeting", "awaiting"}
      BY <1>0, <1>2, ClientSteps, WriteSteps DEF ClientWriting
    <2>3. cpc' \in {"repl", "sending", "ponging", "leaving"} =>
            cpc \in {"repl", "sending", "ponging", "leaving"}
      BY <1>0, <1>2, ClientSteps, WriteSteps DEF ClientWriting
    <2> QED
      BY <1>0, <1>1, <2>1, <2>2, <2>3 DEF FirstAnswer
  <1>3. ASSUME Close \/ Reset \/ Killed PROVE FirstAnswer'
    BY <1>0, <1>3, ClientSteps DEF FirstAnswer
  <1>4. ASSUME ReadChunk PROVE FirstAnswer'
    <2>0. /\ s2c # <<>> /\ s2c' = Tail(s2c) /\ s2c[1] \in Chunks
          /\ first' = first /\ cpc \in {"awaiting", "repl"}
      BY <1>0, <1>4, ReadSteps DEF PeerRead, history
    <2>1. /\ s2c \in Seq(Chunks) /\ Len(s2c) \in Nat /\ Len(s2c) # 0
          /\ Len(s2c') = Len(s2c) - 1 /\ (s2c' = <<>> <=> Len(s2c') = 0)
          /\ \A i \in 1 .. Len(s2c) - 1 : s2c'[i] = s2c[i + 1]
      BY <1>0, <2>0, SeqFacts DEF SessionInv, TypeOK
    <2>2. s2c[1].frame # "none"
      BY <2>0 DEF Chunks, ServerFrames
    <2>3. cpc = "repl" => first # "none"
      BY <1>0 DEF FirstAnswer
    <2>4. cpc = "awaiting" => s2c[1].frame = first /\ first # "none"
      BY <1>0, <2>0, <2>2 DEF FirstAnswer
    <2>5. CASE cpc' = "awaiting"
      <3>1. s2c[1].part = 1 /\ half' = s2c[1].frame /\ cpc = "awaiting"
        BY <1>0, <1>4, <2>5, ReadSteps
      <3>2. ASSUME s2c' # <<>> PROVE s2c'[1].frame = s2c[1].frame
        <4>1. 1 \in 1 .. Len(s2c) - 1
          BY <2>1, <3>2
        <4>2. s2c'[1] = [frame |-> s2c[1].frame, part |-> 2]
          BY <1>0, <2>1, <3>1, <4>1 DEF SessionInv, Wire, StreamWellFramed
        <4> QED
          BY <4>2
      <3> QED
        BY <2>0, <2>2, <2>4, <2>5, <3>1, <3>2 DEF FirstAnswer
    <2>6. CASE cpc' # "awaiting"
      <3>1. cpc' # "greeting"
        BY <1>0, <1>4, <2>0, ReadSteps
      <3> QED
        BY <2>0, <2>3, <2>4, <2>6, <3>1 DEF FirstAnswer
    <2> QED
      BY <2>5, <2>6
  <1>5. ASSUME WriteChunk, UNCHANGED <<cpc, half>> PROVE FirstAnswer'
    <2>1. /\ ~cut /\ out[1] \in Chunks
          /\ first' = IF first = "none" THEN out[1].frame ELSE first
      BY <1>0, <1>5, ChunkWritten
    <2>2. out[1].frame # "none"
      BY <2>1 DEF Chunks, ServerFrames
    <2>3. CASE cpc \in {"greeting", "awaiting"}
      <3>1. peer # "closed"
        BY <1>0, <2>3 DEF ClientOK, HungUp
      <3>2. s2c' # <<>> /\ s2c'[1] = IF s2c = <<>> THEN out[1] ELSE s2c[1]
        BY <1>0, <1>5, <3>1, ChunkWritten
      <3>3. CASE s2c # <<>>
        <4>1. s2c[1] \in Chunks
          BY <1>0, <3>3, SeqFacts DEF SessionInv, TypeOK
        <4>2. first # "none"
          BY <1>0, <2>3, <3>3, <4>1 DEF FirstAnswer, Chunks, ServerFrames
        <4> QED
          BY <1>0, <1>5, <2>1, <2>3, <3>2, <3>3, <4>2 DEF FirstAnswer
      <3>4. CASE s2c = <<>> /\ half = "none"
        BY <1>0, <1>5, <2>1, <2>3, <3>2, <3>4 DEF FirstAnswer
      <3>5. CASE s2c = <<>> /\ half # "none"
        <4>1. half = first /\ out[1].frame = half
          BY <1>0, <2>1, <2>3, <3>1, <3>5 DEF FirstAnswer, Decoder
        <4> QED
          BY <1>5, <2>1, <2>3, <3>2, <3>5, <4>1 DEF FirstAnswer
      <3> QED
        BY <3>3, <3>4, <3>5
    <2>4. CASE cpc \notin {"greeting", "awaiting"}
      BY <1>0, <1>5, <2>1, <2>2, <2>4 DEF FirstAnswer
    <2> QED
      BY <2>3, <2>4
  <1>6. ASSUME ServerRuns, ~WriteChunk PROVE FirstAnswer'
    <2>1. UNCHANGED <<s2c, first, cpc, half>>
      BY <1>6 DEF ServerRuns, SessionStep, HelloShutdown, ReadHello, HelloFails,
             PollShutdown, PollReader, PollMailbox, PollTick, WriteFails,
             GoodbyeTimeout, Depart, ArmWins, history, client
    <2> QED
      BY <1>0, <2>1 DEF FirstAnswer
  <1>7. ASSUME UNCHANGED <<s2c, first, cpc, half>> PROVE FirstAnswer'
    BY <1>0, <1>7 DEF FirstAnswer
  <1>8. ASSUME \/ (Deliver \/ Cancel \/ TimerFires) /\ UNCHANGED <<client, reset, parting>>
               \/ UNCHANGED allVars
        PROVE  FirstAnswer'
    BY <1>0, <1>7, <1>8, QuietSteps DEF client, allVars
  <1>9. ServerRuns => UNCHANGED <<cpc, half>>
    BY DEF ServerRuns, client
  <1> QED
    BY <1>2, <1>3, <1>4, <1>5, <1>6, <1>8, <1>9, ConnKinds

\* The client's Hello stays the only one.
LEMMA OneHelloStep ==
  ASSUME ConnInv, [ConnNext]_allVars
  PROVE  OneHello'
  <1>0. SessionInv /\ ClientOK /\ OneHello
    BY DEF ConnInv
  <1>1. /\ c2s \in Seq(ClientFrames) /\ Len(c2s) \in Nat
        /\ c2s = <<>> <=> Len(c2s) = 0
    BY <1>0, SeqFacts DEF SessionInv, TypeOK
  <1>2. ASSUME UNCHANGED c2s, cpc' = "greeting" => cpc = "greeting",
               pc \in {"hello", "done"} => pc' \in {"hello", "done"},
               pc' # "violation"
        PROVE  OneHello'
    BY <1>0, <1>2 DEF OneHello
  <1>3. ASSUME c2s # <<>>, c2s' = Tail(c2s), UNCHANGED cpc, pc' # "violation"
        PROVE  OneHello'
    <2>1. cpc # "greeting"
      BY <1>0, <1>3 DEF OneHello
    <2>2. ASSUME NEW i \in 1 .. Len(c2s') PROVE c2s'[i] \notin {"Hello", "BadHello"}
      <3>1. /\ Len(c2s') = Len(c2s) - 1
            /\ \A k \in 1 .. Len(c2s) - 1 : c2s'[k] = c2s[k + 1]
        BY <1>1, <1>3, SeqFacts
      <3>2. i + 1 \in 1 .. Len(c2s) /\ i + 1 # 1 /\ c2s'[i] = c2s[i + 1]
        BY <1>1, <3>1
      <3> QED
        BY <1>0, <3>2 DEF OneHello
    <2> QED
      BY <1>3, <2>1, <2>2 DEF OneHello
  <1>4. ASSUME PollStdin \/ ReadNothing \/ ClientWriteFails \/ LastLine
        PROVE  OneHello'
    <2>1. UNCHANGED <<c2s, pc>> /\ cpc' # "greeting"
      BY <1>0, <1>4, ClientSteps DEF vars, control
    <2> QED
      BY <1>0, <1>2, <2>1 DEF OneHello
  <1>5. ASSUME ReadChunk PROVE OneHello'
    <2>1. UNCHANGED <<c2s, pc>>
      BY <1>5 DEF ReadChunk, PeerRead, control
    <2>2. cpc' # "greeting"
      BY <1>0, <1>5, ReadSteps DEF ConnInv
    <2> QED
      BY <1>0, <1>2, <2>1, <2>2 DEF OneHello
  <1>6. ASSUME Close \/ Reset \/ Killed PROVE OneHello'
    <2>1. /\ cpc' \in {"lingering", "exit"} /\ pc' = pc
          /\ c2s' = c2s \/ c2s' = <<>>
      BY <1>0, <1>6, ClientSteps DEF PeerClose, control
    <2>2. CASE c2s' = c2s
      BY <1>0, <1>2, <2>1, <2>2 DEF OneHello
    <2>3. CASE c2s' = <<>>
      <3>1. Len(c2s') = 0
        BY <2>3
      <3> QED
        BY <1>0, <2>1, <3>1 DEF OneHello
    <2> QED
      BY <2>1, <2>2, <2>3
  <1>7. ASSUME ClientWrite PROVE OneHello'
    <2>1. cpc' # "greeting"
      BY <1>7, WriteSteps DEF ClientWriting
    <2>2. CASE UNCHANGED vars
      BY <1>0, <1>2, <2>1, <2>2 DEF OneHello, vars, control
    <2>3. CASE ~ UNCHANGED vars
      <3>1. PICK f \in ClientFrames : /\ PeerPuts(f)
                  /\ (cpc # "greeting" => f \notin {"Hello", "BadHello"})
        BY <1>7, <2>3, WriteSteps
      <3>2. /\ Len(c2s') = Len(c2s) + 1 /\ c2s'[Len(c2s) + 1] = f
            /\ \A i \in 1 .. Len(c2s) : c2s'[i] = c2s[i]
            /\ pc' = pc
        BY <1>1, <3>1, SeqFacts DEF PeerPuts, control
      <3>3. ASSUME NEW i \in 1 .. Len(c2s'), c2s'[i] \in {"Hello", "BadHello"}
            PROVE  i = 1 /\ pc \in {"hello", "done"}
        <4>1. CASE i \in 1 .. Len(c2s)
          BY <1>0, <3>2, <3>3, <4>1 DEF OneHello
        <4>2. CASE i = Len(c2s) + 1
          <5>1. cpc = "greeting"
            BY <3>1, <3>2, <3>3, <4>2
          <5> QED
            BY <1>0, <1>1, <4>2, <5>1 DEF OneHello
        <4> QED
          BY <1>1, <3>2, <4>1, <4>2
      <3> QED
        BY <1>0, <2>1, <3>2, <3>3 DEF OneHello
    <2> QED
      BY <2>2, <2>3
  <1>8. ASSUME HelloShutdown \/ HelloFails, UNCHANGED cpc PROVE OneHello'
    BY <1>2, <1>8 DEF HelloShutdown, HelloFails, Goto
  <1>9. ASSUME ReadHello, UNCHANGED cpc PROVE OneHello'
    BY <1>3, <1>9 DEF ReadHello, Accept, Goto, StartWrite
  <1>10. ASSUME PollShutdown \/ PollMailbox \/ PollTick, UNCHANGED cpc
         PROVE  OneHello'
    BY <1>2, <1>10
    DEF PollShutdown, PollMailbox, PollTick, Pending, Goto, StartWrite
  <1>11. ASSUME PollReader, UNCHANGED cpc PROVE OneHello'
    <2>1. CASE c2s' = c2s /\ (Goto("departing") \/ Pending)
      BY <1>2, <1>11, <2>1 DEF PollReader, Goto, Pending
    <2>2. CASE c2s # <<>> /\ c2s' = Tail(c2s) /\ HandleFrame(Head(c2s))
      <3>1. Head(c2s) = c2s[1] /\ 1 \in 1 .. Len(c2s)
        BY <1>1, <2>2, SeqFacts
      <3>2. Head(c2s) \notin {"Hello", "BadHello"}
        BY <1>0, <1>11, <3>1 DEF OneHello, PollReader
      <3>3. pc' # "violation"
        BY <2>2, <3>2 DEF HandleFrame, Goto, StartWrite
      <3> QED
        BY <1>3, <1>11, <2>2, <3>3
    <2> QED
      BY <1>11, <2>1, <2>2 DEF PollReader
  <1>12. ASSUME WriteChunk, UNCHANGED cpc PROVE OneHello'
    <2>1. /\ pc \in Writing /\ c2s' = c2s /\ pc' \in {pc, AfterWrite}
      BY <1>0, <1>12, ChunkWritten
    <2>2. AfterWrite # "violation"
      BY <2>1 DEF AfterWrite, Writing
    <2> QED
      BY <1>0, <1>2, <1>12, <2>1, <2>2 DEF OneHello, Writing
  <1>13. ASSUME WriteFails \/ GoodbyeTimeout \/ Depart, UNCHANGED cpc
         PROVE  OneHello'
    BY <1>2, <1>13 DEF WriteFails, GoodbyeTimeout, Depart, Goto, Writing
  <1>14. ASSUME ServerRuns PROVE OneHello'
    BY <1>8, <1>9, <1>10, <1>11, <1>12, <1>13, <1>14
    DEF ServerRuns, SessionStep, client
  <1>15. ASSUME \/ (Deliver \/ Cancel \/ TimerFires) /\ UNCHANGED <<client, reset, parting>>
                \/ UNCHANGED allVars
         PROVE  OneHello'
    <2>1. UNCHANGED <<c2s, pc, cpc>>
      BY <1>15 DEF Deliver, Cancel, TimerFires, allVars, vars, client, control
    <2> QED
      BY <1>0, <2>1 DEF OneHello
  <1> QED
    BY <1>4, <1>5, <1>6, <1>7, <1>14, <1>15, ConnKinds

\* The goodbye of a session that the token ends is not lost.
LEMMA GoodbyeStep ==
  ASSUME ConnInv, [ConnNext]_allVars
  PROVE  Goodbye'
  <1>0. SessionInv /\ ClientOK /\ Decoder /\ Goodbye
    BY DEF ConnInv
  <1>1. s2c \in Seq(Chunks) /\ Len(s2c) \in Nat
    BY <1>0, SeqFacts DEF SessionInv, TypeOK
  <1>2. ASSUME UNCHANGED <<pc, out, s2c, peer, cut, first, half, told, parting>>
        PROVE  Goodbye'
    BY <1>0, <1>2 DEF Goodbye, GoodbyeAhead
  <1>3. ASSUME Close \/ Reset \/ Killed, UNCHANGED parting PROVE Goodbye'
    <2>1. UNCHANGED <<pc, out, first, cut, parting>> /\ peer' = "closed"
      BY <1>0, <1>3, ClientSteps DEF PeerClose, control, history
    <2> QED
      BY <1>0, <2>1 DEF Goodbye
  <1>4. ASSUME ReadChunk, UNCHANGED parting PROVE Goodbye'
    <2>0. /\ s2c # <<>> /\ s2c' = Tail(s2c)
          /\ UNCHANGED <<pc, out, peer, first, cut, parting>>
      BY <1>0, <1>4, ReadSteps DEF PeerRead, control, environment, history
    <2>1. /\ Len(s2c) # 0 /\ Len(s2c') = Len(s2c) - 1
          /\ \A i \in 1 .. Len(s2c) - 1 : s2c'[i] = s2c[i + 1]
      BY <1>1, <2>0, SeqFacts
    <2>2. \/ s2c[1].part = 1 /\ half' = s2c[1].frame /\ told' = told
          \/ /\ s2c[1].part = 2 /\ half = s2c[1].frame
             /\ told' = (told \/ s2c[1].frame = "Goodbye")
      BY <1>0, <1>4, ReadSteps
    <2>3. ASSUME told \/ half = "Goodbye" \/ s2c[1].frame = "Goodbye"
          PROVE  told' \/ half' = "Goodbye"
      <3>1. s2c[1].part = 1 => half = "none"
        BY <1>0, <2>0 DEF Decoder
      <3>2. CASE s2c[1].part = 1
        BY <2>2, <2>3, <3>1, <3>2
      <3>3. CASE s2c[1].part = 2
        <4>1. told' = (told \/ s2c[1].frame = "Goodbye") /\ half = s2c[1].frame
          BY <2>2, <3>3
        <4> QED
          BY <2>3, <4>1
      <3> QED
        BY <2>2, <3>2, <3>3
    <2>4. ASSUME NEW i \in 1 .. Len(s2c), i # 1, s2c[i].frame = "Goodbye"
          PROVE  \E k \in 1 .. Len(s2c') : s2c'[k].frame = "Goodbye"
      <3>1. /\ i - 1 \in 1 .. Len(s2c) - 1 /\ (i - 1) + 1 = i
            /\ i - 1 \in 1 .. Len(s2c')
        BY <1>1, <2>1, <2>4
      <3>2. s2c'[i - 1] = s2c[i]
        BY <2>1, <3>1
      <3> QED
        BY <2>4, <3>1, <3>2
    <2>5. GoodbyeAhead => GoodbyeAhead'
      BY <2>0, <2>3, <2>4 DEF GoodbyeAhead
    <2> QED
      BY <1>0, <2>0, <2>5 DEF Goodbye
  <1>5. ASSUME ServerRuns, ~TokenArm, pc \in {"hello", "loop"}, pc' # "goodbye"
        PROVE  Goodbye'
    <2>1. parting = "none" /\ parting' = "none"
      BY <1>0, <1>5 DEF Goodbye, ServerRuns
    <2> QED
      BY <1>5, <2>1 DEF Goodbye
  <1>6. ASSUME HelloShutdown \/ ReadHello \/ HelloFails
               \/ PollReader \/ PollMailbox \/ PollTick
        PROVE  ~TokenArm /\ pc \in {"hello", "loop"} /\ pc' # "goodbye"
    BY <1>6 DEF HelloShutdown, ReadHello, HelloFails, PollReader, PollMailbox,
                PollTick, TokenArm, Accept, HandleFrame, Pending, Goto, StartWrite
  <1>7. ASSUME PollShutdown, ServerRuns PROVE Goodbye'
    <2>1. CASE cancelled /\ StartWrite("Goodbye", "goodbye")
      <3>1. pc' = "goodbye" /\ out'[1].frame = "Goodbye"
        BY <2>1, WriteStarts DEF ServerFrames
      <3>2. pc = "loop" /\ UNCHANGED <<first, cut>>
        BY <1>7 DEF PollShutdown, history
      <3>3. first = "Welcome" /\ ~cut
        BY <1>0, <3>2 DEF SessionInv, Progress, Serving, Wire
      <3> QED
        BY <3>1, <3>2, <3>3 DEF Goodbye, GoodbyeAhead
    <2>2. CASE ~cancelled /\ Pending
      BY <1>5, <1>7, <2>2 DEF TokenArm, PollShutdown, Pending
    <2> QED
      BY <1>7, <2>1, <2>2 DEF PollShutdown
  <1>8. ASSUME WriteChunk \/ WriteFails \/ GoodbyeTimeout \/ Depart, ServerRuns
        PROVE  /\ UNCHANGED <<half, told>>
               /\ parting' = IF pc = "goodbye" /\ pc' # pc /\ s2c' = s2c
                             THEN "unsent" ELSE parting
    <2>1. pc \in Writing \cup {"departing"}
      BY <1>8 DEF WriteChunk, WriteFails, GoodbyeTimeout, Depart, Writing
    <2>2. ~TokenArm
      BY <2>1 DEF TokenArm, Writing
    <2> QED
      BY <1>8, <2>2 DEF ServerRuns, client
  <1>9. ASSUME WriteChunk, ServerRuns PROVE Goodbye'
    <2>0. pc \in Writing /\ UNCHANGED <<peer, cut>> /\ (first # "none" => first' = first)
      BY <1>0, <1>9, ChunkWritten
    <2>1. ASSUME parting # "none" PROVE pc = "goodbye" /\ out[1].frame = "Goodbye"
      BY <1>0, <2>0, <2>1 DEF Goodbye, Writing
    <2>2. CASE Len(out) = 1
      <3>1. pc' = AfterWrite
        BY <1>0, <1>9, <2>2, ChunkWritten
      <3>2. AfterWrite # "goodbye" /\ (pc = "goodbye" => AfterWrite = "departing")
        BY <2>0 DEF AfterWrite, Writing
      <3>3. ASSUME parting = "goodbye", peer # "closed" PROVE GoodbyeAhead'
        <4>1. Len(s2c') = Len(s2c) + 1 /\ s2c'[Len(s2c) + 1] = out[1]
          BY <1>0, <1>9, <3>3, ChunkWritten
        <4>2. Len(s2c) + 1 \in 1 .. Len(s2c') /\ s2c'[Len(s2c) + 1].frame = "Goodbye"
          BY <1>1, <2>1, <3>3, <4>1
        <4> QED
          BY <4>2 DEF GoodbyeAhead
      <3>4. parting' # "none" => pc = "goodbye"
        BY <1>8, <1>9, <2>1
      <3>5. parting' = "goodbye" => parting = "goodbye"
        BY <1>8, <1>9
      <3>6. pc' # "goodbye" /\ (parting' # "none" => pc' = "departing")
        BY <3>1, <3>2, <3>4
      <3>7. parting' = "goodbye" => first' # "none" /\ ~cut'
        BY <1>0, <2>0, <3>5 DEF Goodbye
      <3> QED
        BY <2>0, <3>3, <3>5, <3>6, <3>7 DEF Goodbye
    <2>3. CASE Len(out) # 1
      <3>1. pc' = pc /\ out'[1].frame = out[1].frame
        BY <1>0, <1>9, <2>3, ChunkWritten
      <3>2. parting' = parting
        BY <1>8, <1>9, <3>1
      <3> QED
        BY <1>0, <2>0, <2>1, <3>1, <3>2 DEF Goodbye, GoodbyeAhead
    <2> QED
      BY <2>2, <2>3
  <1>10. ASSUME WriteFails \/ GoodbyeTimeout, ServerRuns PROVE Goodbye'
    <2>1. pc \in Writing /\ pc' \in {"departing", "done"} /\ s2c' = s2c
      BY <1>10 DEF WriteFails, GoodbyeTimeout, Goto, Writing
    <2>2. CASE pc = "goodbye"
      <3>1. parting' = "unsent"
        BY <1>8, <1>10, <2>1, <2>2
      <3> QED
        BY <2>1, <3>1 DEF Goodbye
    <2>3. CASE pc # "goodbye"
      <3>1. parting = "none" /\ parting' = "none"
        BY <1>0, <1>8, <1>10, <2>1, <2>3 DEF Goodbye, Writing
      <3> QED
        BY <2>1, <3>1 DEF Goodbye
    <2> QED
      BY <2>2, <2>3
  <1>11. ASSUME Depart, ServerRuns PROVE Goodbye'
    <2>1. /\ pc = "departing" /\ pc' = "done"
          /\ UNCHANGED <<s2c, peer, first, cut>>
      BY <1>11 DEF Depart, Goto, environment, history
    <2>2. UNCHANGED <<parting, half, told>>
      BY <1>8, <1>11, <2>1
    <2> QED
      BY <1>0, <2>1, <2>2 DEF Goodbye, GoodbyeAhead
  <1>12. ASSUME ServerRuns PROVE Goodbye'
    BY <1>5, <1>6, <1>7, <1>9, <1>10, <1>11, <1>12 DEF ServerRuns, SessionStep
  <1>13. ASSUME \/ PollStdin \/ ReadNothing \/ ClientWrite \/ ClientWriteFails
                \/ LastLine
                \/ (Deliver \/ Cancel \/ TimerFires) /\ UNCHANGED <<client, reset, parting>>
                \/ UNCHANGED allVars,
                UNCHANGED parting
         PROVE  Goodbye'
    BY <1>0, <1>2, <1>13, QuietSteps
  <1>14. UNCHANGED allVars => UNCHANGED parting
    BY DEF allVars
  <1> QED
    BY <1>3, <1>4, <1>12, <1>13, <1>14, ConnKinds

\* How the client ended agrees with what the session did.
LEMMA OutcomeStep ==
  ASSUME ConnInv, [ConnNext]_allVars
  PROVE  Outcome'
  <1>0. SessionInv /\ ClientOK /\ Decoder /\ FirstAnswer /\ Goodbye
    BY DEF ConnInv
  <1>1. /\ outcome \notin {"unexpected", "garbled"}
        /\ outcome = "truncated" => cut
        /\ (parting = "goodbye" /\ outcome = "closed") => told \/ reset
        /\ outcome \in {"closed", "unanswered"} => pc = "done"
        /\ outcome = "unanswered" => first = "none"
        /\ outcome \in {"reset", "broken"} => reset
        /\ outcome \in {"running", "left", "killed", "stdin", "rejected", "closed",
                   "unanswered", "truncated", "reset", "broken"}
    BY DEF ConnInv, Outcome, SidesAgree, ToldWhy
  <1>2. pc' # "violation" /\ Goodbye'
    BY OneHelloStep, GoodbyeStep DEF OneHello
  \* What is left to show of the new state.
  <1>3. ASSUME outcome' \in {"running", "left", "killed", "stdin", "rejected",
                             "closed", "unanswered", "truncated", "reset", "broken"},
               outcome' = "truncated" => cut',
               outcome' \in {"closed", "unanswered"} => pc' = "done",
               outcome' = "unanswered" => first' = "none",
               outcome' \in {"reset", "broken"} => reset',
               (parting' = "goodbye" /\ outcome' = "closed") => told' \/ reset'
        PROVE  Outcome'
    <2>1. parting' = "goodbye" => first' # "none" /\ ~cut'
      BY <1>2 DEF Goodbye
    <2>2. ToldWhy'
      BY <1>3, <2>1 DEF ToldWhy
    <2> QED
      BY <1>2, <1>3, <2>2 DEF Outcome, SidesAgree
  \* A step that leaves the session's end alone and may end the client.
  <1>4. ASSUME UNCHANGED <<pc, cut, first, parting>>, reset => reset', told => told',
               \/ outcome' \in {outcome, "left", "killed", "stdin", "rejected"}
               \/ outcome' \in {"reset", "broken"} /\ reset'
        PROVE  Outcome'
    BY <1>1, <1>3, <1>4
  <1>5. ASSUME PollStdin \/ ClientWriteFails \/ LastLine, UNCHANGED parting
        PROVE  Outcome'
    <2>1. /\ \/ outcome' \in {outcome, "left", "stdin"}
             \/ outcome' = "broken" /\ reset
          /\ UNCHANGED <<vars, told, reset>>
      BY <1>0, <1>5, ClientSteps
    <2> QED
      BY <1>4, <1>5, <2>1 DEF vars, control, history
  <1>6. ASSUME ClientWrite, UNCHANGED parting PROVE Outcome'
    <2>1. outcome' \in {outcome, "left"}
      BY <1>6, WriteSteps DEF ClientWriting
    <2>2. UNCHANGED <<pc, cut, first, told>> /\ reset' \in {reset, TRUE}
      BY <1>0, <1>6, QuietSteps
    <2> QED
      BY <1>4, <1>6, <2>1, <2>2
  <1>7. ASSUME Close \/ Reset \/ Killed, UNCHANGED parting PROVE Outcome'
    <2>1. /\ outcome' \in {outcome, "reset", "killed"}
          /\ outcome' # outcome /\ outcome' = "reset" => reset
          /\ UNCHANGED <<pc, cut, first, told, reset>>
      BY <1>0, <1>7, ClientSteps DEF PeerClose, control, history
    <2> QED
      BY <1>4, <1>7, <2>1
  <1>8. ASSUME ReadChunk, UNCHANGED parting PROVE Outcome'
    <2>1. UNCHANGED <<pc, cut, first, reset>>
      BY <1>0, <1>8, ReadSteps DEF PeerRead, control, history
    <2>2. told => told'
      BY <1>0, <1>8, ReadSteps
    <2>3. outcome' \in {outcome, "rejected"}
      <3>1. ASSUME outcome' # outcome, outcome' = "unexpected" PROVE FALSE
        <4>1. s2c[1].frame \notin {"Welcome", "Rejected"} /\ cpc = "awaiting"
              /\ s2c # <<>> /\ s2c[1] \in Chunks
          BY <1>0, <1>8, <3>1, ReadSteps
        <4>2. s2c[1].frame = first /\ s2c[1].frame # "none"
          BY <1>0, <4>1 DEF FirstAnswer, Chunks, ServerFrames
        <4>3. pc \in {"hello", "rejecting", "welcoming", "done"} \cup Serving
          BY <1>0 DEF SessionInv, TypeOK, Phases, Writing, Serving
        <4>4. first \in {"none", "Welcome", "Rejected"}
          BY <1>0, <4>3 DEF SessionInv, Progress, Serving
        <4> QED
          BY <4>1, <4>2, <4>4
      <3> QED
        BY <1>0, <1>8, <3>1, ReadSteps
    <2> QED
      BY <1>4, <1>8, <2>1, <2>2, <2>3
  <1>9. ASSUME ReadNothing, UNCHANGED parting PROVE Outcome'
    <2>0. /\ cpc \in {"awaiting", "repl"} /\ s2c = <<>> /\ Len(s2c) = 0
          /\ outcome' \in {outcome, "truncated", "closed", "unanswered"}
          /\ outcome' # outcome => pc = "done"
      BY <1>0, <1>9, ClientSteps
    <2>1. UNCHANGED <<pc, out, cut, first, told, reset>>
      BY <1>0, <1>9, ClientSteps DEF vars, control, history
    <2>2. peer # "closed"
      BY <1>0, <2>0 DEF ClientOK, HungUp
    <2>3. CASE outcome' = outcome
      BY <1>4, <1>9, <2>1, <2>3
    <2>4. CASE outcome' # outcome /\ outcome' = "truncated"
      <3>1. half # "none" /\ pc = "done"
        BY <1>0, <1>9, <2>0, <2>4, ClientSteps
      <3>2. out = <<>> /\ Len(out) # 1
        BY <1>0, <3>1 DEF SessionInv, TypeOK, Writing
      <3>3. cut
        BY <1>0, <2>0, <2>2, <3>1, <3>2 DEF Decoder
      <3> QED
        BY <1>3, <2>1, <2>4, <3>3
    <2>5. CASE outcome' # outcome /\ outcome' = "closed"
      <3>1. half = "none" /\ cpc = "repl" /\ pc = "done"
        BY <1>0, <1>9, <2>0, <2>5, ClientSteps
      <3>2. GoodbyeAhead => told
        BY <2>0, <3>1 DEF GoodbyeAhead
      <3>3. parting = "goodbye" => told
        BY <1>0, <2>2, <3>2 DEF Goodbye
      <3> QED
        BY <1>3, <1>9, <2>1, <2>5, <3>1, <3>3
    <2>6. CASE outcome' # outcome /\ outcome' = "unanswered"
      <3>1. half = "none" /\ cpc = "awaiting" /\ pc = "done"
        BY <1>0, <1>9, <2>0, <2>6, ClientSteps
      <3>2. first = "none"
        BY <1>0, <2>0, <3>1 DEF FirstAnswer
      <3> QED
        BY <1>3, <2>1, <2>6, <3>1, <3>2
    <2> QED
      BY <2>0, <2>3, <2>4, <2>5, <2>6
  <1>10. ASSUME ServerRuns PROVE Outcome'
    <2>1. outcome \notin {"closed", "unanswered"}
      BY <1>1, <1>10, DoneIsDone DEF ServerRuns
    <2>2. cut => cut'
      <3>1. ASSUME \/ HelloShutdown \/ ReadHello \/ HelloFails
                   \/ PollShutdown \/ PollReader \/ PollMailbox \/ PollTick
            PROVE  cut => cut'
        BY <1>0, <3>1, SelectSteps DEF SessionInv
      <3>2. ASSUME WriteChunk \/ WriteFails \/ GoodbyeTimeout \/ Depart
            PROVE  cut => cut'
        BY <3>2 DEF WriteChunk, WriteFails, GoodbyeTimeout, Depart, history
      <3> QED
        BY <1>10, <3>1, <3>2 DEF ServerRuns, SessionStep
    <2>3. outcome' = outcome /\ (reset => reset')
      BY <1>10 DEF ServerRuns, client
    <2> QED
      BY <1>1, <1>3, <2>1, <2>2, <2>3
  <1>11. ASSUME \/ /\ Deliver \/ Cancel \/ TimerFires
                   /\ UNCHANGED <<client, reset, parting>>
                \/ UNCHANGED allVars
         PROVE  Outcome'
    <2>1. UNCHANGED <<pc, cut, first, told>> /\ reset' \in {reset, TRUE}
      BY <1>0, <1>11, QuietSteps
    <2>2. UNCHANGED <<outcome, parting>>
      BY <1>11 DEF client, allVars
    <2> QED
      BY <1>4, <2>1, <2>2
  <1> QED
    BY <1>5, <1>6, <1>7, <1>8, <1>9, <1>10, <1>11, ConnKinds

-----------------------------------------------------------------------------
(* The theorems.                                                           *)

\* The invariant holds on a new connection ...
LEMMA ConnStarts == ConnInit => ConnInv
  <1> SUFFICES ASSUME ConnInit PROVE ConnInv
    OBVIOUS
  <1>1. SessionInv
    BY SessionInit DEF ConnInit
  <1>2. out = <<>> /\ Len(out) = 0 /\ s2c = <<>> /\ Len(s2c) = 0
        /\ c2s = <<>> /\ Len(c2s) = 0
    BY DEF ConnInit, Init
  <1>3. ClientOK
    BY DEF ConnInit, Init, ClientOK, ClientWriting, HungUp
  <1>4. Decoder /\ FirstAnswer
    BY <1>2 DEF ConnInit, Init, Decoder, FirstAnswer
  <1>5. OneHello
    BY <1>2 DEF ConnInit, Init, OneHello
  <1>6. Goodbye /\ Outcome
    BY DEF ConnInit, Init, Goodbye, Outcome, SidesAgree, ToldWhy
  <1> QED
    BY <1>1, <1>3, <1>4, <1>5, <1>6 DEF ConnInv

\* ... and at every later time.
THEOREM Agreement == ConnSpec => []ConnInv
  <1>1. ASSUME ConnInv, [ConnNext]_allVars PROVE ConnInv'
    <2>1. SessionInv'
      BY <1>1, ConnStep, SessionKeeps DEF ConnInv, SessionInv
    <2> QED
      BY <1>1, <2>1, ClientOKStep, DecoderStep, FirstAnswerStep, OneHelloStep,
         GoodbyeStep, OutcomeStep DEF ConnInv
  <1> QED
    BY <1>1, ConnStarts, PTL DEF ConnSpec

\* Between this client and this server the branches against a broken partner
\* are dead, and only a timed-out goodbye cuts the stream inside a frame.
THEOREM PartnersAgree == ConnSpec => []SidesAgree
  <1>1. ConnInv => SidesAgree
    BY DEF ConnInv, Outcome
  <1> QED
    BY <1>1, Agreement, PTL

\* A welcomed client whose session the token's arm of serve_loop has ended
\* was shown the goodbye, unless it stayed unsent, the user was gone first,
\* or a frame of the client's own was answered by a reset.
THEOREM GoodbyeTold == ConnSpec => []ToldWhy
  <1>1. ConnInv => ToldWhy
    BY DEF ConnInv, Outcome
  <1> QED
    BY <1>1, Agreement, PTL

=============================================================================
