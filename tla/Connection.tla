----------------------------- MODULE Connection -----------------------------
(***************************************************************************)
(* The client binary (client/src/main.rs, repl.rs) at the other end of a   *)
(* Session's connection.  The session's steps, the wire, the room, the     *)
(* timers and the token are those of module Session; the client takes the  *)
(* place of its arbitrary peer.                                            *)
(*                                                                         *)
(* Like the session, the client awaits its sends in the body of a select   *)
(* arm: while a send waits for room it neither reads stdin nor the socket. *)
(* A read of stdin, once started, cannot be cancelled (tokio::io::stdin):  *)
(* a REPL that ends over one drops its socket, but the process lingers     *)
(* until the user presses Enter.                                           *)
(***************************************************************************)
EXTENDS Session

CONSTANTS
  MaxLines    \* bound: lines the user types

ASSUME ConnectionAssumption == MaxLines \in Nat

VARIABLES
  cpc,        \* where in main / repl::run the client is: in one of
              \* ClientWriting, "awaiting", "repl", "closing", "lingering"
              \* (the socket is dropped, the process is not over) or "exit"
  carm,       \* the arm of the REPL's select to be polled next, or whose
              \* body runs: beyond "stdin", a read of stdin is pending
  half,       \* the frame whose first chunk the decoder holds, or "none"
  typed,      \* lines read from stdin
  told,       \* the Goodbye has been shown
  outcome,    \* how the client ended: "running" until then; "left" and
              \* "killed" are the user's doing; the server "rejected" it,
              \* "closed" the session, or did so before its first frame
              \* ("unanswered"); the rest are errors: "unexpected" first
              \* frame, "garbled" or "truncated" stream, "reset", a "broken"
              \* send, an error of "stdin"
  reset,      \* the session's kernel answers the client's frames with RST
  parting     \* history: the token has ended the session's loop and its
              \* "goodbye" is being written or out, or is "unsent"; or "none"

client == <<cpc, carm, half, typed, told, outcome>>
allVars == <<vars, client, reset, parting>>

\* Phases in which the client awaits socket.send(..).
ClientWriting == {"greeting", "sending", "ponging", "leaving"}

\* The socket is gone.
HungUp == cpc \in {"lingering", "exit"}

-----------------------------------------------------------------------------

\* main has connected and writes its Hello.
ConnInit ==
  /\ Init
  /\ cpc = "greeting" /\ carm = "stdin" /\ half = "none"
  /\ typed = 0 /\ told = FALSE /\ outcome = "running"
  /\ reset = FALSE /\ parting = "none"

ClientGoto(phase) ==
  cpc' = phase /\ carm' = "stdin" /\ UNCHANGED outcome

\* break, bail! or `?`: the socket is about to be dropped and main returns.
Stop(how) == cpc' = "closing" /\ outcome' = how /\ UNCHANGED carm

\* What parse_command makes of a trimmed line: its first word, and whether
\* anything follows it.
Lines == [head : {"", "send", "leave", "word"}, tail : BOOLEAN]

parse_command(line) ==
  CASE line.head = "" -> "Blank"
    [] line.head = "send" -> IF line.tail THEN "Send" ELSE "Invalid"
    [] line.head = "leave" -> IF line.tail THEN "Invalid" ELSE "Leave"
    [] OTHER -> "Unknown"

\* First arm of the biased select: a line, end of input, an error of stdin
\* (or a body too long to encode), or none yet.
PollStdin ==
  /\ cpc = "repl" /\ carm = "stdin"
  /\ \/ /\ typed < MaxLines
        /\ typed' = typed + 1
        /\ \E line \in Lines :
             CASE parse_command(line) = "Send" -> ClientGoto("sending")
               [] parse_command(line) = "Leave" -> ClientGoto("leaving")
               [] OTHER -> ClientGoto("repl")
     \/ ClientGoto("leaving") /\ UNCHANGED typed
     \/ Stop("stdin") /\ UNCHANGED typed
     \/ carm' = "socket" /\ UNCHANGED <<cpc, typed, outcome>>
  /\ UNCHANGED <<vars, half, told, reset>>

\* The bug of a REPL that leaves Pings to the user.
ShowFrameIgnoresPing(f) ==
  IF f = "Rejected" THEN Stop("rejected") ELSE ClientGoto("repl")

\* What the REPL does with a decoded frame: answer a Ping, leave after a
\* Rejected, print everything else.
ShowFrame(f) ==
  CASE f = "Ping" -> cpc' = "ponging" /\ UNCHANGED <<carm, outcome>>
    [] f = "Rejected" -> Stop("rejected")
    [] OTHER -> ClientGoto("repl")

\* main's match on the first frame.
FirstFrame(f) ==
  CASE f = "Welcome" -> ClientGoto("repl")
    [] f = "Rejected" -> Stop("rejected")
    [] OTHER -> Stop("unexpected")

Reading == cpc = "awaiting" \/ (cpc = "repl" /\ carm = "socket")

\* socket.next(): read a chunk; a frame is decoded when it is complete, and
\* a chunk that is not the next one of the stream is decoded as garbage.
ReadChunk ==
  /\ Reading
  /\ PeerRead
  /\ LET chunk == Head(s2c) IN
     \/ /\ chunk.part = 1 /\ half = "none"
        /\ half' = chunk.frame
        /\ UNCHANGED <<cpc, carm, told, outcome>>
     \/ /\ chunk.part = 2 /\ half = chunk.frame
        /\ half' = "none"
        /\ told' = (told \/ chunk.frame = "Goodbye")
        /\ IF cpc = "repl" THEN ShowFrame(chunk.frame)
                           ELSE FirstFrame(chunk.frame)
     \/ /\ half # IF chunk.part = 1 THEN "none" ELSE chunk.frame
        /\ Stop("garbled")
        /\ UNCHANGED <<half, told>>
  /\ UNCHANGED <<typed, reset>>

\* A bug: None from the socket is taken for nothing to read.
ReadNothingIgnoresEof ==
  /\ Reading /\ s2c = <<>> /\ cpc = "repl"
  /\ ClientGoto("repl")
  /\ UNCHANGED <<vars, half, typed, told, reset>>

\* Nothing to read: end of stream once the session is gone, else Pending.
ReadNothing ==
  /\ Reading /\ s2c = <<>>
  /\ \/ /\ pc = "done"
        /\ Stop(IF half # "none" THEN "truncated"
                ELSE IF cpc = "repl" THEN "closed" ELSE "unanswered")
     \/ /\ pc # "done" /\ cpc = "repl"
        /\ ClientGoto("repl")
  /\ UNCHANGED <<vars, half, typed, told, reset>>

-----------------------------------------------------------------------------
(* Writing and hanging up.                                                 *)

\* The frame the pending send carries: the username and the body are the
\* user's, unchecked by the client.
Outgoing ==
  CASE cpc = "greeting" -> {"Hello", "BadHello"}
    [] cpc = "sending" -> {"Send", "BadSend"}
    [] cpc = "ponging" -> {"Pong"}
    [] OTHER -> {"Leave"}

AfterSend ==
  CASE cpc = "greeting" -> ClientGoto("awaiting")
    [] cpc = "leaving" -> Stop("left")
    [] OTHER -> ClientGoto("repl")

\* socket.send(..).await: waits until the connection has room; towards a
\* session that is gone the bytes are taken and lost, and answered by a reset.
ClientWrite ==
  /\ cpc \in ClientWriting
  /\ \/ /\ \E f \in Outgoing : PeerPuts(f) /\ UNCHANGED sent
        /\ UNCHANGED reset
     \/ pc = "done" /\ reset' = TRUE /\ UNCHANGED vars
  /\ AfterSend
  /\ UNCHANGED <<half, typed, told>>

\* The send returns an error: the connection was reset.  At the end of stdin
\* the error is ignored.
ClientWriteFails ==
  /\ cpc \in ClientWriting /\ reset
  /\ \/ Stop("broken")
     \/ cpc = "leaving" /\ Stop("left")
  /\ UNCHANGED <<vars, half, typed, told, reset>>

\* The client's socket is dropped or dies with the process.  What the client
\* sent still reaches the session unless there was something left to read.
HangUp(phase) ==
  /\ cpc' = phase
  /\ PeerClose /\ (s2c = <<>> => UNCHANGED c2s)
  /\ UNCHANGED <<carm, half, typed, told, reset>>

\* The socket is dropped, then the runtime, which waits for a pending read.
Close ==
  /\ cpc = "closing"
  /\ HangUp(IF carm = "socket" THEN "lingering" ELSE "exit")
  /\ UNCHANGED outcome

\* The reset overtakes what the session wrote last: the read fails.
Reset ==
  /\ Reading /\ reset
  /\ HangUp(IF carm = "socket" THEN "lingering" ELSE "exit")
  /\ outcome' = "reset"

\* Ctrl-C or a crash, at any point.
Killed ==
  /\ cpc # "closing" /\ ~HungUp
  /\ HangUp("exit")
  /\ outcome' = "killed"

\* Enter, end of input or Ctrl-C: the pending read returns or dies.
LastLine ==
  /\ cpc = "lingering"
  /\ cpc' = "exit"
  /\ UNCHANGED <<vars, carm, half, typed, told, outcome, reset>>

ClientStep ==
  \/ PollStdin \/ ReadChunk \/ ReadNothing
  \/ ClientWrite \/ ClientWriteFails \/ Close

\* The token's arm ends the loop of a welcomed client's session.
TokenArm == cancelled /\ arm = "shutdown" /\ pc = "loop"

\* A step of the session, with what its kernel does when the socket is
\* closed over frames nobody read, and what became of the goodbye.
ServerRuns ==
  /\ SessionStep
  /\ reset' = (reset \/ (pc' = "done" /\ c2s' # <<>>))
  /\ parting' = IF TokenArm THEN "goodbye"
                ELSE IF pc = "goodbye" /\ pc' # pc /\ s2c' = s2c THEN "unsent"
                ELSE parting
  /\ UNCHANGED client

BothEnded == pc = "done" /\ cpc = "exit" /\ UNCHANGED allVars

ConnNext ==
  \/ (ClientStep \/ Reset \/ Killed \/ LastLine) /\ UNCHANGED parting
  \/ ServerRuns
  \/ (Deliver \/ Cancel \/ TimerFires) /\ UNCHANGED <<client, reset, parting>>
  \/ BothEnded

ConnSpec == ConnInit /\ [][ConnNext]_allVars

\* Both runtimes run a ready task and time passes; the user owes nothing.
FairConnSpec ==
  /\ ConnSpec
  /\ WF_allVars(ClientStep /\ UNCHANGED parting)
  /\ WF_allVars(ServerRuns)
  /\ WF_allVars(TimerFires /\ UNCHANGED <<client, reset, parting>>)

-----------------------------------------------------------------------------
(* Properties.                                                             *)

\* Between this client and this server the branches that guard against a
\* broken partner are dead: the client never meets an unexpected first frame
\* (main.rs, `other => bail!`) or an undecodable stream, the session never a
\* second Hello; a stream cut inside a frame is the goodbye's timeout.
SidesAgree ==
  /\ outcome \notin {"unexpected", "garbled"}
  /\ outcome = "truncated" => cut
  /\ pc # "violation"

\* A client that a Ping has reached turns to its Pong, although it may be
\* busy with stdin or another send ("Client should reply with Pong", protocol
\* ServerFrame::Ping), and gets it out; it is not dropped as idle instead.
PingAnswered ==
  /\ (half = "Ping") ~>
        \/ cpc = "ponging" \/ parting # "none"
        \/ outcome \notin {"running", "closed"}
  /\ (cpc = "ponging") ~> (cpc # "ponging")

\* Shutdown of the server ends the connection, wherever the client waits:
\* it sees the end of the stream and lets go of its socket.  That the process
\* is over too takes one more line from the user (LastLine).
ShutdownReachesClient == cancelled ~> HungUp

\* However the client ends, its session ends and frees the username: "when a
\* user sends a leave message, or disconnects their client, the server should
\* [...] clean up" (README.md).
HangUpFreesName == HungUp ~> (pc = "done" /\ claim # "held")

\* A message the user sends gets through: "all code should be non-blocking"
\* (README.md).
SendCompletes == (cpc = "sending") ~> (cpc # "sending")

\* "no clients left guessing why they got an RST" (lib.rs): a welcomed client
\* whose session was ended by the token has been shown the goodbye, however
\* the connection ended for it, unless the goodbye was not written in time,
\* its user was gone first, or a frame of its own crossed the shutdown and
\* was answered by a reset, which may overtake the goodbye.
ToldWhy ==
  /\ parting = "goodbye"
  /\ outcome \notin {"running", "left", "killed", "stdin", "rejected"}
  => told \/ reset

=============================================================================
