------------------------------- MODULE Server -------------------------------
(***************************************************************************)
(* The server process: main (server/src/main.rs), the accept loop and its  *)
(* drain (serve in server/src/lib.rs), and its clients' connections.  What *)
(* a session does inside is module Session; of it only what takes time is  *)
(* left here: it waits in a select that polls the token, in a write of an  *)
(* arm's body, which does not, or in its goodbye, which has a timeout.     *)
(***************************************************************************)
EXTENDS Integers, FiniteSets

CONSTANTS
  Conns,          \* connections clients may open
  GoodbyeTimeout, \* shutdown_goodbye_timeout, in units of time
  DrainBudget     \* GRACEFUL_DRAIN_BUDGET, in the same units

ASSUME ServerAssumption ==
  /\ IsFiniteSet(Conns)
  /\ GoodbyeTimeout \in Nat \ {0} /\ DrainBudget \in Nat
  /\ GoodbyeTimeout < DrainBudget

VARIABLES
  main,       \* "waiting" for a signal, "draining", "exited"
  exit,       \* the result of main: "none", "ok" or "err"
  serve,      \* the serve task: "accepting", "draining", "returned"
  arm,        \* the arm of its select to be polled next
  result,     \* accept_result: "ok" or "err"
  cancelled,  \* the shutdown token
  sessions,   \* the JoinSet: session tasks not joined yet
  stage,      \* where each connection is
  slow,       \* sessions whose peer does not read what they write
  parted,     \* when a session began its goodbye
  clock,      \* time since the signal
  stuck,      \* history: sessions that spent time of the drain in the write
              \* of an arm's body
  late        \* history: connections accepted after the cancellation

process == <<main, exit>>
loop == <<serve, arm, result>>
peers == <<slow, parted>>
history == <<stuck, late>>
vars == <<process, loop, cancelled, sessions, stage, peers, clock, history>>

\* "away": not opened; "backlog": completed by the kernel, not accepted;
\* its session task waits in the "handshake", is "writing" in the body of an
\* arm (or its Welcome), waits as a "member" or is "parting"; "finished": the
\* task has ended; "cut": dropped with the runtime; "dropped": closed
\* unaccepted; "refused": nobody listens.
InSession == {"handshake", "writing", "member", "parting"}
Stages == InSession \cup
            {"away", "backlog", "finished", "cut", "dropped", "refused"}

Running == {c \in Conns : stage[c] \in InSession}
Backlog == {c \in Conns : stage[c] = "backlog"}

TypeOK ==
  /\ main \in {"waiting", "draining", "exited"}
  /\ exit \in {"none", "ok", "err"}
  /\ main = "exited" <=> exit # "none"
  /\ serve \in {"accepting", "draining", "returned"}
  /\ arm \in {"shutdown", "accept"}
  /\ result \in {"ok", "err"}
  /\ cancelled \in BOOLEAN
  /\ sessions \subseteq Conns
  /\ stage \in [Conns -> Stages]
  /\ slow \subseteq Conns
  /\ parted \in [Conns -> 0 .. DrainBudget]
  /\ clock \in 0 .. DrainBudget
  /\ stuck \subseteq Conns /\ late \subseteq Conns

\* main has bound the listener and spawned serve.
Init ==
  /\ main = "waiting" /\ exit = "none"
  /\ serve = "accepting" /\ arm = "shutdown" /\ result = "ok"
  /\ cancelled = FALSE
  /\ sessions = {} /\ slow = {} /\ stuck = {} /\ late = {}
  /\ stage = [c \in Conns |-> "away"]
  /\ parted = [c \in Conns |-> 0]
  /\ clock = 0

Up == main # "exited"

-----------------------------------------------------------------------------
(* serve.                                                                  *)

\* A bug: the arms in the other order.
PollShutdownSecond ==
  /\ Up /\ serve = "accepting"
  /\ \/ /\ cancelled /\ Backlog = {}
        /\ serve' = "draining" /\ UNCHANGED arm
     \/ /\ arm = "shutdown" /\ ~(cancelled /\ Backlog = {})
        /\ arm' = "accept" /\ UNCHANGED serve
  /\ UNCHANGED <<process, result, cancelled, sessions, stage, peers, clock,
                 history>>

\* biased select, first arm: the token ends the loop.
PollShutdown ==
  /\ Up /\ serve = "accepting" /\ arm = "shutdown"
  /\ \/ cancelled /\ serve' = "draining" /\ UNCHANGED arm
     \/ ~cancelled /\ arm' = "accept" /\ UNCHANGED serve
  /\ UNCHANGED <<process, result, cancelled, sessions, stage, peers, clock,
                 history>>

\* A bug: the loop awaits session.run() itself instead of spawning a task.
PollAcceptInline ==
  /\ Up /\ serve = "accepting" /\ arm = "accept" /\ Running = {}
  /\ \/ \E c \in Backlog :
          /\ stage' = [stage EXCEPT ![c] = "handshake"]
          /\ sessions' = sessions \cup {c}
          /\ late' = IF cancelled THEN late \cup {c} ELSE late
     \/ Backlog = {} /\ UNCHANGED <<stage, sessions, late>>
  /\ arm' = "shutdown"
  /\ UNCHANGED <<process, serve, result, cancelled, peers, clock, stuck>>

\* Second arm: accept a connection and spawn its session, with a child of
\* the token; nothing is waiting otherwise.
PollAccept ==
  /\ Up /\ serve = "accepting" /\ arm = "accept"
  /\ \/ \E c \in Backlog :
          /\ stage' = [stage EXCEPT ![c] = "handshake"]
          /\ sessions' = sessions \cup {c}
          /\ late' = IF cancelled THEN late \cup {c} ELSE late
     \/ Backlog = {} /\ UNCHANGED <<stage, sessions, late>>
  /\ arm' = "shutdown"
  /\ UNCHANGED <<process, serve, result, cancelled, peers, clock, stuck>>

\* accept() fails: whatever the error, a transient one too, the loop ends.
AcceptFails ==
  /\ Up /\ serve = "accepting" /\ arm = "accept"
  /\ serve' = "draining" /\ result' = "err"
  /\ UNCHANGED <<process, arm, cancelled, sessions, stage, peers, clock,
                 history>>

\* while sessions.join_next().await.is_some() {}: one task that has ended.
JoinNext ==
  /\ Up /\ serve = "draining"
  /\ \E c \in sessions \ Running : sessions' = sessions \ {c}
  /\ UNCHANGED <<process, loop, cancelled, stage, peers, clock, history>>

\* The listener goes with serve: connections nobody accepted are closed.
DropBacklog ==
  [c \in Conns |-> IF stage[c] = "backlog" THEN "dropped" ELSE stage[c]]

Drained == sessions = {}

Return ==
  /\ Up /\ serve = "draining" /\ Drained
  /\ serve' = "returned"
  /\ stage' = DropBacklog
  /\ UNCHANGED <<process, arm, result, cancelled, sessions, peers, clock,
                 history>>

-----------------------------------------------------------------------------
(* main.                                                                   *)

\* wait_for_signal returns, and main cancels the token.
Signal ==
  /\ main = "waiting"
  /\ main' = "draining" /\ cancelled' = TRUE
  /\ UNCHANGED <<exit, loop, sessions, stage, peers, clock, history>>

\* timeout(.., server_task): serve has returned, and its result is main's.
ServeReturned ==
  /\ main = "draining" /\ serve = "returned"
  /\ main' = "exited"
  /\ exit' = result
  /\ UNCHANGED <<loop, cancelled, sessions, stage, peers, clock, history>>

\* The budget is used up: 5 s in the code.
BudgetNever == FALSE
BudgetElapsed == clock = DrainBudget

\* timeout(.., server_task) elapses: main returns Ok, and the runtime drops
\* serve, its listener and the sessions that are left.
GiveUp ==
  /\ main = "draining" /\ serve # "returned" /\ BudgetElapsed
  /\ main' = "exited" /\ exit' = "ok"
  /\ stage' = [c \in Conns |-> IF c \in Running THEN "cut" ELSE DropBacklog[c]]
  /\ UNCHANGED <<loop, cancelled, sessions, peers, clock, history>>

-----------------------------------------------------------------------------
(* Clients and their sessions.                                             *)

\* The client connects; the listener lives as long as serve does.
Connect(c) ==
  /\ Up /\ stage[c] = "away"
  /\ stage' = [stage EXCEPT ![c] =
                 IF serve = "returned" THEN "refused" ELSE "backlog"]
  /\ UNCHANGED <<process, loop, cancelled, sessions, peers, clock, history>>

\* The session goes from one of these stages to another.
Moves(c, from, to) ==
  /\ Up /\ stage[c] = from
  /\ stage' = [stage EXCEPT ![c] = to]
  /\ UNCHANGED <<process, loop, cancelled, sessions, slow, clock, history>>

\* The Hello is in, or an arm other than the token's has won, and the body
\* writes.  One that wins although the token was cancelled since it was
\* polled (Session, SelectPriorities) is as one that won just before.
StartWrite(c) ==
  /\ ~cancelled
  /\ Moves(c, "handshake", "writing") \/ Moves(c, "member", "writing")
  /\ UNCHANGED parted

\* The peer has taken the frame: back to the select.
Written(c) ==
  /\ c \notin slow
  /\ Moves(c, "writing", "member")
  /\ UNCHANGED parted

\* The token's arm: the goodbye.
Part(c) ==
  /\ cancelled
  /\ Moves(c, "member", "parting")
  /\ parted' = [parted EXCEPT ![c] = clock]

\* Session::run returns (or panics): the client left or was rejected, a
\* timeout, an error, the token; the task stays in the JoinSet.
Finish(c) ==
  /\ Up /\ c \in Running
  /\ stage' = [stage EXCEPT ![c] = "finished"]
  /\ slow' = slow \ {c} /\ parted' = [parted EXCEPT ![c] = 0]
  /\ UNCHANGED <<process, loop, cancelled, sessions, clock, history>>

\* The peer stops reading while its session writes.
StopReading(c) ==
  /\ Up /\ stage[c] \in {"writing", "parting"} /\ c \notin slow
  /\ slow' = slow \cup {c}
  /\ UNCHANGED <<process, loop, cancelled, sessions, stage, parted, clock,
                 history>>

-----------------------------------------------------------------------------
(* Time.                                                                   *)

\* A bug: the goodbye is written without its timeout.
GoodbyeOverUntimed(c) == c \notin slow

\* The goodbye is written, or shutdown_goodbye_timeout has elapsed.
GoodbyeOver(c) == c \notin slow \/ clock >= parted[c] + GoodbyeTimeout

\* What the session task waits for has happened.
Ready(c) ==
  \/ stage[c] \in {"handshake", "member"} /\ cancelled
  \/ stage[c] = "writing" /\ c \notin slow
  \/ stage[c] = "parting" /\ GoodbyeOver(c)

\* What serve or main waits for has happened.
ServerReady ==
  \/ serve = "accepting" /\ cancelled
  \/ serve = "draining" /\ (Drained \/ sessions \ Running # {})
  \/ serve = "returned"

\* Time passes after the signal, in units long enough for ready tasks to be
\* run; until the next one, some peers have gone on reading.
Elapse ==
  /\ main = "draining" /\ clock < DrainBudget
  /\ ~ServerReady /\ \A c \in Conns : ~Ready(c)
  /\ clock' = clock + 1
  /\ slow' \in SUBSET slow
  /\ stuck' = stuck \cup {c \in Conns : stage[c] = "writing"}
  /\ UNCHANGED <<process, loop, cancelled, sessions, stage, parted, late>>

Exited == main = "exited" /\ UNCHANGED vars

ServeStep ==
  \/ PollShutdown \/ PollAccept \/ AcceptFails \/ JoinNext \/ Return
MainStep == Signal \/ ServeReturned \/ GiveUp
SessionStep(c) == StartWrite(c) \/ Written(c) \/ Part(c) \/ Finish(c)
ConnStep(c) == Connect(c) \/ SessionStep(c) \/ StopReading(c)

Next ==
  \/ ServeStep \/ MainStep \/ Elapse \/ Exited
  \/ \E c \in Conns : ConnStep(c)

Spec == Init /\ [][Next]_vars

\* The runtime runs serve, main and every session task that is ready, and
\* time passes; nothing is assumed of clients, of slow peers, of accept
\* errors or of the signal.
FairSpec ==
  /\ Spec
  /\ WF_vars(PollShutdown \/ PollAccept \/ JoinNext \/ Return)
  /\ WF_vars(ServeReturned \/ GiveUp) /\ WF_vars(Elapse)
  /\ \A c \in Conns : WF_vars(Ready(c) /\ SessionStep(c))

-----------------------------------------------------------------------------
(* Properties.                                                             *)

\* "a flood of new connections cannot starve a pending shutdown" (lib.rs): at
\* most the one accept whose turn had come slips in after the cancellation.
ShutdownBeatsAccept == Cardinality(late) <= 1

\* "Awaits all session tasks before returning" (lib.rs), "graceful shutdown
\* with a bounded drain" (main.rs): no session runs when serve has returned,
\* nobody is left behind waiting, and the budget cuts short only sessions
\* that a slow peer kept in an arm's write during the drain: the goodbye's
\* own timeout is over in time for all the others, however accepts, writes,
\* exits and the signal fall.
OrderlyDrain ==
  /\ serve = "returned" => Running = {}
  /\ \A c \in Conns : stage[c] = "cut" => c \in stuck
  /\ main = "exited" => Running \cup Backlog = {}

\* A signal ends the process, slow peers or not (GRACEFUL_DRAIN_BUDGET).
SignalEndsProcess == cancelled ~> (main = "exited")

\* A connection the kernel took is accepted or closed, unless accept() has
\* failed: then serve drains and main goes on waiting for its signal.
BacklogServed ==
  \A c \in Conns : (stage[c] = "backlog") ~>
                      (stage[c] # "backlog" \/ result # "ok")

=============================================================================
