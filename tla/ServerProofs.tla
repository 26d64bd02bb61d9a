---------------------------- MODULE ServerProofs ----------------------------
(***************************************************************************)
(* Proofs about Server for any set of connections and any goodbye timeout  *)
(* shorter than the drain budget.                                          *)
(***************************************************************************)
EXTENDS Server, FiniteSetTheorems, TLAPS

\* At most one accept, the one whose turn had come, follows the token: when
\* the loop has accepted it, the token's arm is next and ends the loop.
AcceptWindow ==
  /\ ~cancelled => late = {}
  /\ (serve = "accepting" /\ arm = "accept") => late = {}
  /\ late = {} \/ \E c \in Conns : late = {c}

\* Where sessions and waiting connections may still be.
DrainStages ==
  /\ Running \subseteq sessions
  /\ serve = "returned" => sessions = {} /\ Backlog = {}
  /\ main = "exited" => Running = {} /\ Backlog = {}

\* Once time has passed since the signal, a session that no arm's write holds
\* up began its goodbye at once, and the timeout is not over.
Timely ==
  /\ main = "draining" => cancelled
  /\ clock > 0 => cancelled /\ serve # "accepting"
  /\ \A c \in Conns : parted[c] <= clock
  /\ \A c \in Running \ stuck : clock > 0 =>
        /\ stage[c] = "parting" /\ parted[c] = 0
        /\ clock <= GoodbyeTimeout
  /\ \A c \in Conns : stage[c] = "cut" => c \in stuck

-----------------------------------------------------------------------------

\* The types hold initially.
LEMMA TypeInit == Init => TypeOK
  <1> SUFFICES ASSUME Init PROVE TypeOK
    OBVIOUS
  <1>1. cancelled \in BOOLEAN
    BY DEF Init
  <1>2. stage \in [Conns -> Stages]
    BY DEF Init, Stages
  <1>3. clock \in 0 .. DrainBudget /\ parted \in [Conns -> 0 .. DrainBudget]
    BY ServerAssumption DEF Init
  <1> QED
    BY <1>1, <1>2, <1>3 DEF Init, TypeOK

\* Every step keeps the types.
LEMMA TypeNext == TypeOK /\ [Next]_vars => TypeOK'
  <1> SUFFICES ASSUME TypeOK, [Next]_vars PROVE TypeOK'
    OBVIOUS
  <1> USE ServerAssumption DEF TypeOK, process, loop, peers, history
  <1>1. ASSUME PollShutdown PROVE TypeOK'
    BY <1>1 DEF PollShutdown
  <1>2. ASSUME PollAccept PROVE TypeOK'
    BY <1>2 DEF PollAccept, Backlog, Stages, InSession
  <1>3. ASSUME AcceptFails PROVE TypeOK'
    BY <1>3 DEF AcceptFails
  <1>4. ASSUME JoinNext PROVE TypeOK'
    BY <1>4 DEF JoinNext
  <1>5. DropBacklog \in [Conns -> Stages]
    BY DEF DropBacklog, Stages, InSession
  <1>6. ASSUME Return PROVE TypeOK'
    BY <1>5, <1>6 DEF Return
  <1>7. ASSUME Signal \/ ServeReturned PROVE TypeOK'
    BY <1>7 DEF Signal, ServeReturned
  <1>8. ASSUME GiveUp PROVE TypeOK'
    <2>1. stage' \in [Conns -> Stages]
      BY <1>5, <1>8 DEF GiveUp, Stages, InSession
    <2> QED
      BY <1>8, <2>1 DEF GiveUp
  <1>9. ASSUME Elapse PROVE TypeOK'
    BY <1>9 DEF Elapse
  <1>10. ASSUME NEW c \in Conns, ConnStep(c) PROVE TypeOK'
    <2>1. CASE Connect(c) \/ StopReading(c)
      BY <2>1 DEF Connect, StopReading, Stages, InSession
    <2>2. CASE StartWrite(c) \/ Written(c)
      BY <2>2 DEF StartWrite, Written, Moves, Stages, InSession
    <2>3. CASE Part(c)
      BY <2>3 DEF Part, Moves, Stages, InSession
    <2>4. CASE Finish(c)
      BY <2>4 DEF Finish, Stages, InSession
    <2> QED
      BY <1>10, <2>1, <2>2, <2>3, <2>4 DEF ConnStep, SessionStep
  <1>11. ASSUME UNCHANGED vars PROVE TypeOK'
    BY <1>11 DEF vars
  <1> QED
    BY <1>1, <1>2, <1>3, <1>4, <1>6, <1>7, <1>8, <1>9, <1>10, <1>11
    DEF Next, ServeStep, MainStep, Exited

\* Every variable keeps its type; main has a result exactly when it has
\* exited, and time stops at the drain budget.
THEOREM TypeCorrect == Spec => []TypeOK
  BY TypeInit, TypeNext, PTL DEF Spec

-----------------------------------------------------------------------------
(* The biased select of the accept loop.                                   *)

\* Every step keeps the window.
LEMMA WindowNext == TypeOK /\ AcceptWindow /\ [Next]_vars => AcceptWindow'
  <1> SUFFICES ASSUME TypeOK, AcceptWindow, [Next]_vars PROVE AcceptWindow'
    OBVIOUS
  <1> USE DEF AcceptWindow, process, loop, history
  <1>1. ASSUME PollShutdown PROVE AcceptWindow'
    BY <1>1 DEF PollShutdown
  <1>2. ASSUME PollAccept PROVE AcceptWindow'
    <2>1. late = {} /\ arm' = "shutdown" /\ cancelled' = cancelled
      BY <1>2 DEF PollAccept
    <2>2. CASE late' = {}
      BY <2>1, <2>2
    <2>3. ASSUME NEW c \in Conns, cancelled, late' = {c}
          PROVE  AcceptWindow'
      BY <2>1, <2>3
    <2>4. \/ late' = {}
          \/ \E c \in Conns : cancelled /\ late' = {c}
      BY <1>2, <2>1 DEF PollAccept, Backlog
    <2> QED
      BY <2>2, <2>3, <2>4
  <1>3. ASSUME AcceptFails \/ JoinNext \/ Return PROVE AcceptWindow'
    BY <1>3 DEF AcceptFails, JoinNext, Return
  <1>4. ASSUME Signal \/ ServeReturned \/ GiveUp \/ Elapse
        PROVE  AcceptWindow'
    BY <1>4 DEF Signal, ServeReturned, GiveUp, Elapse
  <1>5. ASSUME NEW c \in Conns, ConnStep(c) PROVE AcceptWindow'
    BY <1>5 DEF ConnStep, SessionStep, Connect, StartWrite, Written, Part,
                Moves, Finish, StopReading
  <1>6. ASSUME UNCHANGED vars PROVE AcceptWindow'
    BY <1>6 DEF vars
  <1> QED
    BY <1>1, <1>2, <1>3, <1>4, <1>5, <1>6
    DEF Next, ServeStep, MainStep, Exited

\* However many connections are waiting, the token is honoured after at most
\* one more accept.
THEOREM ShutdownFirst == Spec => []ShutdownBeatsAccept
  <1>1. Init => AcceptWindow
    BY DEF Init, AcceptWindow
  <1>2. AcceptWindow => ShutdownBeatsAccept
    BY FS_EmptySet, FS_Singleton DEF AcceptWindow, ShutdownBeatsAccept
  <1> QED
    BY <1>1, <1>2, TypeInit, TypeNext, WindowNext, PTL DEF Spec

-----------------------------------------------------------------------------
(* The drain.                                                              *)

\* What a step of one connection does to its stage.
LEMMA ConnMoves ==
  ASSUME TypeOK, NEW c \in Conns, ConnStep(c)
  PROVE  /\ UNCHANGED <<main, serve, sessions, cancelled, clock, stuck>>
         /\ main # "exited"
         /\ \A d \in Conns \ {c} : stage'[d] = stage[d] /\ parted'[d] = parted[d]
         /\ \/ /\ stage[c] = "away" /\ parted' = parted
               /\ stage'[c] = IF serve = "returned" THEN "refused" ELSE "backlog"
            \/ stage'[c] = stage[c] /\ parted' = parted
            \/ ~cancelled /\ stage[c] \in {"handshake", "member"}
               /\ stage'[c] = "writing" /\ parted' = parted
            \/ /\ stage[c] = "writing" /\ stage'[c] = "member" /\ parted' = parted
            \/ /\ cancelled /\ stage[c] = "member" /\ stage'[c] = "parting"
               /\ parted'[c] = clock
            \/ stage[c] \in InSession /\ stage'[c] = "finished" /\ parted'[c] = 0
  <1>0. stage \in [Conns -> Stages] /\ parted \in [Conns -> 0 .. DrainBudget]
    BY DEF TypeOK
  <1> USE DEF process, loop, peers, history, Up
  <1>1. CASE Connect(c) \/ StopReading(c)
    BY <1>0, <1>1 DEF Connect, StopReading
  <1>2. CASE StartWrite(c) \/ Written(c)
    BY <1>0, <1>2 DEF StartWrite, Written, Moves
  <1>3. CASE Part(c)
    BY <1>0, <1>3 DEF Part, Moves
  <1>4. CASE Finish(c)
    BY <1>0, <1>4 DEF Finish, Running
  <1> QED
    BY <1>1, <1>2, <1>3, <1>4 DEF ConnStep, SessionStep

\* Every step keeps the stages of the drain.
LEMMA DrainNext == TypeOK /\ DrainStages /\ [Next]_vars => DrainStages'
  <1> SUFFICES ASSUME TypeOK, DrainStages, [Next]_vars PROVE DrainStages'
    OBVIOUS
  <1>0. stage \in [Conns -> Stages]
    BY DEF TypeOK
  <1> USE DEF DrainStages, Running, Backlog, InSession, process, loop
  <1>1. ASSUME PollShutdown \/ AcceptFails \/ JoinNext PROVE DrainStages'
    BY <1>1 DEF PollShutdown, AcceptFails, JoinNext
  <1>2. ASSUME PollAccept PROVE DrainStages'
    BY <1>0, <1>2 DEF PollAccept, Up
  <1>3. \A c \in Conns : DropBacklog[c] =
           IF stage[c] = "backlog" THEN "dropped" ELSE stage[c]
    BY DEF DropBacklog
  <1>4. ASSUME Return PROVE DrainStages'
    BY <1>0, <1>3, <1>4 DEF Return, Drained, Up
  <1>5. ASSUME Signal \/ ServeReturned \/ Elapse PROVE DrainStages'
    BY <1>5 DEF Signal, ServeReturned, Elapse
  <1>6. ASSUME GiveUp PROVE DrainStages'
    <2>1. /\ serve # "returned" /\ serve' = serve
          /\ \A c \in Conns :
               stage'[c] = IF c \in Running THEN "cut" ELSE DropBacklog[c]
      BY <1>6 DEF GiveUp
    <2>2. \A c \in Conns : stage'[c] \notin InSession \cup {"backlog"}
      BY <1>3, <2>1
    <2> QED
      BY <2>1, <2>2
  <1>7. ASSUME NEW c \in Conns, ConnStep(c) PROVE DrainStages'
    BY <1>7, ConnMoves
  <1>8. ASSUME UNCHANGED vars PROVE DrainStages'
    BY <1>8 DEF vars
  <1> QED
    BY <1>1, <1>2, <1>4, <1>5, <1>6, <1>7, <1>8
    DEF Next, ServeStep, MainStep, Exited

\* Every step keeps the sessions on time.
LEMMA TimelyNext == TypeOK /\ Timely /\ [Next]_vars => Timely'
  <1> SUFFICES ASSUME TypeOK, Timely, [Next]_vars PROVE Timely'
    OBVIOUS
  <1>0. /\ clock \in Nat /\ GoodbyeTimeout \in Nat \ {0} /\ DrainBudget \in Nat
        /\ GoodbyeTimeout < DrainBudget /\ stage \in [Conns -> Stages]
        /\ parted \in [Conns -> Nat]
    BY ServerAssumption DEF TypeOK
  <1> USE DEF Timely, Running, InSession, process, loop, peers, history
  <1>1. ASSUME PollShutdown \/ AcceptFails \/ JoinNext PROVE Timely'
    BY <1>1 DEF PollShutdown, AcceptFails, JoinNext
  <1>2. ASSUME PollAccept PROVE Timely'
    <2>1. /\ clock = 0 /\ UNCHANGED <<serve, main, cancelled, clock, parted, stuck>>
          /\ \A c \in Conns : stage'[c] \in {stage[c], "handshake"}
      BY <1>0, <1>2 DEF PollAccept
    <2> QED
      BY <1>0, <2>1
  <1>3. \A c \in Conns : DropBacklog[c] =
           IF stage[c] = "backlog" THEN "dropped" ELSE stage[c]
    BY DEF DropBacklog
  <1>4. ASSUME Return PROVE Timely'
    BY <1>0, <1>3, <1>4 DEF Return
  <1>5. ASSUME Signal \/ ServeReturned PROVE Timely'
    BY <1>5 DEF Signal, ServeReturned
  <1>6. ASSUME GiveUp PROVE Timely'
    <2>1. /\ main' = "exited" /\ clock = DrainBudget
          /\ UNCHANGED <<serve, cancelled, clock, parted, stuck>>
          /\ \A c \in Conns :
               stage'[c] = IF c \in Running THEN "cut" ELSE DropBacklog[c]
      BY <1>6 DEF GiveUp, BudgetElapsed
    <2>2. Running \subseteq stuck
      BY <1>0, <2>1
    <2> QED
      BY <1>0, <1>3, <2>1, <2>2
  <1>7. ASSUME Elapse PROVE Timely'
    <2>1. /\ main = "draining" /\ clock' = clock + 1
          /\ UNCHANGED <<main, serve, cancelled, stage, parted>>
          /\ ~ServerReady /\ \A c \in Conns : ~Ready(c)
          /\ stuck' = stuck \cup {c \in Conns : stage[c] = "writing"}
      BY <1>7 DEF Elapse
    <2>2. cancelled /\ serve # "accepting"
      BY <2>1 DEF ServerReady
    <2>3. ASSUME NEW c \in Running \ stuck'
          PROVE  stage[c] = "parting" /\ parted[c] = 0 /\ clock < GoodbyeTimeout
      <3>1. c \in Conns /\ c \notin stuck /\ stage[c] = "parting"
        BY <2>1, <2>2, <2>3 DEF Ready
      <3>2. parted[c] = 0
        BY <1>0, <3>1
      <3>3. ~ (clock >= parted[c] + GoodbyeTimeout)
        BY <2>1, <3>1 DEF Ready, GoodbyeOver
      <3> QED
        BY <1>0, <3>1, <3>2, <3>3
    <2> QED
      BY <1>0, <2>1, <2>2, <2>3
  <1>8. ASSUME NEW c \in Conns, ConnStep(c) PROVE Timely'
    <2>1. /\ UNCHANGED <<main, serve, sessions, cancelled, clock, stuck>>
          /\ \A d \in Conns \ {c} : stage'[d] = stage[d] /\ parted'[d] = parted[d]
      BY <1>8, ConnMoves
    <2>2. \/ stage'[c] \notin InSession \cup {"cut"} /\ parted'[c] \in {parted[c], 0}
          \/ stage'[c] = stage[c] /\ parted'[c] = parted[c]
          \/ ~cancelled /\ stage'[c] = "writing" /\ parted'[c] = parted[c]
          \/ /\ stage[c] = "writing" /\ stage'[c] = "member"
             /\ parted'[c] = parted[c]
          \/ /\ stage[c] = "member" /\ stage'[c] = "parting"
             /\ parted'[c] = clock
      BY <1>8, ConnMoves
    <2>3. parted'[c] <= clock
      BY <1>0, <2>2
    <2>4. ASSUME stage'[c] \in InSession, c \notin stuck, clock > 0
          PROVE  stage'[c] = "parting" /\ parted'[c] = 0 /\ clock <= GoodbyeTimeout
      BY <2>2, <2>4
    <2>5. stage'[c] = "cut" => c \in stuck
      BY <2>2
    <2> QED
      BY <1>0, <2>1, <2>3, <2>4, <2>5
  <1>9. ASSUME UNCHANGED vars PROVE Timely'
    BY <1>9 DEF vars
  <1> QED
    BY <1>1, <1>2, <1>4, <1>5, <1>6, <1>7, <1>8, <1>9
    DEF Next, ServeStep, MainStep, Exited

\* serve returns after all its sessions, the process leaves nobody waiting,
\* and the budget cuts only sessions that an arm's write held up during the
\* drain: the goodbye's timeout is short enough for all others, however many
\* connections there are.
THEOREM DrainIsOrderly == Spec => []OrderlyDrain
  <1>1. Init => DrainStages /\ Timely
    BY ServerAssumption
    DEF Init, DrainStages, Timely, Running, InSession, Backlog
  <1>2. DrainStages /\ Timely => OrderlyDrain
    BY DEF DrainStages, Timely, OrderlyDrain
  <1> QED
    BY <1>1, <1>2, TypeInit, TypeNext, DrainNext, TimelyNext, PTL DEF Spec

=============================================================================
