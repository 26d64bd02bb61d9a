-------------------------------- MODULE Hub --------------------------------
(***************************************************************************)
(* The Hub (server/src/actor/hub.rs): the lock-free registry of session    *)
(* actors, the occupancy counter and the fan-out to the actors' bounded    *)
(* mailboxes, driven by the calls Session::run makes (session.rs).         *)
(*                                                                         *)
(* Every actor is a task of a multi-threaded runtime, so one action here   *)
(* is one atomic access to shared state: a papaya `compute` or `remove`,   *)
(* one `fetch_add`/`fetch_sub`/`load`, one step of the map's iterator, one *)
(* `try_send`.  Two accesses of one call are two actions, and any other    *)
(* actor may run between them.                                             *)
(***************************************************************************)
EXTENDS Integers, Sequences, FiniteSets

CONSTANTS
  Actors,               \* session actors; each runs one connection, once
  Names,                \* usernames that passed validation
  SESSION_QUEUE_DEPTH,  \* capacity of a mailbox
  MaxSend,              \* bound: chat messages an actor publishes
  None                  \* no actor / no username

Kinds == {"Joined", "Message", "Departed"}

\* A pre-encoded broadcast frame: whose it is and the how-manieth it sent.
Frames == [from : Actors, kind : Kinds, seq : Nat]

ASSUME HubAssumption ==
  /\ IsFiniteSet(Actors)
  /\ None \notin Actors \cup Names \cup Frames
  /\ SESSION_QUEUE_DEPTH \in Nat \ {0}
  /\ MaxSend \in Nat

VARIABLES
  sessions,   \* HubInner.sessions: username -> the actor registered under it.
              \* The key's Arc<str> and the handle's Address both belong to
              \* that actor, so one value stands for key pointer and handle.
  occupancy,  \* HubInner.occupancy
  name,       \* ClaimHandle.username of each actor, None before a claim
  pc,         \* where in Session::run / handshake / ClaimHandle::drop it is
  rx,         \* state of the actor's Mailbox: the receiving end
  log,        \* every frame ever accepted by the actor's mailbox, in order
  taken,      \* how many of them the actor has received
  published,  \* number of frames the actor has broadcast so far
  frame,      \* the frame it broadcast last
  due,        \* Hub::broadcast in progress: entries the iterator owes it,
  seen,       \* ... entries the iterator has yielded,
  cur,        \* ... the peer whose handle it has in hand,
  missed,     \* ... the peers whose try_send failed
  welcome     \* ServerFrame::Welcome.occupancy told to the actor's client

mailboxes == <<rx, log, taken>>
iteration == <<due, seen, cur, missed>>
vars == <<sessions, occupancy, name, pc, mailboxes, published, frame,
          iteration, welcome>>

Phases == {"handshake", "inserted", "counted", "welcoming", "joining",
           "serving", "sending", "departing", "releasing", "removed",
           "released", "done"}

\* Between the insert and the remove: the actor's entry is in the registry.
Claimed == {"inserted", "counted", "welcoming", "joining", "serving",
            "sending", "departing", "releasing"}

\* Between its fetch_add and its fetch_sub.
Counted == (Claimed \ {"inserted"}) \cup {"removed"}

\* Inside Hub::broadcast.
Publishing == {"joining", "sending", "departing"}

Registered == {a \in Actors : \E n \in Names : sessions[n] = a}

QueueLen(a) == Len(log[a]) - taken[a]

\* Types; a mailbox never holds more than its capacity, "the only knob
\* protecting a slow receiver from unbounded memory growth" (mailbox.rs).
TypeOK ==
  /\ sessions \in [Names -> Actors \cup {None}]
  /\ occupancy \in Int
  /\ name \in [Actors -> Names \cup {None}]
  /\ pc \in [Actors -> Phases]
  /\ rx \in [Actors -> {"none", "open", "closed"}]
  /\ log \in [Actors -> Seq(Frames)]
  /\ taken \in [Actors -> Nat]
  /\ published \in [Actors -> Nat]
  /\ frame \in [Actors -> Frames \cup {None}]
  /\ due \in [Actors -> SUBSET Actors]
  /\ seen \in [Actors -> SUBSET Actors]
  /\ cur \in [Actors -> Actors \cup {None}]
  /\ missed \in [Actors -> SUBSET Actors]
  /\ welcome \in [Actors -> Int]
  /\ \A a \in Actors : QueueLen(a) \in 0 .. SESSION_QUEUE_DEPTH

-----------------------------------------------------------------------------

\* Hub::new, and no connection has been accepted yet.
Init ==
  /\ sessions = [n \in Names |-> None]
  /\ occupancy = 0
  /\ name = [a \in Actors |-> None]
  /\ pc = [a \in Actors |-> "handshake"]
  /\ rx = [a \in Actors |-> "none"]
  /\ log = [a \in Actors |-> <<>>]
  /\ taken = [a \in Actors |-> 0]
  /\ published = [a \in Actors |-> 0]
  /\ frame = [a \in Actors |-> None]
  /\ due = [a \in Actors |-> {}]
  /\ seen = [a \in Actors |-> {}]
  /\ cur = [a \in Actors |-> None]
  /\ missed = [a \in Actors |-> {}]
  /\ welcome = [a \in Actors |-> 0]

Goto(a, phase) == pc' = [pc EXCEPT ![a] = phase]

\* compute's closure: existing.is_some() aborts.
IsFreeAlways(n) == TRUE
IsFree(n) == sessions[n] = None

\* Hub::try_register: `compute` inserts the handle or aborts on a collision,
\* in one atomic step; on a collision the handshake sends Rejected and ends.
TryRegister(a, n) ==
  /\ pc[a] = "handshake"
  /\ \/ /\ IsFree(n)
        /\ sessions' = [sessions EXCEPT ![n] = a]
        /\ name' = [name EXCEPT ![a] = n]
        /\ rx' = [rx EXCEPT ![a] = "open"]
        /\ Goto(a, "inserted")
     \/ /\ ~IsFree(n)
        /\ Goto(a, "done")
        /\ UNCHANGED <<sessions, name, rx>>
  /\ UNCHANGED <<occupancy, log, taken, published, frame, iteration, welcome>>

\* No usable Hello: timeout, disconnect, shutdown, wrong first frame, version
\* or username.  The session ends without having touched the Hub.
HandshakeFails(a) ==
  /\ pc[a] = "handshake"
  /\ Goto(a, "done")
  /\ UNCHANGED <<sessions, occupancy, name, mailboxes, published, frame,
                 iteration, welcome>>

\* occupancy.fetch_add(1), after the insert.
CountIn(a) ==
  /\ pc[a] = "inserted"
  /\ occupancy' = occupancy + 1
  /\ Goto(a, "counted")
  /\ UNCHANGED <<sessions, name, mailboxes, published, frame, iteration,
                 welcome>>

\* A bug: the number of the others.
LoadOccupancyOthers(a) ==
  /\ pc[a] = "counted"
  /\ welcome' = [welcome EXCEPT ![a] = occupancy - 1]
  /\ Goto(a, "welcoming")
  /\ UNCHANGED <<sessions, occupancy, name, mailboxes, published, frame,
                 iteration>>

\* handshake reads Hub::occupancy for the Welcome frame.
LoadOccupancy(a) ==
  /\ pc[a] = "counted"
  /\ welcome' = [welcome EXCEPT ![a] = occupancy]
  /\ Goto(a, "welcoming")
  /\ UNCHANGED <<sessions, occupancy, name, mailboxes, published, frame,
                 iteration>>

\* Session::run encodes the next frame and enters Hub::broadcast: the
\* iterator starts with the entries now in the map still due.
StartBroadcast(a, kind, phase) ==
  /\ published' = [published EXCEPT ![a] = @ + 1]
  /\ frame' = [frame EXCEPT ![a] =
                  [from |-> a, kind |-> kind, seq |-> published[a]]]
  /\ due' = [due EXCEPT ![a] = Registered]
  /\ seen' = [seen EXCEPT ![a] = {}]
  /\ Goto(a, phase)
  /\ UNCHANGED <<sessions, occupancy, name, mailboxes, cur, missed, welcome>>

\* The Welcome write completed: run announces Joined.
Join(a) ==
  /\ pc[a] = "welcoming"
  /\ StartBroadcast(a, "Joined", "joining")

\* serve_loop, ClientFrame::Send admitted: broadcast the Message.
Send(a) ==
  /\ pc[a] = "serving"
  /\ published[a] <= MaxSend
  /\ StartBroadcast(a, "Message", "sending")

\* The bug of dropping the claim before the announcement.
DepartReleased(a) ==
  /\ pc[a] = "serving"
  /\ sessions' = [sessions EXCEPT ![name[a]] = None]
  /\ published' = [published EXCEPT ![a] = @ + 1]
  /\ frame' = [frame EXCEPT ![a] =
                  [from |-> a, kind |-> "Departed", seq |-> published[a]]]
  /\ due' = [due EXCEPT ![a] = Registered]
  /\ Goto(a, "departing")
  /\ UNCHANGED <<occupancy, name, mailboxes, seen, cur, missed, welcome>>

\* serve_loop returned, Ok or Err: run announces Departed before the drop.
Depart(a) ==
  /\ pc[a] = "serving"
  /\ StartBroadcast(a, "Departed", "departing")

\* serve_loop receives from the mailbox and writes the frame to the socket.
Recv(a) ==
  /\ pc[a] = "serving"
  /\ QueueLen(a) > 0
  /\ taken' = [taken EXCEPT ![a] = @ + 1]
  /\ UNCHANGED <<sessions, occupancy, name, pc, rx, log, published, frame,
                 iteration, welcome>>

\* The Welcome write fails (`?`), or the task is cancelled or panics at an
\* await: locals drop in reverse order, so the mailbox closes before the
\* claim is released, and nothing is announced.
Unwind(a) ==
  /\ pc[a] \in {"welcoming", "serving"}
  /\ rx' = [rx EXCEPT ![a] = "closed"]
  /\ Goto(a, "releasing")
  /\ UNCHANGED <<sessions, occupancy, name, log, taken, published, frame,
                 iteration, welcome>>

-----------------------------------------------------------------------------
(* Hub::broadcast.  papaya's iterator is weakly consistent: it yields an   *)
(* entry at most once, yields every entry that stays in the map for the    *)
(* whole iteration, and may or may not yield one inserted meanwhile.  An   *)
(* entry it has yielded may be removed before the try_send on its handle.  *)

\* Arc::ptr_eq(name, origin): the entry is the publisher's own.
IsOriginNever(a, b) == FALSE
IsOrigin(a, b) == b = a

\* The iterator yields b's entry; broadcast skips the origin's.
IterNext(a, b) ==
  /\ pc[a] \in Publishing
  /\ cur[a] = None
  /\ b \in Registered \ seen[a]
  /\ seen' = [seen EXCEPT ![a] = @ \cup {b}]
  /\ cur' = [cur EXCEPT ![a] = IF IsOrigin(a, b) THEN None ELSE b]
  /\ UNCHANGED <<sessions, occupancy, name, pc, mailboxes, published, frame,
                 due, missed, welcome>>

\* try_send returns Ok: the receiver lives and a permit is free.
AcceptsOneMore(b) == rx[b] = "open" /\ QueueLen(b) <= SESSION_QUEUE_DEPTH
Accepts(b) == rx[b] = "open" /\ QueueLen(b) < SESSION_QUEUE_DEPTH

\* try_send returns Full at once (send().await would wait here).
RefusesFullNever(b) == FALSE
RefusesFull(b) == rx[b] = "open" /\ QueueLen(b) >= SESSION_QUEUE_DEPTH

\* handle.tx.try_send: Ok appends, Full and Closed drop the frame for b only.
TrySend(a) ==
  LET b == cur[a] IN
  /\ pc[a] \in Publishing
  /\ b # None
  /\ \/ /\ Accepts(b)
        /\ log' = [log EXCEPT ![b] = Append(@, frame[a])]
        /\ UNCHANGED missed
     \/ /\ RefusesFull(b) \/ rx[b] # "open"
        /\ missed' = [missed EXCEPT ![a] = @ \cup {b}]
        /\ UNCHANGED log
  /\ cur' = [cur EXCEPT ![a] = None]
  /\ UNCHANGED <<sessions, occupancy, name, pc, rx, taken, published, frame,
                 due, seen, welcome>>

\* The for loop over the iterator ends only when it is exhausted.
ExhaustedAtFirst(a) == seen[a] # {} \/ due[a] \cap Registered = {}
Exhausted(a) == due[a] \cap Registered \subseteq seen[a]

\* What follows a broadcast in Session::run.
AfterBroadcastLeaks(a) == IF pc[a] = "departing" THEN "released" ELSE "serving"
AfterBroadcastServes(a) == "serving"
AfterBroadcast(a) == IF pc[a] = "departing" THEN "releasing" ELSE "serving"

\* The iterator is exhausted and broadcast returns to Session::run.
BroadcastDone(a) ==
  /\ pc[a] \in Publishing
  /\ cur[a] = None
  /\ Exhausted(a)
  /\ due' = [due EXCEPT ![a] = {}]
  /\ seen' = [seen EXCEPT ![a] = {}]
  /\ missed' = [missed EXCEPT ![a] = {}]
  /\ Goto(a, AfterBroadcast(a))
  /\ UNCHANGED <<sessions, occupancy, name, mailboxes, published, frame, cur,
                 welcome>>

-----------------------------------------------------------------------------
(* ClaimHandle::drop, then the mailbox goes out of scope.                  *)

\* drop decrements only `if ... remove(...).is_some()`.
AfterRemoveForgets(a) == "released"
AfterRemove(a) == IF sessions[name[a]] # None THEN "removed" ELSE "released"

\* pin.remove(username): the entry under the name goes, whoever's it is.
Remove(a) ==
  /\ pc[a] = "releasing"
  /\ sessions' = [sessions EXCEPT ![name[a]] = None]
  /\ Goto(a, AfterRemove(a))
  /\ UNCHANGED <<occupancy, name, mailboxes, published, frame, iteration,
                 welcome>>

\* occupancy.fetch_sub(1), after the remove.
CountOut(a) ==
  /\ pc[a] = "removed"
  /\ occupancy' = occupancy - 1
  /\ Goto(a, "released")
  /\ UNCHANGED <<sessions, name, mailboxes, published, frame, iteration,
                 welcome>>

\* rx drops at the end of run: the channel closes, queued frames are lost.
DropMailbox(a) ==
  /\ pc[a] = "released"
  /\ rx' = [rx EXCEPT ![a] = "closed"]
  /\ Goto(a, "done")
  /\ UNCHANGED <<sessions, occupancy, name, log, taken, published, frame,
                 iteration, welcome>>

\* Every connection has ended.
Terminated ==
  /\ \A a \in Actors : pc[a] = "done"
  /\ UNCHANGED vars

\* Steps the actor takes by itself once it is in a Hub call: no await.
HubStep(a) ==
  \/ CountIn(a)
  \/ LoadOccupancy(a)
  \/ \E b \in Actors : IterNext(a, b)
  \/ TrySend(a)
  \/ BroadcastDone(a)
  \/ Remove(a)
  \/ CountOut(a)
  \/ DropMailbox(a)

\* Steps that wait for the client, the room or the runtime.
ClientStep(a) ==
  \/ \E n \in Names : TryRegister(a, n)
  \/ HandshakeFails(a)
  \/ Join(a)
  \/ Send(a)
  \/ Depart(a)
  \/ Recv(a)
  \/ Unwind(a)

Next == (\E a \in Actors : HubStep(a) \/ ClientStep(a)) \/ Terminated

Spec == Init /\ [][Next]_vars

\* Hub calls never wait, so a thread that has entered one finishes it; a
\* client owes the server nothing.
FairSpec == Spec /\ \A a \in Actors : WF_vars(HubStep(a))

-----------------------------------------------------------------------------
(* Properties.                                                             *)

\* Registry and claims agree in every state: an actor that holds a claim is
\* the one registered under its name (so no two claims share a name, README
\* "Username's should be unique"), and an entry always belongs to an actor
\* that will still run ClaimHandle::drop ("no orphaned usernames").
RegistryMatchesClaims ==
  /\ \A a \in Actors : pc[a] \in Claimed =>
        name[a] \in Names /\ sessions[name[a]] = a
  /\ \A n \in Names : sessions[n] # None =>
        pc[sessions[n]] \in Claimed /\ name[sessions[n]] = n

\* The counter is the number of actors between their fetch_add and their
\* fetch_sub: it never wraps below zero, drifts or counts a claim twice,
\* however registrations, failures and drops interleave.
OccupancyCountsClaims ==
  occupancy = Cardinality({a \in Actors : pc[a] \in Counted})

\* "Never delivered back to `from`" (protocol ServerFrame::Message): no
\* mailbox ever accepts a frame published under its own actor's username,
\* not even one of an earlier or later connection with the same name, which
\* Arc::ptr_eq alone would not filter.
NeverEchoed ==
  \A b \in Actors : \A i \in DOMAIN log[b] :
     name[log[b][i].from] # name[b]

\* Each mailbox takes the frames of one publisher in the order it broadcast
\* them and none twice, starting with Joined if at all and ending with
\* Departed, whatever is dropped in between because the mailbox was full.
PerSenderOrder ==
  \A b \in Actors : \A i, j \in DOMAIN log[b] :
     (i < j /\ log[b][i].from = log[b][j].from) =>
        /\ log[b][i].seq < log[b][j].seq
        /\ log[b][i].kind # "Departed"
        /\ log[b][j].kind # "Joined"

\* When a username is reused, no recipient sees frames of the previous
\* holder after the first frame of the next: run broadcasts Departed before
\* it drops the claim.
HoldersDoNotInterleave ==
  \A b \in Actors : \A i, j, k \in DOMAIN log[b] :
     LET s == log[b][i].from
         t == log[b][j].from
     IN  (i < j /\ j < k /\ s # t /\ name[s] = name[t]) => log[b][k].from # s

\* "that frame is dropped for them only; the room is not impacted"
\* (Hub::broadcast): when broadcast returns, every other actor registered all
\* along has the frame, unless its own mailbox was full or closed; a failure
\* for one peer, or a change of the map, costs no other peer the frame.
FanOutComplete ==
  [][\A a \in Actors :
       (pc[a] \in Publishing /\ pc'[a] # pc[a]) =>
          \A b \in (due[a] \cap Registered) \ {a} :
             \/ b \in missed[a]
             \/ \E i \in DOMAIN log[b] : log[b][i] = frame[a]]_vars

\* A publisher always comes out of broadcast, although no peer ever has to
\* drain its mailbox: try_send does not wait.
PublisherNeverBlocks ==
  \A a \in Actors : (pc[a] \in Publishing) ~> (pc[a] \notin Publishing)

\* Once an actor is on its way out, its username becomes free.
NameIsFreed ==
  \A a \in Actors : \A n \in Names :
     (pc[a] \in {"departing", "releasing"} /\ name[a] = n)
        ~> (sessions[n] # a)

\* What a Room promises (see Room.tla), for the actors and mailboxes here.
InRoom(a) == IF pc[a] \in Claimed THEN "in"
             ELSE IF name[a] = None THEN "out" ELSE "gone"

R == INSTANCE Room WITH
       status  <- [a \in Actors |-> InRoom(a)],
       current <- frame,
       inbox   <- log

\* The lock-free Hub implements the sequential Room: every step is a join,
\* a publication, one delivery, a departure, or invisible.
ImplementsRoom == R!Spec

\* Welcome.occupancy, "Current room occupancy after this user joined"
\* (protocol): the number a client is told counts the client itself, and it
\* differs from the number of registered users by no more than the sessions
\* that are between their map update and their counter update.
WelcomeNearOccupancy ==
  [][\A a \in Actors : (pc[a] = "counted" /\ pc'[a] = "welcoming") =>
        LET between == Cardinality({b \in Actors :
                                      pc[b] \in {"inserted", "removed"}})
            room == Cardinality(Registered)
        IN  /\ welcome'[a] >= 1
            /\ welcome'[a] \in room - between .. room + between]_vars

-----------------------------------------------------------------------------
(* What the documentation says and the code does not do.                   *)

\* "a crashed peer never leaks [...] a 'joined' event without a matching
\* 'departed'" (session.rs): a peer still being served that was told of a
\* join is told of the departure by the time the departed actor is done.
DepartedMatchesJoined ==
  \A a, b \in Actors :
     (/\ pc[a] = "done" /\ frame[a] # None
      /\ frame[a].kind = "Departed"
      /\ pc[b] = "serving"
      /\ \E i \in DOMAIN log[b] :
            log[b][i].from = a /\ log[b][i].kind = "Joined")
     => \E i \in DOMAIN log[b] : log[b][i] = frame[a]

=============================================================================
