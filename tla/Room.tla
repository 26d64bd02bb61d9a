-------------------------------- MODULE Room --------------------------------
(***************************************************************************)
(* What the chat room promises, without threads, counters or mailboxes     *)
(* bounds: users enter under a name nobody else in the room has, publish   *)
(* frames one at a time, and each frame reaches any other user's inbox at  *)
(* most once, while its publisher is still in the room.                    *)
(***************************************************************************)
EXTENDS Naturals, Sequences

CONSTANTS Actors, Names, None

VARIABLES
  status,     \* "out" before, "in" during, "gone" after the stay
  name,       \* the name held, None while "out"
  published,  \* number of frames published
  current,    \* the frame published last
  inbox       \* frames that reached each user, in order

vars == <<status, name, published, current, inbox>>

Init ==
  /\ status = [a \in Actors |-> "out"]
  /\ name = [a \in Actors |-> None]
  /\ published = [a \in Actors |-> 0]
  /\ current = [a \in Actors |-> None]
  /\ inbox = [a \in Actors |-> <<>>]

\* A user comes in under a name that no user in the room has.
Enter(a, n) ==
  /\ status[a] = "out"
  /\ \A b \in Actors : status[b] = "in" => name[b] # n
  /\ status' = [status EXCEPT ![a] = "in"]
  /\ name' = [name EXCEPT ![a] = n]
  /\ UNCHANGED <<published, current, inbox>>

\* The first frame of a stay is Joined, and nothing follows Departed.
Publish(a, kind) ==
  /\ status[a] = "in"
  /\ IF current[a] = None THEN kind = "Joined"
     ELSE kind # "Joined" /\ current[a].kind # "Departed"
  /\ published' = [published EXCEPT ![a] = @ + 1]
  /\ current' = [current EXCEPT ![a] =
                   [from |-> a, kind |-> kind, seq |-> published[a]]]
  /\ UNCHANGED <<status, name, inbox>>

\* The frame being published reaches a user with another name.
Deliver(a, b) ==
  /\ status[a] = "in" /\ current[a] # None
  /\ status[b] # "out" /\ name[b] # name[a]
  /\ \A i \in DOMAIN inbox[b] : inbox[b][i] # current[a]
  /\ inbox' = [inbox EXCEPT ![b] = Append(@, current[a])]
  /\ UNCHANGED <<status, name, published, current>>

\* A user leaves and the name is free again.
Exit(a) ==
  /\ status[a] = "in"
  /\ status' = [status EXCEPT ![a] = "gone"]
  /\ UNCHANGED <<name, published, current, inbox>>

Next ==
  \E a \in Actors :
     \/ \E n \in Names : Enter(a, n)
     \/ \E kind \in {"Joined", "Message", "Departed"} : Publish(a, kind)
     \/ \E b \in Actors : Deliver(a, b)
     \/ Exit(a)

Spec == Init /\ [][Next]_vars

=============================================================================
