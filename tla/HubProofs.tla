----------------------------- MODULE HubProofs -----------------------------
(***************************************************************************)
(* Proofs about Hub for every number of actors, usernames, queue depth and *)
(* message bound.                                                          *)
(***************************************************************************)
EXTENDS Hub, FiniteSetTheorems, TLAPS

-----------------------------------------------------------------------------
(* Types.                                                                  *)

\* TypeOK is not inductive alone: try_send appends the frame of the call in
\* progress, which is a frame only because broadcast has been entered.
FrameInHand ==
  \A a \in Actors : pc[a] \in Publishing =>
     frame[a] \in Frames /\ frame[a].from = a

TypeInv == TypeOK /\ FrameInHand

\* The types hold initially.
LEMMA TypeInit == Init => TypeInv
  BY HubAssumption
  DEF Init, TypeInv, TypeOK, FrameInHand, Phases, Publishing, QueueLen

\* StartBroadcast, whichever frame run announces, keeps the types.
LEMMA TypeStart ==
  ASSUME TypeInv, NEW a \in Actors, NEW kind \in Kinds,
         NEW phase \in Publishing, StartBroadcast(a, kind, phase)
  PROVE  TypeInv'
  <1> USE DEF TypeInv, TypeOK, FrameInHand, StartBroadcast, Goto,
         mailboxes, iteration
  <1>1. [from |-> a, kind |-> kind, seq |-> published[a]] \in Frames
    BY DEF Frames
  <1>2. Registered \in SUBSET Actors
    BY DEF Registered
  <1>3. TypeOK'
    BY <1>1, <1>2 DEF Phases, Publishing, QueueLen
  <1>4. FrameInHand'
    BY <1>1 DEF Publishing
  <1> QED
    BY <1>3, <1>4

\* Every step keeps the types.
LEMMA TypeNext == TypeInv /\ [Next]_vars => TypeInv'
  <1> SUFFICES ASSUME TypeInv, [Next]_vars PROVE TypeInv'
    OBVIOUS
  <1> USE HubAssumption DEF TypeInv, TypeOK, FrameInHand, Goto, QueueLen,
         mailboxes, iteration
  <1>1. ASSUME NEW a \in Actors, NEW n \in Names, TryRegister(a, n)
        PROVE  TypeInv'
    <2>1. CASE /\ pc' = [pc EXCEPT ![a] = "done"]
               /\ UNCHANGED <<sessions, name, rx>>
      BY <1>1, <2>1 DEF TryRegister, Phases, Publishing
    <2>2. CASE /\ sessions' = [sessions EXCEPT ![n] = a]
               /\ name' = [name EXCEPT ![a] = n]
               /\ rx' = [rx EXCEPT ![a] = "open"]
               /\ pc' = [pc EXCEPT ![a] = "inserted"]
      <3>1. FrameInHand'
        BY <1>1, <2>2 DEF TryRegister, Publishing
      <3>2. pc' \in [Actors -> Phases]
        BY <2>2 DEF Phases
      <3> QED
        BY <1>1, <2>2, <3>1, <3>2 DEF TryRegister
    <2> QED
      BY <1>1, <2>1, <2>2 DEF TryRegister
  <1>2. ASSUME NEW a \in Actors, CountIn(a) PROVE TypeInv'
    BY <1>2 DEF CountIn, Phases, Publishing
  <1>3. ASSUME NEW a \in Actors, LoadOccupancy(a) PROVE TypeInv'
    BY <1>3 DEF LoadOccupancy, Phases, Publishing
  <1>4. ASSUME NEW a \in Actors, Join(a) \/ Send(a) \/ Depart(a)
        PROVE  TypeInv'
    BY <1>4, TypeStart DEF Join, Send, Depart, Kinds, Publishing
  <1>5. ASSUME NEW a \in Actors, Recv(a) PROVE TypeInv'
    BY <1>5 DEF Recv, Phases, Publishing
  <1>6. ASSUME NEW a \in Actors, Unwind(a) PROVE TypeInv'
    <2>1. FrameInHand'
      BY <1>6 DEF Unwind, Publishing
    <2>2. pc' \in [Actors -> Phases]
      BY <1>6 DEF Unwind, Phases
    <2> QED
      BY <1>6, <2>1, <2>2 DEF Unwind
  <1>7. ASSUME NEW a \in Actors, NEW b \in Actors, IterNext(a, b)
        PROVE  TypeInv'
    <2>1. cur' \in [Actors -> Actors \cup {None}]
      BY <1>7 DEF IterNext, IsOrigin
    <2>2. seen' \in [Actors -> SUBSET Actors]
      BY <1>7 DEF IterNext
    <2> QED
      BY <1>7, <2>1, <2>2 DEF IterNext
  <1>8. ASSUME NEW a \in Actors, TrySend(a) PROVE TypeInv'
    <2> DEFINE b == cur[a]
    <2>1. b \in Actors /\ frame[a] \in Frames
      BY <1>8 DEF TrySend
    <2>2. missed' \in [Actors -> SUBSET Actors]
      <3>1. \/ missed' = missed
            \/ missed' = [missed EXCEPT ![a] = @ \cup {b}]
        BY <1>8 DEF TrySend
      <3>2. missed[a] \cup {b} \in SUBSET Actors
        BY <2>1
      <3>3. missed \in [Actors -> SUBSET Actors]
        OBVIOUS
      <3> HIDE HubAssumption DEF b, TypeInv, TypeOK
      <3> QED
        BY <3>1, <3>2, <3>3
    <2>3. CASE log' = log
      BY <1>8, <2>2, <2>3 DEF TrySend
    <2>4. CASE /\ QueueLen(b) < SESSION_QUEUE_DEPTH
               /\ log' = [log EXCEPT ![b] = Append(@, frame[a])]
      <3>1. log[b] \in Seq(Frames) /\ taken[b] \in Nat
        BY <2>1
      <3>2. /\ Append(log[b], frame[a]) \in Seq(Frames)
            /\ Len(Append(log[b], frame[a])) = Len(log[b]) + 1
        BY <2>1, <3>1
      <3>3. log' \in [Actors -> Seq(Frames)]
        BY <2>4, <3>2
      <3>4. taken' = taken
        BY <1>8 DEF TrySend
      <3>5. ASSUME NEW c \in Actors
            PROVE  QueueLen(c)' \in 0 .. SESSION_QUEUE_DEPTH
        <4>1. QueueLen(c) \in 0 .. SESSION_QUEUE_DEPTH /\ Len(log[c]) \in Nat
          OBVIOUS
        <4>2. CASE c = b
          BY <2>1, <2>4, <3>1, <3>2, <3>4, <4>1, <4>2
        <4>3. CASE c # b
          BY <2>1, <2>4, <3>4, <4>1, <4>3
        <4> QED
          BY <4>2, <4>3
      <3> QED
        BY <1>8, <2>2, <3>3, <3>5 DEF TrySend
    <2> QED
      BY <1>8, <2>3, <2>4 DEF TrySend, Accepts
  <1>9. ASSUME NEW a \in Actors, BroadcastDone(a) PROVE TypeInv'
    BY <1>9 DEF BroadcastDone, AfterBroadcast, Phases, Publishing
  <1>10. ASSUME NEW a \in Actors, Remove(a) PROVE TypeInv'
    BY <1>10 DEF Remove, AfterRemove, Phases, Publishing
  <1>11. ASSUME NEW a \in Actors, CountOut(a) PROVE TypeInv'
    BY <1>11 DEF CountOut, Phases, Publishing
  <1>12. ASSUME NEW a \in Actors, DropMailbox(a) PROVE TypeInv'
    BY <1>12 DEF DropMailbox, Phases, Publishing
  <1>13. CASE UNCHANGED vars
    BY <1>13 DEF vars, Publishing
  <1>14. ASSUME NEW a \in Actors, HandshakeFails(a) PROVE TypeInv'
    BY <1>14 DEF HandshakeFails, Phases, Publishing
  <1> QED
    BY <1>1, <1>2, <1>3, <1>4, <1>5, <1>6, <1>7, <1>8, <1>9, <1>10, <1>11,
       <1>12, <1>13, <1>14 DEF Next, HubStep, ClientStep, Terminated

\* Every variable keeps its type and no mailbox ever exceeds its capacity,
\* whatever the capacity and however many publishers race for its last slot.
THEOREM TypeCorrect == Spec => []TypeOK
  <1>1. TypeInv => TypeOK
    BY DEF TypeInv
  <1> QED
    BY TypeInit, TypeNext, <1>1, PTL DEF Spec

-----------------------------------------------------------------------------
(* The registry.                                                           *)

\* Only try_register and ClaimHandle::drop's remove touch the registry and
\* the names; no other step starts or ends a claim.
LEMMA RegistrySteps ==
  ASSUME TypeInv, [Next]_vars
  PROVE  \/ \E a \in Actors, n \in Names : TryRegister(a, n)
         \/ \E a \in Actors : Remove(a)
         \/ /\ UNCHANGED <<sessions, name>>
            /\ \A c \in Actors : pc'[c] \in Claimed <=> pc[c] \in Claimed
  <1> DEFINE Quiet == /\ UNCHANGED <<sessions, name>>
                      /\ \A c \in Actors : pc'[c] \in Claimed
                                             <=> pc[c] \in Claimed
  <1> USE DEF TypeInv, TypeOK, Goto, Claimed
  <1>1. ASSUME NEW a \in Actors, CountIn(a) \/ HandshakeFails(a) PROVE Quiet
    BY <1>1 DEF CountIn, HandshakeFails
  <1>2. ASSUME NEW a \in Actors, LoadOccupancy(a) PROVE Quiet
    BY <1>2 DEF LoadOccupancy
  <1>3. ASSUME NEW a \in Actors, Join(a) \/ Send(a) \/ Depart(a)
        PROVE  Quiet
    BY <1>3 DEF Join, Send, Depart, StartBroadcast
  <1>4. ASSUME NEW a \in Actors, Recv(a) PROVE Quiet
    BY <1>4 DEF Recv
  <1>5. ASSUME NEW a \in Actors, Unwind(a) PROVE Quiet
    BY <1>5 DEF Unwind
  <1>6. ASSUME NEW a \in Actors, NEW b \in Actors, IterNext(a, b)
        PROVE  Quiet
    BY <1>6 DEF IterNext
  <1>7. ASSUME NEW a \in Actors, TrySend(a) PROVE Quiet
    BY <1>7 DEF TrySend
  <1>8. ASSUME NEW a \in Actors, BroadcastDone(a) PROVE Quiet
    BY <1>8 DEF BroadcastDone, AfterBroadcast, Publishing
  <1>9. ASSUME NEW a \in Actors, CountOut(a) PROVE Quiet
    BY <1>9 DEF CountOut
  <1>10. ASSUME NEW a \in Actors, DropMailbox(a) PROVE Quiet
    BY <1>10 DEF DropMailbox
  <1>11. ASSUME UNCHANGED vars PROVE Quiet
    BY <1>11 DEF vars
  <1> HIDE DEF Quiet, TypeInv, TypeOK, Goto, Claimed
  <1>12. \/ \E a \in Actors, n \in Names : TryRegister(a, n)
         \/ \E a \in Actors : Remove(a)
         \/ Quiet
    BY <1>1, <1>2, <1>3, <1>4, <1>5, <1>6, <1>7, <1>8, <1>9, <1>10, <1>11
    DEF Next, HubStep, ClientStep, Terminated
  <1> QED
    BY <1>12 DEF Quiet

RegistryInv == TypeInv /\ RegistryMatchesClaims

\* Every step keeps registry and claims in agreement: compute inserts only
\* into a free slot, and remove finds the entry of the actor that drops.
LEMMA RegistryNext == RegistryInv /\ [Next]_vars => RegistryInv'
  <1> SUFFICES ASSUME RegistryInv, [Next]_vars PROVE RegistryInv'
    OBVIOUS
  <1>1. TypeInv'
    BY TypeNext DEF RegistryInv
  <1> USE HubAssumption DEF RegistryInv, RegistryMatchesClaims
  <1>2. ASSUME NEW a \in Actors, NEW n \in Names, TryRegister(a, n)
        PROVE  RegistryMatchesClaims'
    <2> USE DEF TypeInv, TypeOK, Goto
    <2>1. pc[a] \notin Claimed
      BY <1>2 DEF TryRegister, Claimed
    <2>2. CASE pc' = [pc EXCEPT ![a] = "done"] /\ UNCHANGED <<sessions, name>>
      BY <2>1, <2>2 DEF Claimed
    <2>3. CASE /\ sessions[n] = None
               /\ sessions' = [sessions EXCEPT ![n] = a]
               /\ name' = [name EXCEPT ![a] = n]
               /\ pc' = [pc EXCEPT ![a] = "inserted"]
      <3>1. \A c \in Actors \ {a} : pc'[c] = pc[c] /\ name'[c] = name[c]
        BY <2>3
      <3>2. pc'[a] \in Claimed /\ name'[a] = n /\ sessions'[n] = a
        BY <2>3 DEF Claimed
      <3>3. \A m \in Names \ {n} :
               sessions'[m] = sessions[m] /\ sessions[m] # a
        BY <2>1, <2>3
      <3> QED
        BY <2>3, <3>1, <3>2, <3>3
    <2> QED
      BY <1>2, <2>2, <2>3 DEF TryRegister, IsFree
  <1>3. ASSUME NEW a \in Actors, Remove(a) PROVE RegistryMatchesClaims'
    <2> USE DEF TypeInv, TypeOK, Goto
    <2>1. pc[a] \in Claimed /\ name[a] \in Names /\ sessions[name[a]] = a
      BY <1>3 DEF Remove, Claimed
    <2>2. pc'[a] \notin Claimed /\ \A c \in Actors : c # a => pc'[c] = pc[c]
      BY <1>3 DEF Remove, AfterRemove, Claimed
    <2>3. /\ name' = name
          /\ sessions'[name[a]] = None
          /\ \A m \in Names : m # name[a] => sessions'[m] = sessions[m]
      BY <1>3, <2>1 DEF Remove
    <2>4. ASSUME NEW c \in Actors, pc'[c] \in Claimed
          PROVE  name'[c] \in Names /\ sessions'[name'[c]] = c
      BY <2>1, <2>2, <2>3, <2>4
    <2>5. ASSUME NEW m \in Names, sessions'[m] # None
          PROVE  pc'[sessions'[m]] \in Claimed /\ name'[sessions'[m]] = m
      <3>1. m # name[a] /\ sessions'[m] = sessions[m]
        BY <2>3, <2>5
      <3>2. sessions[m] \in Actors /\ sessions[m] # a /\ name[sessions[m]] = m
        BY <2>1, <2>5, <3>1
      <3> QED
        BY <2>2, <2>3, <2>5, <3>1, <3>2
    <2> QED
      BY <2>4, <2>5
  <1>4. CASE /\ UNCHANGED <<sessions, name>>
             /\ \A c \in Actors : pc'[c] \in Claimed <=> pc[c] \in Claimed
    <2>1. \A n \in Names : sessions[n] # None => sessions[n] \in Actors
      BY DEF TypeInv, TypeOK
    <2>2. ASSUME NEW n \in Names, sessions'[n] # None
          PROVE  pc'[sessions'[n]] \in Claimed /\ name'[sessions'[n]] = n
      BY <1>4, <2>1, <2>2
    <2>3. ASSUME NEW c \in Actors, pc'[c] \in Claimed
          PROVE  name'[c] \in Names /\ sessions'[name'[c]] = c
      BY <1>4, <2>3
    <2> QED
      BY <1>1, <2>2, <2>3
  <1> QED
    BY <1>1, <1>2, <1>3, <1>4, RegistrySteps

\* Usernames are unique and none is orphaned, for any number of actors
\* racing to register, fail and leave.
THEOREM RegistryCorrect == Spec => []RegistryMatchesClaims
  <1>1. Init => RegistryInv
    BY TypeInit DEF Init, RegistryInv, RegistryMatchesClaims, Claimed
  <1>2. RegistryInv => RegistryMatchesClaims
    BY DEF RegistryInv
  <1> QED
    BY RegistryNext, <1>1, <1>2, PTL DEF Spec

-----------------------------------------------------------------------------
(* The occupancy counter.                                                  *)

CountedActors == {a \in Actors : pc[a] \in Counted}

OccupancyInv == RegistryInv /\ OccupancyCountsClaims

\* Only fetch_add and fetch_sub change the counter, and they change the set
\* of counted actors with it.  That remove always finds an entry, so that a
\* counted actor never skips its fetch_sub, is the registry invariant.
LEMMA OccupancySteps ==
  ASSUME RegistryInv, [Next]_vars
  PROVE  \/ \E a \in Actors : CountIn(a)
         \/ \E a \in Actors : CountOut(a)
         \/ occupancy' = occupancy /\ CountedActors' = CountedActors
  <1> DEFINE Quiet == /\ occupancy' = occupancy
                      /\ \A c \in Actors : pc'[c] \in Counted
                                             <=> pc[c] \in Counted
  <1> USE DEF RegistryInv, TypeInv, TypeOK, Goto, Counted, Claimed
  <1>1. ASSUME NEW a \in Actors, NEW n \in Names, TryRegister(a, n)
        PROVE  Quiet
    BY <1>1 DEF TryRegister
  <1>2. ASSUME NEW a \in Actors, LoadOccupancy(a) \/ HandshakeFails(a)
        PROVE  Quiet
    BY <1>2 DEF LoadOccupancy, HandshakeFails
  <1>3. ASSUME NEW a \in Actors, Join(a) \/ Send(a) \/ Depart(a)
        PROVE  Quiet
    BY <1>3 DEF Join, Send, Depart, StartBroadcast
  <1>4. ASSUME NEW a \in Actors, Recv(a) PROVE Quiet
    BY <1>4 DEF Recv
  <1>5. ASSUME NEW a \in Actors, Unwind(a) PROVE Quiet
    BY <1>5 DEF Unwind
  <1>6. ASSUME NEW a \in Actors, NEW b \in Actors, IterNext(a, b)
        PROVE  Quiet
    BY <1>6 DEF IterNext
  <1>7. ASSUME NEW a \in Actors, TrySend(a) PROVE Quiet
    BY <1>7 DEF TrySend
  <1>8. ASSUME NEW a \in Actors, BroadcastDone(a) PROVE Quiet
    BY <1>8 DEF BroadcastDone, AfterBroadcast, Publishing
  <1>9. ASSUME NEW a \in Actors, Remove(a) PROVE Quiet
    <2>1. pc[a] = "releasing" /\ sessions[name[a]] = a /\ a # None
      BY <1>9, HubAssumption DEF Remove, RegistryMatchesClaims
    <2>2. occupancy' = occupancy /\ pc' = [pc EXCEPT ![a] = "removed"]
      BY <1>9, <2>1 DEF Remove, AfterRemove
    <2> QED
      BY <2>1, <2>2
  <1>10. ASSUME NEW a \in Actors, DropMailbox(a) PROVE Quiet
    BY <1>10 DEF DropMailbox
  <1>11. ASSUME UNCHANGED vars PROVE Quiet
    BY <1>11 DEF vars
  <1>12. Quiet => occupancy' = occupancy /\ CountedActors' = CountedActors
    BY DEF CountedActors
  <1> HIDE DEF Quiet, RegistryInv, TypeInv, TypeOK, Goto, Counted, Claimed
  <1> QED
    BY <1>1, <1>2, <1>3, <1>4, <1>5, <1>6, <1>7, <1>8, <1>9, <1>10, <1>11,
       <1>12 DEF Next, HubStep, ClientStep, Terminated

\* Every step keeps the counter equal to the number of counted actors.
LEMMA OccupancyNext == OccupancyInv /\ [Next]_vars => OccupancyInv'
  <1> SUFFICES ASSUME OccupancyInv, [Next]_vars PROVE OccupancyInv'
    OBVIOUS
  <1> USE DEF OccupancyInv
  <1>1. RegistryInv'
    BY RegistryNext
  <1>2. /\ occupancy = Cardinality(CountedActors)
        /\ OccupancyCountsClaims' <=> occupancy' = Cardinality(CountedActors')
    BY DEF OccupancyCountsClaims, CountedActors
  <1>3. IsFiniteSet(CountedActors)
    BY HubAssumption, FS_Subset DEF CountedActors
  <1>4. ASSUME NEW a \in Actors, CountIn(a) PROVE OccupancyCountsClaims'
    <2>1. a \notin CountedActors
      BY <1>4 DEF CountIn, CountedActors, Counted, Claimed
    <2>2. CountedActors' = CountedActors \cup {a}
      BY <1>4 DEF CountIn, Goto, CountedActors, Counted, Claimed,
                  RegistryInv, TypeInv, TypeOK
    <2>3. occupancy' = occupancy + 1
      BY <1>4 DEF CountIn
    <2> QED
      BY <1>2, <1>3, <2>1, <2>2, <2>3, FS_AddElement
  <1>5. ASSUME NEW a \in Actors, CountOut(a) PROVE OccupancyCountsClaims'
    <2>1. a \in CountedActors
      BY <1>5 DEF CountOut, CountedActors, Counted
    <2>2. CountedActors' = CountedActors \ {a}
      BY <1>5 DEF CountOut, Goto, CountedActors, Counted, Claimed,
                  RegistryInv, TypeInv, TypeOK
    <2>3. occupancy' = occupancy - 1
      BY <1>5 DEF CountOut
    <2> QED
      BY <1>2, <1>3, <2>1, <2>2, <2>3, FS_RemoveElement
  <1>6. CASE occupancy' = occupancy /\ CountedActors' = CountedActors
    BY <1>1, <1>2, <1>6
  <1> QED
    BY <1>1, <1>4, <1>5, <1>6, OccupancySteps

\* The counter starts at the number of counted actors, zero.
LEMMA OccupancyInit == Init => OccupancyInv
  <1>1. ASSUME Init PROVE CountedActors = {}
    BY <1>1 DEF Init, CountedActors, Counted, Claimed
  <1>2. ASSUME Init PROVE RegistryInv
    BY <1>2, TypeInit DEF Init, RegistryInv, RegistryMatchesClaims, Claimed
  <1> QED
    BY <1>1, <1>2, FS_EmptySet
    DEF Init, OccupancyInv, OccupancyCountsClaims, CountedActors

\* The counter is exact for any number of actors, so it never goes negative
\* (a usize would wrap) and is zero when every session has ended.
THEOREM OccupancyCorrect == Spec => []OccupancyCountsClaims
  <1>1. OccupancyInv => OccupancyCountsClaims
    BY DEF OccupancyInv
  <1> QED
    BY OccupancyInit, OccupancyNext, <1>1, PTL DEF Spec

-----------------------------------------------------------------------------
(* No echo.                                                                *)

Named(a) == pc[a] # "handshake"

\* The handle a broadcast has in hand is a registered peer's: the peer got
\* its name before, and it is not the publisher's.
HandleIsPeer ==
  \A a \in Actors : cur[a] # None =>
     pc[a] \in Publishing /\ Named(cur[a]) /\ name[cur[a]] # name[a]

\* NeverEchoed, of actors whose names no longer change.
LogIsOfPeers ==
  \A b \in Actors : \A i \in DOMAIN log[b] :
     Named(b) /\ Named(log[b][i].from) /\ name[log[b][i].from] # name[b]

EchoInv == RegistryInv /\ HandleIsPeer /\ LogIsOfPeers

\* A name is settled once the handshake is over, and the handshake is never
\* entered again.
LEMMA NamesSettle ==
  ASSUME TypeInv, [Next]_vars
  PROVE  \A a \in Actors : Named(a) => Named(a)' /\ name'[a] = name[a]
  <1> DEFINE Settled == \A c \in Actors :
               Named(c) => Named(c)' /\ name'[c] = name[c]
  <1> USE DEF TypeInv, TypeOK, Goto, Named
  <1>1. ASSUME NEW a \in Actors, NEW n \in Names, TryRegister(a, n)
        PROVE  Settled
    BY <1>1 DEF TryRegister
  <1>2. ASSUME NEW a \in Actors,
               \/ CountIn(a) \/ LoadOccupancy(a) \/ Recv(a) \/ Unwind(a)
               \/ HandshakeFails(a)
               \/ Remove(a) \/ CountOut(a) \/ DropMailbox(a) \/ TrySend(a)
               \/ BroadcastDone(a) \/ (\E b \in Actors : IterNext(a, b))
        PROVE  Settled
    BY <1>2
    DEF HandshakeFails, CountIn, LoadOccupancy, Recv, Unwind, Remove,
        AfterRemove, CountOut,
        DropMailbox, TrySend, BroadcastDone, AfterBroadcast, IterNext
  <1>3. ASSUME NEW a \in Actors, Join(a) \/ Send(a) \/ Depart(a)
        PROVE  Settled
    BY <1>3 DEF Join, Send, Depart, StartBroadcast
  <1>4. ASSUME UNCHANGED vars PROVE Settled
    BY <1>4 DEF vars
  <1> HIDE DEF Settled, TypeInv, TypeOK, Goto, Named
  <1>5. Settled
    BY <1>1, <1>2, <1>3, <1>4 DEF Next, HubStep, ClientStep, Terminated
  <1> QED
    BY <1>5 DEF Settled

\* Only the iterator and try_send move handles and logs; a publisher with a
\* handle in hand stays inside broadcast until it has used it.
LEMMA EchoSteps ==
  ASSUME RegistryInv, HandleIsPeer, [Next]_vars
  PROVE  \/ \E a, b \in Actors : IterNext(a, b)
         \/ \E a \in Actors : TrySend(a)
         \/ /\ UNCHANGED <<log, cur>>
            /\ \A c \in Actors : cur[c] # None => pc'[c] = pc[c]
  <1> DEFINE Quiet == /\ UNCHANGED <<log, cur>>
                      /\ \A c \in Actors : cur[c] # None => pc'[c] = pc[c]
  <1> USE DEF RegistryInv, TypeInv, TypeOK, Goto, HandleIsPeer, Publishing,
              mailboxes, iteration
  <1>1. ASSUME NEW a \in Actors, NEW n \in Names, TryRegister(a, n)
        PROVE  Quiet
    BY <1>1 DEF TryRegister
  <1>2. ASSUME NEW a \in Actors,
               \/ CountIn(a) \/ LoadOccupancy(a) \/ Recv(a) \/ Unwind(a)
               \/ HandshakeFails(a)
               \/ Remove(a) \/ CountOut(a) \/ DropMailbox(a)
               \/ BroadcastDone(a)
        PROVE  Quiet
    BY <1>2 DEF HandshakeFails, CountIn, LoadOccupancy, Recv, Unwind,
                Remove, CountOut,
                DropMailbox, BroadcastDone
  <1>3. ASSUME NEW a \in Actors, Join(a) \/ Send(a) \/ Depart(a)
        PROVE  Quiet
    BY <1>3 DEF Join, Send, Depart, StartBroadcast
  <1>4. ASSUME UNCHANGED vars PROVE Quiet
    BY <1>4 DEF vars
  <1> HIDE DEF Quiet, RegistryInv, TypeInv, TypeOK, Goto, HandleIsPeer,
               Publishing, mailboxes, iteration
  <1>5. \/ \E a, b \in Actors : IterNext(a, b)
        \/ \E a \in Actors : TrySend(a)
        \/ Quiet
    BY <1>1, <1>2, <1>3, <1>4 DEF Next, HubStep, ClientStep, Terminated
  <1> QED
    BY <1>5 DEF Quiet

\* Every step keeps echoes out.  The case that matters is the iterator: it
\* yields a registered entry, and only the publisher's own is under the
\* publisher's name, so the pointer comparison is enough.
LEMMA EchoNext == EchoInv /\ [Next]_vars => EchoInv'
  <1> SUFFICES ASSUME EchoInv, [Next]_vars PROVE EchoInv'
    OBVIOUS
  <1> USE DEF EchoInv
  <1>1. RegistryInv' /\ TypeInv
    BY RegistryNext DEF RegistryInv
  <1>2. \A a \in Actors : Named(a) => Named(a)' /\ name'[a] = name[a]
    BY <1>1, NamesSettle
  <1>3. \A a \in Actors : pc[a] \in Publishing => Named(a)
    BY DEF Named, Publishing
  <1>4. ASSUME NEW b \in Actors, NEW i \in DOMAIN log[b]
        PROVE  log[b][i].from \in Actors
    <2>1. log[b] \in Seq(Frames)
      BY <1>1 DEF TypeInv, TypeOK
    <2>2. log[b][i] \in Frames
      BY <2>1
    <2> QED
      BY <2>2 DEF Frames
  <1>5. ASSUME NEW a \in Actors, cur[a] # None
        PROVE  /\ cur[a] \in Actors /\ pc[a] \in Publishing
               /\ pc'[cur[a]] # "handshake" /\ name'[cur[a]] # name'[a]
    <2>1. cur[a] \in Actors
      BY <1>1, <1>5 DEF TypeInv, TypeOK
    <2>2. Named(a) /\ Named(cur[a]) /\ name[cur[a]] # name[a]
      BY <1>3, <1>5 DEF HandleIsPeer
    <2> QED
      BY <1>2, <1>5, <2>1, <2>2 DEF HandleIsPeer, Named
  <1>6. ASSUME NEW b \in Actors, NEW i \in DOMAIN log[b]
        PROVE  /\ pc'[b] # "handshake"
               /\ pc'[log[b][i].from] # "handshake"
               /\ name'[log[b][i].from] # name'[b]
    <2>1. Named(b) /\ Named(log[b][i].from) /\ name[log[b][i].from] # name[b]
      BY DEF LogIsOfPeers
    <2> QED
      BY <1>2, <1>4, <2>1 DEF Named
  <1>7. ASSUME log' = log PROVE LogIsOfPeers'
    BY <1>6, <1>7 DEF LogIsOfPeers, Named
  <1>8. ASSUME NEW a \in Actors, NEW b \in Actors, IterNext(a, b)
        PROVE  EchoInv'
    <2>1. log' = log /\ name' = name /\ pc' = pc /\ pc[a] \in Publishing
      BY <1>8 DEF IterNext, mailboxes
    <2>2. cur' = [cur EXCEPT ![a] = IF b = a THEN None ELSE b]
      BY <1>8 DEF IterNext, IsOrigin
    <2>3. ASSUME b # a PROVE Named(b) /\ name[b] # name[a]
      <3>1. PICK n \in Names : sessions[n] = b
        BY <1>8 DEF IterNext, Registered
      <3>2. pc[b] \in Claimed /\ name[b] = n
        BY <3>1, HubAssumption DEF RegistryInv, RegistryMatchesClaims
      <3>3. sessions[name[a]] = a
        BY <2>1 DEF RegistryInv, RegistryMatchesClaims, Publishing, Claimed
      <3> QED
        BY <2>3, <3>1, <3>2, <3>3 DEF Named, Claimed
    <2>4. ASSUME NEW c \in Actors, cur'[c] # None
          PROVE  /\ pc'[c] \in Publishing /\ Named(cur[c])'
                 /\ name'[cur'[c]] # name'[c]
      <3>1. CASE c = a
        BY <1>1, <2>1, <2>2, <2>3, <2>4, <3>1 DEF TypeInv, TypeOK, Named
      <3>2. CASE c # a
        BY <1>1, <1>5, <2>1, <2>2, <2>4, <3>2 DEF TypeInv, TypeOK, Named
      <3> QED
        BY <3>1, <3>2
    <2>5. HandleIsPeer'
      BY <2>4 DEF HandleIsPeer
    <2> QED
      BY <1>1, <1>7, <2>1, <2>5
  <1>9. ASSUME NEW a \in Actors, TrySend(a) PROVE EchoInv'
    <2> DEFINE b == cur[a]
    <2>1. /\ b \in Actors /\ b # None /\ pc[a] \in Publishing
          /\ frame[a].from = a
          /\ pc'[b] # "handshake" /\ name'[b] # name'[a]
      BY <1>1, <1>5, <1>9 DEF TrySend, TypeInv, FrameInHand
    <2>2. pc' = pc /\ name' = name /\ cur' = [cur EXCEPT ![a] = None]
      BY <1>9 DEF TrySend
    <2>3. HandleIsPeer'
      BY <1>1, <1>5, <2>2 DEF HandleIsPeer, Named, TypeInv, TypeOK
    <2>4. CASE log' = [log EXCEPT ![b] = Append(@, frame[a])]
      <3>1. log[b] \in Seq(Frames) /\ frame[a] \in Frames
        BY <1>1, <2>1 DEF TypeInv, TypeOK, FrameInHand
      <3>2. ASSUME NEW c \in Actors, NEW i \in DOMAIN log'[c]
            PROVE  /\ pc'[c] # "handshake"
                   /\ pc'[log'[c][i].from] # "handshake"
                   /\ name'[log'[c][i].from] # name'[c]
        <4>1. CASE c = b /\ i = Len(log[b]) + 1
          <5>1. log'[c][i] = frame[a]
            BY <1>1, <2>1, <2>4, <3>1, <4>1 DEF TypeInv, TypeOK
          <5> QED
            BY <1>3, <2>1, <2>2, <4>1, <5>1 DEF Named
        <4>2. CASE ~(c = b /\ i = Len(log[b]) + 1)
          <5>1. CASE c # b
            <6>1. log'[c] = log[c]
              BY <2>4, <5>1, <1>1 DEF TypeInv, TypeOK
            <6> QED
              BY <1>6, <6>1
          <5>2. CASE c = b
            <6>1. log'[c] = Append(log[b], frame[a])
              BY <1>1, <2>1, <2>4, <5>2 DEF TypeInv, TypeOK
            <6>2. i \in 1 .. Len(log[b]) + 1 /\ i # Len(log[b]) + 1
              BY <3>1, <4>2, <5>2, <6>1
            <6>3. i \in DOMAIN log[b] /\ log'[c][i] = log[b][i]
              BY <3>1, <6>1, <6>2
            <6> QED
              BY <1>6, <2>1, <5>2, <6>3
          <5> QED
            BY <5>1, <5>2
        <4> QED
          BY <4>1, <4>2
      <3> QED
        BY <1>1, <2>3, <3>2 DEF LogIsOfPeers, Named
    <2> QED
      BY <1>1, <1>7, <1>9, <2>3, <2>4 DEF TrySend
  <1>10. CASE /\ UNCHANGED <<log, cur>>
              /\ \A c \in Actors : cur[c] # None => pc'[c] = pc[c]
    <2>1. HandleIsPeer'
      BY <1>5, <1>10 DEF HandleIsPeer, Named
    <2> QED
      BY <1>1, <1>7, <1>10, <2>1
  <1> QED
    BY <1>8, <1>9, <1>10, EchoSteps

\* No mailbox ever accepts a frame published under its own actor's name.
THEOREM NoEcho == Spec => []NeverEchoed
  <1>1. Init => EchoInv
    BY TypeInit
    DEF Init, EchoInv, HandleIsPeer, LogIsOfPeers, RegistryInv,
        RegistryMatchesClaims, Claimed
  <1>2. EchoInv => NeverEchoed
    BY DEF EchoInv, LogIsOfPeers, NeverEchoed
  <1> QED
    BY EchoNext, <1>1, <1>2, PTL DEF Spec

-----------------------------------------------------------------------------
(* What a publisher has published and its peers have received.             *)

\* Before the Joined of an actor; after its Departed, or after it unwound.
Early == {"handshake", "inserted", "counted", "welcoming"}
Leaving == {"departing", "releasing", "removed", "released", "done"}

\* The last frame of an actor fits the place it has reached in run: the
\* first one is Joined, and after Departed it publishes nothing.
Stage ==
  \A a \in Actors :
     /\ pc[a] = "handshake" => name[a] = None
     /\ pc[a] \in Early => frame[a] = None /\ published[a] = 0
     /\ pc[a] \in Publishing \cup {"serving"} => frame[a] # None
     /\ frame[a] # None =>
          /\ frame[a].from = a
          /\ frame[a].seq + 1 = published[a]
          /\ frame[a].kind = "Joined" <=> frame[a].seq = 0
          /\ frame[a].kind = "Departed" => pc[a] \in Leaving

\* The same of the frames that mailboxes have accepted.
LogFrames ==
  \A b \in Actors : \A i \in DOMAIN log[b] :
     LET f == log[b][i] IN
     /\ f.seq < published[f.from]
     /\ f.kind = "Joined" <=> f.seq = 0
     /\ f.kind = "Departed" =>
          f.seq + 1 = published[f.from] /\ pc[f.from] \in Leaving

\* A handle in hand was yielded by the iterator, and is of a named actor.
HandleYielded ==
  \A a \in Actors : cur[a] # None =>
     cur[a] \in seen[a] /\ name[cur[a]] # None

\* A peer not visited yet, or just about to be, has only older frames.
Frontier ==
  \A a, b \in Actors :
     (pc[a] \in Publishing /\ (b \notin seen[a] \/ b = cur[a])) =>
        \A i \in DOMAIN log[b] :
           log[b][i].from = a => log[b][i].seq + 1 < published[a]

\* A peer that was visited has the frame, or its try_send failed.
Visited ==
  \A a, b \in Actors :
     (pc[a] \in Publishing /\ b \in seen[a] \ {a}) =>
        \/ b = cur[a] \/ b \in missed[a]
        \/ \E i \in DOMAIN log[b] : log[b][i] = frame[a]

Ordered ==
  \A b \in Actors : \A i, j \in DOMAIN log[b] :
     (i < j /\ log[b][i].from = log[b][j].from) =>
        log[b][i].seq < log[b][j].seq

\* The earlier of two holders of one name has given it up.
HoldersGone ==
  \A b \in Actors : \A i, j \in DOMAIN log[b] :
     LET s == log[b][i].from
         t == log[b][j].from
     IN  (i < j /\ s # t /\ name[s] = name[t]) => pc[s] \notin Claimed

OrderInv ==
  /\ EchoInv /\ Stage /\ LogFrames /\ HandleYielded
  /\ Frontier /\ Visited /\ Ordered /\ HoldersGone /\ HoldersDoNotInterleave

\* What try_send does to the logs: the peer's gets the frame at its end, all
\* else stays.
LEMMA LogGrows ==
  ASSUME TypeInv, NEW a \in Actors, TrySend(a), log' # log
  PROVE  /\ cur[a] \in Actors /\ frame[a] \in Frames /\ frame[a].from = a
         /\ Len(log[cur[a]]) + 1 \in DOMAIN log'[cur[a]]
         /\ log'[cur[a]][Len(log[cur[a]]) + 1] = frame[a]
         /\ \A c \in Actors : \A i \in DOMAIN log[c] :
               /\ i \in DOMAIN log'[c] /\ log'[c][i] = log[c][i]
               /\ i \in Nat /\ i <= Len(log[c])
         /\ \A c \in Actors : \A i \in DOMAIN log'[c] :
               \/ i \in DOMAIN log[c]
               \/ /\ c = cur[a] /\ i = Len(log[c]) + 1
                  /\ log'[c][i] = frame[a]
  <1> DEFINE b == cur[a]
  <1>1. b \in Actors /\ frame[a] \in Frames /\ frame[a].from = a
    BY DEF TypeInv, TypeOK, FrameInHand, TrySend
  <1>2. log' = [log EXCEPT ![b] = Append(@, frame[a])]
    BY DEF TrySend
  <1>3. \A c \in Actors : log[c] \in Seq(Frames)
    BY DEF TypeInv, TypeOK
  <1>4. log'[b] = Append(log[b], frame[a])
    BY <1>1, <1>2 DEF TypeInv, TypeOK
  <1>5. \A c \in Actors : c # b => log'[c] = log[c]
    BY <1>2 DEF TypeInv, TypeOK
  <1>6. /\ DOMAIN log'[b] = 1 .. Len(log[b]) + 1
        /\ log'[b][Len(log[b]) + 1] = frame[a]
        /\ \A i \in DOMAIN log[b] : log'[b][i] = log[b][i]
    BY <1>1, <1>3, <1>4
  <1>7. \A c \in Actors : DOMAIN log[c] = 1 .. Len(log[c]) /\ Len(log[c]) \in Nat
    BY <1>3
  <1>8. ASSUME NEW c \in Actors, NEW i \in DOMAIN log[c]
        PROVE  /\ i \in DOMAIN log'[c] /\ log'[c][i] = log[c][i]
               /\ i \in Nat /\ i <= Len(log[c])
    <2>1. i \in Nat /\ i <= Len(log[c])
      BY <1>7
    <2>2. CASE c = b
      BY <1>6, <1>7, <2>1, <2>2
    <2>3. CASE c # b
      BY <1>5, <2>1, <2>3
    <2> QED
      BY <2>2, <2>3
  <1>9. ASSUME NEW c \in Actors, NEW i \in DOMAIN log'[c], i \notin DOMAIN log[c]
        PROVE  c = b /\ i = Len(log[c]) + 1 /\ log'[c][i] = frame[a]
    <2>1. c = b
      BY <1>5, <1>9
    <2>2. i = Len(log[b]) + 1
      BY <1>1, <1>6, <1>7, <1>9, <2>1
    <2> QED
      BY <1>6, <2>1, <2>2
  <1> HIDE DEF b
  <1>10. Len(log[b]) + 1 \in DOMAIN log'[b]
    BY <1>1, <1>6, <1>7
  <1> QED
    BY <1>1, <1>6, <1>8, <1>9, <1>10 DEF b

\* The parts of a frame, in a log or of a publisher.
LEMMA FrameParts ==
  ASSUME TypeInv
  PROVE  /\ \A b \in Actors : \A i \in DOMAIN log[b] :
               log[b][i] \in Frames /\ log[b][i].from \in Actors
               /\ log[b][i].seq \in Nat /\ log[b][i].kind \in Kinds
         /\ \A a \in Actors : published[a] \in Nat
         /\ \A a \in Actors : frame[a] # None =>
               frame[a] \in Frames /\ frame[a].seq \in Nat
         /\ \A a \in Actors : DOMAIN log[a] = 1 .. Len(log[a])
                              /\ Len(log[a]) \in Nat
  <1>1. \A b \in Actors : log[b] \in Seq(Frames)
    BY DEF TypeInv, TypeOK
  <1>2. \A b \in Actors : \A i \in DOMAIN log[b] : log[b][i] \in Frames
    BY <1>1
  <1>3. \A f \in Frames : f.from \in Actors /\ f.seq \in Nat /\ f.kind \in Kinds
    BY DEF Frames
  <1>4. \A a \in Actors : frame[a] # None => frame[a] \in Frames
    BY DEF TypeInv, TypeOK
  <1>5. \A a \in Actors : published[a] \in Nat
    BY DEF TypeInv, TypeOK
  <1>6. \A a \in Actors : DOMAIN log[a] = 1 .. Len(log[a]) /\ Len(log[a]) \in Nat
    BY <1>1
  <1> QED
    BY <1>2, <1>3, <1>4, <1>5, <1>6

\* How the stage of an actor moves: it publishes a frame, or its published
\* frames stay and it neither goes back nor enters a broadcast.
LEMMA StageSteps ==
  ASSUME TypeInv, [Next]_vars
  PROVE  \/ \E a \in Actors, n \in Names : TryRegister(a, n)
         \/ \E a \in Actors : Join(a) \/ Send(a) \/ Depart(a)
         \/ /\ UNCHANGED <<published, frame, name>>
            /\ \A c \in Actors :
                 /\ pc'[c] = "handshake" => pc[c] = "handshake"
                 /\ pc'[c] \in Early => pc[c] \in Early
                 /\ pc'[c] \in Publishing => pc[c] = pc'[c]
                 /\ pc'[c] = "serving" => pc[c] \in Publishing \cup {"serving"}
                 /\ pc[c] \in Leaving => pc'[c] \in Leaving
  <1> DEFINE Quiet ==
         /\ UNCHANGED <<published, frame, name>>
         /\ \A c \in Actors :
              /\ pc'[c] = "handshake" => pc[c] = "handshake"
              /\ pc'[c] \in Early => pc[c] \in Early
              /\ pc'[c] \in Publishing => pc[c] = pc'[c]
              /\ pc'[c] = "serving" => pc[c] \in Publishing \cup {"serving"}
              /\ pc[c] \in Leaving => pc'[c] \in Leaving
  <1>0. pc \in [Actors -> Phases]
    BY DEF TypeInv, TypeOK
  <1> USE <1>0 DEF Goto, Early, Leaving, Publishing, mailboxes, iteration
  <1>1. ASSUME NEW a \in Actors,
               CountIn(a) \/ LoadOccupancy(a) \/ HandshakeFails(a)
        PROVE  Quiet
    BY <1>1 DEF CountIn, LoadOccupancy, HandshakeFails
  <1>2. ASSUME NEW a \in Actors, Recv(a) \/ Unwind(a) PROVE Quiet
    BY <1>2 DEF Recv, Unwind
  <1>3. ASSUME NEW a \in Actors, NEW b \in Actors, IterNext(a, b)
        PROVE  Quiet
    BY <1>3 DEF IterNext
  <1>4. ASSUME NEW a \in Actors, TrySend(a) PROVE Quiet
    BY <1>4 DEF TrySend
  <1>5. ASSUME NEW a \in Actors, BroadcastDone(a) PROVE Quiet
    BY <1>5 DEF BroadcastDone, AfterBroadcast
  <1>6. ASSUME NEW a \in Actors, Remove(a) PROVE Quiet
    BY <1>6 DEF Remove, AfterRemove
  <1>7. ASSUME NEW a \in Actors, CountOut(a) \/ DropMailbox(a) PROVE Quiet
    BY <1>7 DEF CountOut, DropMailbox
  <1>8. ASSUME UNCHANGED vars PROVE Quiet
    BY <1>8 DEF vars
  <1> HIDE <1>0 DEF Quiet, Goto, Early, Leaving, Publishing, mailboxes, iteration
  <1>9. \/ \E a \in Actors, n \in Names : TryRegister(a, n)
        \/ \E a \in Actors : Join(a) \/ Send(a) \/ Depart(a)
        \/ Quiet
    BY <1>1, <1>2, <1>3, <1>4, <1>5, <1>6, <1>7, <1>8
    DEF Next, HubStep, ClientStep, Terminated
  <1> QED
    BY <1>9 DEF Quiet

\* Every step keeps an actor's frame in line with its stage.
LEMMA StageNext == TypeInv /\ Stage /\ [Next]_vars => Stage'
  <1> SUFFICES ASSUME TypeInv, Stage, [Next]_vars PROVE Stage'
    OBVIOUS
  <1>0. /\ pc \in [Actors -> Phases] /\ name \in [Actors -> Names \cup {None}]
        /\ frame \in [Actors -> Frames \cup {None}]
        /\ published \in [Actors -> Nat]
    BY DEF TypeInv, TypeOK
  <1>1. ASSUME NEW a \in Actors, NEW n \in Names, TryRegister(a, n)
        PROVE  Stage'
    BY <1>0, <1>1 DEF TryRegister, Stage, Goto, Early, Leaving, Publishing
  <1>2. ASSUME NEW a \in Actors, NEW kind \in Kinds, NEW phase \in Publishing,
               StartBroadcast(a, kind, phase),
               kind = "Joined" <=> published[a] = 0,
               kind = "Departed" => phase = "departing"
        PROVE  Stage'
    <2>1. /\ frame'[a] = [from |-> a, kind |-> kind, seq |-> published[a]]
          /\ published'[a] = published[a] + 1
          /\ pc'[a] = phase /\ name' = name
          /\ \A c \in Actors : c # a =>
               frame'[c] = frame[c] /\ published'[c] = published[c] /\ pc'[c] = pc[c]
      BY <1>0, <1>2 DEF StartBroadcast, Goto
    <2>2. frame'[a] # None
      <3>1. [from |-> a, kind |-> kind, seq |-> published[a]] \in Frames
        BY <1>0 DEF Frames
      <3> QED
        BY <2>1, <3>1, HubAssumption
    <2> QED
      BY <1>2, <2>1, <2>2 DEF Stage, Early, Leaving, Publishing
  <1>3. ASSUME NEW a \in Actors, Join(a) \/ Send(a) \/ Depart(a)
        PROVE  Stage'
    <2>1. pc[a] = "welcoming" => published[a] = 0
      BY DEF Stage, Early
    <2>2. pc[a] = "serving" => published[a] # 0
      BY <1>0 DEF Stage, Publishing, Frames
    <2> QED
      BY <1>2, <1>3, <2>1, <2>2 DEF Join, Send, Depart, Kinds, Publishing
  <1>4. CASE /\ UNCHANGED <<published, frame, name>>
             /\ \A c \in Actors :
                  /\ pc'[c] = "handshake" => pc[c] = "handshake"
                  /\ pc'[c] \in Early => pc[c] \in Early
                  /\ pc'[c] \in Publishing => pc[c] = pc'[c]
                  /\ pc'[c] = "serving" => pc[c] \in Publishing \cup {"serving"}
                  /\ pc[c] \in Leaving => pc'[c] \in Leaving
    BY <1>4 DEF Stage
  <1> QED
    BY <1>1, <1>3, <1>4, StageSteps

\* No step takes anything back: counts of published frames only grow, an
\* actor on its way out publishes no more and a claim given up stays so.
LEMMA NothingTakenBack ==
  ASSUME TypeInv, Stage, [Next]_vars, NEW c \in Actors
  PROVE  /\ published[c] <= published'[c]
         /\ pc[c] \in Leaving => pc'[c] \in Leaving /\ published'[c] = published[c]
         /\ Named(c) /\ pc[c] \notin Claimed => pc'[c] \notin Claimed
  <1>0. /\ pc \in [Actors -> Phases] /\ published \in [Actors -> Nat]
    BY DEF TypeInv, TypeOK
  <1>1. /\ published[c] <= published'[c]
        /\ pc[c] \in Leaving => pc'[c] \in Leaving /\ published'[c] = published[c]
    <2>1. ASSUME NEW a \in Actors, NEW n \in Names, TryRegister(a, n)
          PROVE  <1>1!1 /\ <1>1!2
      BY <1>0, <2>1 DEF TryRegister, Goto, Leaving
    <2>2. ASSUME NEW a \in Actors, Join(a) \/ Send(a) \/ Depart(a)
          PROVE  <1>1!1 /\ <1>1!2
      BY <1>0, <2>2 DEF Join, Send, Depart, StartBroadcast, Goto, Leaving
    <2> QED
      BY <1>0, <2>1, <2>2, StageSteps
  <1>2. ASSUME Named(c), pc[c] \notin Claimed PROVE pc'[c] \notin Claimed
    <2>1. ASSUME NEW a \in Actors, NEW n \in Names, TryRegister(a, n)
          PROVE  pc'[c] \notin Claimed
      BY <1>0, <1>2, <2>1 DEF TryRegister, Goto, Claimed, Named
    <2>2. ASSUME NEW a \in Actors, Remove(a) PROVE pc'[c] \notin Claimed
      BY <1>0, <1>2, <2>2 DEF Remove, AfterRemove, Goto, Claimed
    <2> QED
      BY <1>2, <2>1, <2>2, RegistrySteps
  <1> QED
    BY <1>1, <1>2

\* Only broadcast itself moves an iteration or a log.
LEMMA BroadcastSteps ==
  ASSUME TypeInv, [Next]_vars
  PROVE  \/ \E a, b \in Actors : IterNext(a, b)
         \/ \E a \in Actors : TrySend(a)
         \/ \E a \in Actors : Join(a) \/ Send(a) \/ Depart(a)
         \/ \E a \in Actors : BroadcastDone(a)
         \/ /\ UNCHANGED <<log, seen, cur, missed, published, frame>>
            /\ \A c \in Actors :
                 pc[c] \in Publishing \/ pc'[c] \in Publishing => pc'[c] = pc[c]
  <1> DEFINE Quiet ==
         /\ UNCHANGED <<log, seen, cur, missed, published, frame>>
         /\ \A c \in Actors :
              pc[c] \in Publishing \/ pc'[c] \in Publishing => pc'[c] = pc[c]
  <1>0. pc \in [Actors -> Phases]
    BY DEF TypeInv, TypeOK
  <1> USE <1>0 DEF Goto, Publishing, mailboxes, iteration
  <1>1. ASSUME NEW a \in Actors, NEW n \in Names, TryRegister(a, n)
        PROVE  Quiet
    BY <1>1 DEF TryRegister
  <1>2. ASSUME NEW a \in Actors,
               CountIn(a) \/ LoadOccupancy(a) \/ HandshakeFails(a)
        PROVE  Quiet
    BY <1>2 DEF CountIn, LoadOccupancy, HandshakeFails
  <1>3. ASSUME NEW a \in Actors, Recv(a) \/ Unwind(a) PROVE Quiet
    BY <1>3 DEF Recv, Unwind
  <1>4. ASSUME NEW a \in Actors, Remove(a) PROVE Quiet
    BY <1>4 DEF Remove, AfterRemove
  <1>5. ASSUME NEW a \in Actors, CountOut(a) \/ DropMailbox(a) PROVE Quiet
    BY <1>5 DEF CountOut, DropMailbox
  <1>6. ASSUME UNCHANGED vars PROVE Quiet
    BY <1>6 DEF vars
  <1> HIDE <1>0 DEF Quiet, Goto, Publishing, mailboxes, iteration
  <1>7. \/ \E a, b \in Actors : IterNext(a, b)
        \/ \E a \in Actors : TrySend(a)
        \/ \E a \in Actors : Join(a) \/ Send(a) \/ Depart(a)
        \/ \E a \in Actors : BroadcastDone(a)
        \/ Quiet
    BY <1>1, <1>2, <1>3, <1>4, <1>5, <1>6
    DEF Next, HubStep, ClientStep, Terminated
  <1> QED
    BY <1>7 DEF Quiet

\* A log changes only by a try_send that succeeds.
LEMMA LogSteps ==
  ASSUME TypeInv, [Next]_vars, log' # log
  PROVE  \E a \in Actors : TrySend(a)
  <1>1. ASSUME NEW a \in Actors, NEW b \in Actors, IterNext(a, b)
        PROVE  log' = log
    BY <1>1 DEF IterNext, mailboxes
  <1>2. ASSUME NEW a \in Actors, Join(a) \/ Send(a) \/ Depart(a)
        PROVE  log' = log
    BY <1>2 DEF Join, Send, Depart, StartBroadcast, mailboxes
  <1>3. ASSUME NEW a \in Actors, BroadcastDone(a) PROVE log' = log
    BY <1>3 DEF BroadcastDone, mailboxes
  <1> QED
    BY <1>1, <1>2, <1>3, BroadcastSteps

\* Frames in the logs keep their place in their publisher's order.
LEMMA LogFramesNext == OrderInv /\ [Next]_vars => LogFrames'
  <1> SUFFICES ASSUME OrderInv, [Next]_vars,
                      NEW c \in Actors, NEW i \in DOMAIN log'[c]
               PROVE  LET f == log'[c][i] IN
                      /\ f.seq < published'[f.from]
                      /\ f.kind = "Joined" <=> f.seq = 0
                      /\ f.kind = "Departed" =>
                           f.seq + 1 = published'[f.from]
                           /\ pc'[f.from] \in Leaving
    BY DEF LogFrames
  <1> DEFINE f == log'[c][i]
  <1>0. TypeInv /\ TypeInv' /\ Stage /\ LogFrames
    BY TypeNext DEF OrderInv, EchoInv, RegistryInv
  <1>1. CASE i \in DOMAIN log[c] /\ f = log[c][i]
    <2>1. f.from \in Actors /\ f.seq \in Nat /\ published[f.from] \in Nat
          /\ published'[f.from] \in Nat
      BY <1>0, <1>1, FrameParts DEF TypeInv, TypeOK
    <2>2. /\ f.seq < published[f.from]
          /\ f.kind = "Joined" <=> f.seq = 0
          /\ f.kind = "Departed" =>
               f.seq + 1 = published[f.from] /\ pc[f.from] \in Leaving
      BY <1>0, <1>1 DEF LogFrames
    <2> HIDE DEF f
    <2> QED
      BY <1>0, <2>1, <2>2, NothingTakenBack DEF f
  <1>2. ASSUME NEW a \in Actors, TrySend(a), f = frame[a]
        PROVE  /\ f.seq < published'[f.from]
               /\ f.kind = "Joined" <=> f.seq = 0
               /\ f.kind = "Departed" =>
                    f.seq + 1 = published'[f.from] /\ pc'[f.from] \in Leaving
    <2>1. pc[a] \in Publishing /\ published' = published /\ pc' = pc
      BY <1>2 DEF TrySend
    <2>2. frame[a] # None
      BY <1>0, <2>1 DEF Stage
    <2>3. frame[a].seq \in Nat /\ published[a] \in Nat
      BY <1>0, <2>2, FrameParts
    <2> QED
      BY <1>0, <1>2, <2>1, <2>2, <2>3 DEF Stage
  <1>3. CASE log' = log
    BY <1>1, <1>3
  <1>4. CASE log' # log
    <2>1. PICK a \in Actors : TrySend(a)
      BY <1>0, <1>4, LogSteps
    <2> QED
      BY <1>0, <1>1, <1>2, <1>4, <2>1, LogGrows
  <1> QED
    BY <1>3, <1>4

\* ... and in the recipient's.
LEMMA OrderedNext == OrderInv /\ [Next]_vars => Ordered'
  <1> SUFFICES ASSUME OrderInv, [Next]_vars,
                      NEW c \in Actors, NEW i \in DOMAIN log'[c],
                      NEW j \in DOMAIN log'[c], i < j,
                      log'[c][i].from = log'[c][j].from
               PROVE  log'[c][i].seq < log'[c][j].seq
    BY DEF Ordered
  <1>0. TypeInv /\ Stage /\ Frontier /\ Ordered
    BY DEF OrderInv, EchoInv, RegistryInv
  <1>1. CASE log' = log
    BY <1>0, <1>1 DEF Ordered
  <1>2. CASE log' # log
    <2>1. PICK a \in Actors : TrySend(a)
      BY <1>0, <1>2, LogSteps
    <2>2. /\ cur[a] \in Actors
          /\ \A k \in DOMAIN log[c] :
               log'[c][k] = log[c][k] /\ k \in Nat /\ k <= Len(log[c])
          /\ \A k \in DOMAIN log'[c] : k \in DOMAIN log[c] \/
               (c = cur[a] /\ k = Len(log[c]) + 1 /\ log'[c][k] = frame[a])
          /\ Len(log[c]) \in Nat
      BY <1>0, <1>2, <2>1, LogGrows, FrameParts
    <2>3. CASE j \in DOMAIN log[c]
      <3>1. i \in DOMAIN log[c]
        BY <2>2, <2>3
      <3> QED
        BY <1>0, <2>2, <2>3, <3>1 DEF Ordered
    <2>4. CASE j \notin DOMAIN log[c]
      <3>1. c = cur[a] /\ log'[c][j] = frame[a] /\ j = Len(log[c]) + 1
        BY <2>2, <2>4
      <3>2. i \in DOMAIN log[c] /\ log'[c][i] = log[c][i]
        BY <2>2, <3>1
      <3>3. pc[a] \in Publishing
        BY <2>1 DEF TrySend
      <3>4. /\ frame[a].from = a /\ frame[a].seq + 1 = published[a]
            /\ frame[a].seq \in Nat /\ published[a] \in Nat
            /\ log[c][i].seq \in Nat
        BY <1>0, <3>2, <3>3, FrameParts DEF Stage
      <3>5. log[c][i].from = a
        BY <3>1, <3>2, <3>4
      <3>6. log[c][i].seq + 1 < published[a]
        BY <1>0, <3>1, <3>2, <3>3, <3>5 DEF Frontier
      <3> QED
        BY <3>1, <3>2, <3>4, <3>6
    <2> QED
      BY <2>3, <2>4
  <1> QED
    BY <1>1, <1>2

\* A name is taken by the next holder only when the last one has removed it.
LEMMA HoldersNext == OrderInv /\ [Next]_vars => HoldersGone'
  <1> SUFFICES ASSUME OrderInv, [Next]_vars,
                      NEW c \in Actors, NEW i \in DOMAIN log'[c],
                      NEW j \in DOMAIN log'[c], i < j,
                      log'[c][i].from # log'[c][j].from,
                      name'[log'[c][i].from] = name'[log'[c][j].from]
               PROVE  pc'[log'[c][i].from] \notin Claimed
    BY DEF HoldersGone
  <1>0. /\ TypeInv /\ RegistryMatchesClaims /\ Stage /\ HoldersGone
        /\ LogIsOfPeers
    BY DEF OrderInv, EchoInv, RegistryInv
  <1> DEFINE s == log'[c][i].from
             t == log'[c][j].from
  <1>1. ASSUME i \in DOMAIN log[c], j \in DOMAIN log[c],
               log'[c][i] = log[c][i], log'[c][j] = log[c][j]
        PROVE  pc'[s] \notin Claimed
    <2>1. s \in Actors /\ t \in Actors /\ Named(s) /\ Named(t)
      BY <1>0, <1>1, FrameParts DEF LogIsOfPeers
    <2>2. name'[s] = name[s] /\ name'[t] = name[t]
      BY <1>0, <2>1, NamesSettle
    <2>3. pc[s] \notin Claimed
      BY <1>0, <1>1, <2>2 DEF HoldersGone
    <2> QED
      BY <1>0, <2>1, <2>3, NothingTakenBack
  <1>2. CASE log' = log
    BY <1>1, <1>2
  <1>3. CASE log' # log
    <2>1. PICK a \in Actors : TrySend(a)
      BY <1>0, <1>3, LogSteps
    <2>2. /\ \A k \in DOMAIN log[c] :
               log'[c][k] = log[c][k] /\ k \in Nat /\ k <= Len(log[c])
          /\ \A k \in DOMAIN log'[c] : k \in DOMAIN log[c] \/
               (c = cur[a] /\ k = Len(log[c]) + 1 /\ log'[c][k] = frame[a])
          /\ Len(log[c]) \in Nat /\ frame[a].from = a
      BY <1>0, <1>3, <2>1, LogGrows, FrameParts
    <2>3. CASE j \in DOMAIN log[c]
      <3>1. i \in DOMAIN log[c]
        BY <2>2, <2>3
      <3> QED
        BY <1>1, <2>2, <2>3, <3>1
    <2>4. CASE j \notin DOMAIN log[c]
      <3>1. log'[c][j] = frame[a] /\ j = Len(log[c]) + 1 /\ t = a
        BY <2>2, <2>4
      <3>2. i \in DOMAIN log[c] /\ log'[c][i] = log[c][i]
        BY <2>2, <3>1
      <3>3. pc[a] \in Claimed /\ pc' = pc /\ name' = name
        BY <2>1 DEF TrySend, Publishing, Claimed
      <3>4. s \in Actors
        BY <1>0, <3>2, FrameParts
      <3>5. s # a /\ name[s] = name[a]
        BY <3>1, <3>3
      <3> QED
        BY <1>0, <3>3, <3>4, <3>5 DEF RegistryMatchesClaims
    <2> QED
      BY <2>3, <2>4
  <1> QED
    BY <1>2, <1>3

\* What entering broadcast does, whichever frame run announces.
LEMMA StartParts ==
  ASSUME TypeInv, NEW a \in Actors, Join(a) \/ Send(a) \/ Depart(a)
  PROVE  /\ pc[a] \notin Publishing /\ pc'[a] \in Publishing
         /\ published'[a] = published[a] + 1
         /\ seen'[a] = {} /\ UNCHANGED <<log, cur, missed, name, sessions>>
         /\ \A c \in Actors \ {a} :
               /\ pc'[c] = pc[c] /\ published'[c] = published[c]
               /\ frame'[c] = frame[c] /\ seen'[c] = seen[c]
  BY DEF TypeInv, TypeOK, Join, Send, Depart, StartBroadcast, Goto, Publishing,
         mailboxes

\* A handle in hand stays one that the iterator has yielded.
LEMMA HandleYieldedNext == OrderInv /\ [Next]_vars => HandleYielded'
  <1> SUFFICES ASSUME OrderInv, [Next]_vars,
                      NEW c \in Actors, cur'[c] # None
               PROVE  cur'[c] \in seen'[c] /\ name'[cur'[c]] # None
    BY DEF HandleYielded
  <1>0. TypeInv /\ TypeInv' /\ EchoInv /\ RegistryMatchesClaims /\ HandleYielded
    BY TypeNext DEF OrderInv, EchoInv, RegistryInv
  <1>1. ASSUME cur[c] # None
        PROVE  /\ cur[c] \in Actors /\ pc[c] \in Publishing
               /\ cur[c] \in seen[c] /\ name'[cur[c]] # None
    <2>1. cur[c] \in Actors
      BY <1>0, <1>1 DEF TypeInv, TypeOK
    <2>2. Named(cur[c]) /\ pc[c] \in Publishing
      BY <1>0, <1>1 DEF EchoInv, HandleIsPeer
    <2> QED
      BY <1>0, <1>1, <2>1, <2>2, NamesSettle DEF HandleYielded
  <1>2. ASSUME NEW a \in Actors, NEW b \in Actors, IterNext(a, b)
        PROVE  cur'[c] \in seen'[c] /\ name'[cur'[c]] # None
    <2>1. CASE c = a
      <3>1. cur'[a] = b /\ b \in seen'[a] /\ name' = name
        BY <1>0, <1>2, <2>1 DEF IterNext, IsOrigin, TypeInv, TypeOK
      <3>2. PICK n \in Names : sessions[n] = b
        BY <1>2 DEF IterNext, Registered
      <3>3. name[b] = n
        BY <1>0, <3>2, HubAssumption DEF RegistryMatchesClaims
      <3> QED
        BY <2>1, <3>1, <3>3, HubAssumption
    <2>2. CASE c # a
      BY <1>0, <1>1, <1>2, <2>2 DEF IterNext, TypeInv, TypeOK
    <2> QED
      BY <2>1, <2>2
  <1>3. ASSUME NEW a \in Actors, TrySend(a)
        PROVE  cur'[c] \in seen'[c] /\ name'[cur'[c]] # None
    BY <1>0, <1>1, <1>3 DEF TrySend, TypeInv, TypeOK
  <1>4. ASSUME NEW a \in Actors, Join(a) \/ Send(a) \/ Depart(a)
        PROVE  cur'[c] \in seen'[c] /\ name'[cur'[c]] # None
    BY <1>0, <1>1, <1>4, StartParts
  <1>5. ASSUME NEW a \in Actors, BroadcastDone(a)
        PROVE  cur'[c] \in seen'[c] /\ name'[cur'[c]] # None
    BY <1>0, <1>1, <1>5 DEF BroadcastDone, TypeInv, TypeOK
  <1> QED
    BY <1>0, <1>1, <1>2, <1>3, <1>4, <1>5, BroadcastSteps

\* A peer the iterator has not yielded yet keeps only older frames: only the
\* publisher itself sends its frames, and only to the handle in hand.
LEMMA FrontierNext == OrderInv /\ [Next]_vars => Frontier'
  <1> SUFFICES ASSUME OrderInv, [Next]_vars,
                      NEW c \in Actors, NEW b \in Actors,
                      pc'[c] \in Publishing, b \notin seen'[c] \/ b = cur'[c],
                      NEW i \in DOMAIN log'[b], log'[b][i].from = c
               PROVE  log'[b][i].seq + 1 < published'[c]
    BY DEF Frontier
  <1>0. TypeInv /\ Stage /\ LogFrames /\ Frontier /\ HandleYielded
    BY DEF OrderInv, EchoInv, RegistryInv
  <1>1. ASSUME NEW a \in Actors, NEW d \in Actors, IterNext(a, d)
        PROVE  log'[b][i].seq + 1 < published'[c]
    <2>1. log' = log /\ pc' = pc /\ published' = published
      BY <1>1 DEF IterNext, mailboxes
    <2>2. b \notin seen[c] \/ b = cur[c]
      BY <1>0, <1>1, HubAssumption DEF IterNext, IsOrigin, TypeInv, TypeOK
    <2> QED
      BY <1>0, <2>1, <2>2 DEF Frontier
  <1>2. ASSUME NEW a \in Actors, TrySend(a)
        PROVE  log'[b][i].seq + 1 < published'[c]
    <2>1. pc' = pc /\ published' = published /\ seen' = seen
          /\ cur' = [cur EXCEPT ![a] = None]
      BY <1>2 DEF TrySend
    <2>2. b \notin seen[c] \/ b = cur[c]
      BY <1>0, <2>1, HubAssumption DEF TypeInv, TypeOK
    <2>3. ASSUME i \in DOMAIN log[b], log'[b][i] = log[b][i]
          PROVE  log'[b][i].seq + 1 < published'[c]
      BY <1>0, <2>1, <2>2, <2>3 DEF Frontier
    <2>4. CASE log' # log
      <3>1. CASE i \in DOMAIN log[b]
        BY <1>0, <1>2, <2>3, <2>4, <3>1, LogGrows
      <3>2. CASE i \notin DOMAIN log[b]
        <4>1. b = cur[a] /\ c = a
          BY <1>0, <1>2, <2>4, <3>2, LogGrows
        <4>2. b # None /\ cur'[a] = None /\ b \in seen[a]
          BY <1>0, <1>2, <2>1, <4>1 DEF TrySend, HandleYielded, TypeInv, TypeOK
        <4> QED
          BY <2>1, <4>1, <4>2
      <3> QED
        BY <3>1, <3>2
    <2> QED
      BY <2>3, <2>4
  <1>3. ASSUME NEW a \in Actors, Join(a) \/ Send(a) \/ Depart(a)
        PROVE  log'[b][i].seq + 1 < published'[c]
    <2>1. CASE c = a
      <3>1. log' = log /\ published'[c] = published[c] + 1
        BY <1>0, <1>3, <2>1, StartParts
      <3>2. log[b][i].seq < published[c]
        BY <1>0, <3>1 DEF LogFrames
      <3>3. log[b][i].seq \in Nat /\ published[c] \in Nat
        BY <1>0, <3>1, FrameParts
      <3> QED
        BY <3>1, <3>2, <3>3
    <2>2. CASE c # a
      BY <1>0, <1>3, <2>2, StartParts DEF Frontier
    <2> QED
      BY <2>1, <2>2
  <1>4. ASSUME NEW a \in Actors, BroadcastDone(a)
        PROVE  log'[b][i].seq + 1 < published'[c]
    <2>1. c # a
      BY <1>0, <1>4 DEF BroadcastDone, AfterBroadcast, Goto, Publishing,
                        TypeInv, TypeOK
    <2>2. /\ log' = log /\ pc'[c] = pc[c] /\ published' = published
          /\ seen'[c] = seen[c] /\ cur' = cur
      BY <1>0, <1>4, <2>1 DEF BroadcastDone, Goto, mailboxes, TypeInv, TypeOK
    <2> QED
      BY <1>0, <2>2 DEF Frontier
  <1>5. CASE /\ UNCHANGED <<log, seen, cur, missed, published, frame>>
             /\ pc[c] \in Publishing \/ pc'[c] \in Publishing => pc'[c] = pc[c]
    BY <1>0, <1>5 DEF Frontier
  <1> QED
    BY <1>0, <1>1, <1>2, <1>3, <1>4, <1>5, BroadcastSteps

\* A peer that was visited keeps the frame, or the record of the failure.
LEMMA VisitedNext == OrderInv /\ [Next]_vars => Visited'
  <1> SUFFICES ASSUME OrderInv, [Next]_vars,
                      NEW c \in Actors, NEW b \in Actors,
                      pc'[c] \in Publishing, b \in seen'[c] \ {c}
               PROVE  \/ b = cur'[c] \/ b \in missed'[c]
                      \/ \E i \in DOMAIN log'[b] : log'[b][i] = frame'[c]
    BY DEF Visited
  <1> DEFINE Goal == \/ b = cur'[c] \/ b \in missed'[c]
                     \/ \E i \in DOMAIN log'[b] : log'[b][i] = frame'[c]
  <1>0. TypeInv /\ Visited
    BY DEF OrderInv, EchoInv, RegistryInv
  <1>1. ASSUME NEW a \in Actors, NEW d \in Actors, IterNext(a, d) PROVE Goal
    <2>1. /\ log' = log /\ pc' = pc /\ frame' = frame /\ missed' = missed
      BY <1>1 DEF IterNext, mailboxes
    <2>2. CASE c = a
      <3>1. cur[a] = None
        BY <1>1 DEF IterNext
      <3>2. b \in seen[a] \/ b = cur'[a]
        BY <1>0, <1>1, <2>2 DEF IterNext, IsOrigin, TypeInv, TypeOK
      <3> QED
        BY <1>0, <2>1, <2>2, <3>1, <3>2, HubAssumption DEF Visited
    <2>3. CASE c # a
      <3>1. seen'[c] = seen[c] /\ cur'[c] = cur[c]
        BY <1>0, <1>1, <2>3 DEF IterNext, TypeInv, TypeOK
      <3> QED
        BY <1>0, <2>1, <3>1 DEF Visited
    <2> QED
      BY <2>2, <2>3
  <1>2. ASSUME NEW a \in Actors, TrySend(a) PROVE Goal
    <2>1. /\ pc' = pc /\ frame' = frame /\ seen' = seen
          /\ cur' = [cur EXCEPT ![a] = None]
          /\ log' # log \/ missed' = [missed EXCEPT ![a] = @ \cup {cur[a]}]
          /\ missed' = missed \/ missed' = [missed EXCEPT ![a] = @ \cup {cur[a]}]
      <3>1. ASSUME log' = [log EXCEPT ![cur[a]] = Append(@, frame[a])]
            PROVE  log' # log
        <4>1. cur[a] \in Actors /\ log[cur[a]] \in Seq(Frames)
              /\ frame[a] \in Frames
          BY <1>0, <1>2 DEF TrySend, TypeInv, TypeOK, FrameInHand
        <4>2. log'[cur[a]] = Append(log[cur[a]], frame[a])
          BY <1>0, <3>1, <4>1 DEF TypeInv, TypeOK
        <4>3. Len(log'[cur[a]]) = Len(log[cur[a]]) + 1 /\ Len(log[cur[a]]) \in Nat
          BY <4>1, <4>2
        <4> QED
          BY <4>3
      <3> QED
        BY <1>2, <3>1 DEF TrySend
    <2>2. ASSUME NEW i \in DOMAIN log[b], log[b][i] = frame[c]
          PROVE  i \in DOMAIN log'[b] /\ log'[b][i] = frame'[c]
      <3>1. CASE log' = log
        BY <2>1, <2>2, <3>1
      <3>2. CASE log' # log
        BY <1>0, <1>2, <2>1, <2>2, <3>2, LogGrows
      <3> QED
        BY <3>1, <3>2
    <2>3. missed[c] \subseteq missed'[c]
      <3>1. CASE missed' = missed
        BY <3>1
      <3>2. CASE missed' = [missed EXCEPT ![a] = @ \cup {cur[a]}]
        BY <1>0, <3>2 DEF TypeInv, TypeOK
      <3> QED
        BY <2>1, <3>1, <3>2
    <2>4. \/ b = cur[c] \/ b \in missed[c]
          \/ \E i \in DOMAIN log[b] : log[b][i] = frame[c]
      BY <1>0, <2>1 DEF Visited
    <2>5. CASE b = cur[c] /\ c = a
      <3>1. CASE log' # log
        BY <1>0, <1>2, <2>1, <2>5, <3>1, LogGrows
      <3>2. CASE log' = log
        BY <1>0, <2>1, <2>5, <3>2 DEF TypeInv, TypeOK
      <3> QED
        BY <3>1, <3>2
    <2>6. CASE b = cur[c] /\ c # a
      BY <1>0, <2>1, <2>6 DEF TypeInv, TypeOK
    <2> QED
      BY <2>2, <2>3, <2>4, <2>5, <2>6
  <1>3. ASSUME NEW a \in Actors, Join(a) \/ Send(a) \/ Depart(a) PROVE Goal
    <2>1. c # a
      BY <1>0, <1>3, StartParts
    <2> QED
      BY <1>0, <1>3, <2>1, StartParts DEF Visited
  <1>4. ASSUME NEW a \in Actors, BroadcastDone(a) PROVE Goal
    <2>1. c # a
      BY <1>0, <1>4 DEF BroadcastDone, AfterBroadcast, Goto, Publishing,
                        TypeInv, TypeOK
    <2>2. /\ log' = log /\ pc'[c] = pc[c] /\ frame' = frame
          /\ seen'[c] = seen[c] /\ cur' = cur /\ missed'[c] = missed[c]
      BY <1>0, <1>4, <2>1 DEF BroadcastDone, Goto, mailboxes, TypeInv, TypeOK
    <2> QED
      BY <1>0, <2>2 DEF Visited
  <1>5. CASE /\ UNCHANGED <<log, seen, cur, missed, published, frame>>
             /\ pc[c] \in Publishing \/ pc'[c] \in Publishing => pc'[c] = pc[c]
    BY <1>0, <1>5 DEF Visited
  <1> QED
    BY <1>0, <1>1, <1>2, <1>3, <1>4, <1>5, BroadcastSteps

\* Nobody who has given a name up publishes under it.
LEMMA InterleaveNext == OrderInv /\ [Next]_vars => HoldersDoNotInterleave'
  <1> SUFFICES ASSUME OrderInv, [Next]_vars,
                      NEW c \in Actors, NEW i \in DOMAIN log'[c],
                      NEW j \in DOMAIN log'[c], NEW k \in DOMAIN log'[c],
                      i < j, j < k, log'[c][i].from # log'[c][j].from,
                      name'[log'[c][i].from] = name'[log'[c][j].from]
               PROVE  log'[c][k].from # log'[c][i].from
    BY DEF HoldersDoNotInterleave
  <1>0. /\ TypeInv /\ HoldersGone /\ LogIsOfPeers /\ HoldersDoNotInterleave
    BY DEF OrderInv, EchoInv, RegistryInv
  <1>1. ASSUME NEW x \in DOMAIN log[c]
        PROVE  name'[log[c][x].from] = name[log[c][x].from]
    BY <1>0, FrameParts, NamesSettle DEF LogIsOfPeers
  <1>2. CASE log' = log
    BY <1>0, <1>1, <1>2 DEF HoldersDoNotInterleave
  <1>3. CASE log' # log
    <2>1. PICK a \in Actors : TrySend(a)
      BY <1>0, <1>3, LogSteps
    <2>2. /\ \A x \in DOMAIN log[c] :
               log'[c][x] = log[c][x] /\ x \in Nat /\ x <= Len(log[c])
          /\ \A x \in DOMAIN log'[c] : x \in DOMAIN log[c] \/
               (c = cur[a] /\ x = Len(log[c]) + 1 /\ log'[c][x] = frame[a])
          /\ Len(log[c]) \in Nat /\ frame[a].from = a
      BY <1>0, <1>3, <2>1, LogGrows, FrameParts
    <2>3. i \in DOMAIN log[c] /\ j \in DOMAIN log[c]
      BY <2>2
    <2>4. /\ log'[c][i] = log[c][i] /\ log'[c][j] = log[c][j]
          /\ name[log[c][i].from] = name[log[c][j].from]
      BY <1>1, <2>2, <2>3
    <2>5. CASE k \in DOMAIN log[c]
      BY <1>0, <2>2, <2>3, <2>4, <2>5 DEF HoldersDoNotInterleave
    <2>6. CASE k \notin DOMAIN log[c]
      <3>1. log'[c][k].from = a /\ pc[a] \in Claimed
        BY <2>1, <2>2, <2>6 DEF TrySend, Publishing, Claimed
      <3>2. pc[log[c][i].from] \notin Claimed
        BY <1>0, <2>3, <2>4 DEF HoldersGone
      <3> QED
        BY <2>4, <3>1, <3>2
    <2> QED
      BY <2>5, <2>6
  <1> QED
    BY <1>2, <1>3

\* The invariant of broadcasts holds initially ...
LEMMA OrderInit == Init => OrderInv
  <1> SUFFICES ASSUME Init PROVE OrderInv
    OBVIOUS
  <1>1. EchoInv
    BY TypeInit
    DEF Init, EchoInv, HandleIsPeer, LogIsOfPeers, RegistryInv,
        RegistryMatchesClaims, Claimed
  <1>2. Stage
    BY DEF Init, Stage, Early, Leaving, Publishing
  <1>3. LogFrames /\ Ordered /\ HoldersGone /\ HoldersDoNotInterleave
    BY DEF Init, LogFrames, Ordered, HoldersGone, HoldersDoNotInterleave
  <1>4. HandleYielded /\ Frontier /\ Visited
    BY DEF Init, HandleYielded, Frontier, Visited, Publishing
  <1> QED
    BY <1>1, <1>2, <1>3, <1>4 DEF OrderInv

\* ... and every step keeps it.
LEMMA OrderNext == OrderInv /\ [Next]_vars => OrderInv'
  <1> SUFFICES ASSUME OrderInv, [Next]_vars PROVE OrderInv'
    OBVIOUS
  <1>1. EchoInv' /\ Stage'
    BY EchoNext, StageNext DEF OrderInv, EchoInv, RegistryInv
  <1>2. LogFrames' /\ HandleYielded' /\ Frontier' /\ Visited'
    BY LogFramesNext, HandleYieldedNext, FrontierNext, VisitedNext
  <1>3. Ordered' /\ HoldersGone' /\ HoldersDoNotInterleave'
    BY OrderedNext, HoldersNext, InterleaveNext
  <1> QED
    BY <1>1, <1>2, <1>3 DEF OrderInv

\* Each mailbox takes one publisher's frames in the order of publication and
\* none twice, Joined first and Departed last, for any number of concurrent
\* broadcasts and whatever try_send drops.
THEOREM SenderOrder == Spec => []PerSenderOrder
  <1>1. ASSUME OrderInv PROVE PerSenderOrder
    <2> SUFFICES ASSUME NEW b \in Actors, NEW i \in DOMAIN log[b],
                        NEW j \in DOMAIN log[b], i < j,
                        log[b][i].from = log[b][j].from
                 PROVE  /\ log[b][i].seq < log[b][j].seq
                        /\ log[b][i].kind # "Departed"
                        /\ log[b][j].kind # "Joined"
      BY DEF PerSenderOrder
    <2>1. log[b][i].seq < log[b][j].seq
      BY <1>1 DEF OrderInv, Ordered
    <2>2. log[b][i].seq \in Nat /\ log[b][j].seq \in Nat
          /\ published[log[b][j].from] \in Nat
      BY <1>1, FrameParts DEF OrderInv, EchoInv, RegistryInv
    <2>3. /\ log[b][j].seq < published[log[b][j].from]
          /\ log[b][j].kind = "Joined" => log[b][j].seq = 0
          /\ log[b][i].kind = "Departed" =>
               log[b][i].seq + 1 = published[log[b][i].from]
      BY <1>1 DEF OrderInv, LogFrames
    <2> QED
      BY <2>1, <2>2, <2>3
  <1> QED
    BY OrderInit, OrderNext, <1>1, PTL DEF Spec

\* No recipient sees a previous holder of a username after the next one, for
\* any sequence of holders.
THEOREM HoldersInTurn == Spec => []HoldersDoNotInterleave
  <1>1. OrderInv => HoldersDoNotInterleave
    BY DEF OrderInv
  <1> QED
    BY OrderInit, OrderNext, <1>1, PTL DEF Spec

\* When broadcast returns, every other actor registered all along has the
\* frame or refused it itself.
THEOREM FanOut == Spec => FanOutComplete
  <1> DEFINE Reached(a) ==
        \A b \in (due[a] \cap Registered) \ {a} :
           \/ b \in missed[a]
           \/ \E i \in DOMAIN log[b] : log[b][i] = frame[a]
  <1>1. ASSUME OrderInv, [Next]_vars, NEW a \in Actors,
               pc[a] \in Publishing, pc'[a] # pc[a]
        PROVE  Reached(a)
    <2>0. TypeInv /\ Visited
      BY <1>1 DEF OrderInv, EchoInv, RegistryInv
    <2>1. ASSUME NEW c \in Actors, NEW b \in Actors, IterNext(c, b)
          PROVE  FALSE
      BY <1>1, <2>1 DEF IterNext
    <2>2. ASSUME NEW c \in Actors, TrySend(c) PROVE FALSE
      BY <1>1, <2>2 DEF TrySend
    <2>3. ASSUME NEW c \in Actors, Join(c) \/ Send(c) \/ Depart(c)
          PROVE  FALSE
      BY <1>1, <2>0, <2>3, StartParts
    <2>4. ASSUME NEW c \in Actors, BroadcastDone(c) PROVE Reached(a)
      <3>1. c = a
        BY <1>1, <2>0, <2>4 DEF BroadcastDone, Goto, TypeInv, TypeOK
      <3>2. cur[a] = None /\ due[a] \cap Registered \subseteq seen[a]
        BY <2>4, <3>1 DEF BroadcastDone, Exhausted
      <3>3. Registered \subseteq Actors
        BY DEF Registered
      <3>4. ASSUME NEW b \in (due[a] \cap Registered) \ {a}
            PROVE  \/ b \in missed[a]
                   \/ \E i \in DOMAIN log[b] : log[b][i] = frame[a]
        <4>1. b \in Actors /\ b # None /\ b \in seen[a] \ {a}
          BY <3>2, <3>3, HubAssumption
        <4> QED
          BY <1>1, <2>0, <3>2, <4>1 DEF Visited
      <3> QED
        BY <3>4
    <2> QED
      BY <1>1, <2>0, <2>1, <2>2, <2>3, <2>4, BroadcastSteps
  <1>2. ASSUME OrderInv, [Next]_vars
        PROVE  [\A a \in Actors :
                  (pc[a] \in Publishing /\ pc'[a] # pc[a]) => Reached(a)]_vars
    BY <1>1, <1>2
  <1>3. FanOutComplete <=>
          [][\A a \in Actors :
               (pc[a] \in Publishing /\ pc'[a] # pc[a]) => Reached(a)]_vars
    BY DEF FanOutComplete
  <1> QED
    BY OrderInit, OrderNext, <1>2, <1>3, PTL DEF Spec

-----------------------------------------------------------------------------
(* Welcome.occupancy.                                                      *)

Between == {b \in Actors : pc[b] \in {"inserted", "removed"}}

\* The entries of the registry are the claims.
LEMMA RegisteredAreClaimed ==
  ASSUME RegistryInv
  PROVE  Registered = {a \in Actors : pc[a] \in Claimed}
  BY HubAssumption DEF RegistryInv, RegistryMatchesClaims, Registered

\* Only the load of the counter leads to the Welcome.
LEMMA WelcomeStep ==
  ASSUME TypeInv, [Next]_vars, NEW a \in Actors,
         pc[a] = "counted", pc'[a] = "welcoming"
  PROVE  LoadOccupancy(a)
  <1>0. pc \in [Actors -> Phases]
    BY DEF TypeInv, TypeOK
  <1> USE <1>0 DEF Goto
  <1>1. ASSUME NEW c \in Actors, NEW n \in Names, TryRegister(c, n)
        PROVE  FALSE
    BY <1>1 DEF TryRegister
  <1>2. ASSUME NEW c \in Actors,
               CountIn(c) \/ HandshakeFails(c) \/ Recv(c) \/ Unwind(c)
        PROVE  FALSE
    BY <1>2 DEF CountIn, HandshakeFails, Recv, Unwind
  <1>3. ASSUME NEW c \in Actors, Join(c) \/ Send(c) \/ Depart(c)
        PROVE  FALSE
    BY <1>3 DEF Join, Send, Depart, StartBroadcast
  <1>4. ASSUME NEW c \in Actors, NEW b \in Actors, IterNext(c, b)
        PROVE  FALSE
    BY <1>4 DEF IterNext
  <1>5. ASSUME NEW c \in Actors, TrySend(c) \/ BroadcastDone(c) PROVE FALSE
    BY <1>5 DEF TrySend, BroadcastDone, AfterBroadcast
  <1>6. ASSUME NEW c \in Actors, Remove(c) \/ CountOut(c) \/ DropMailbox(c)
        PROVE  FALSE
    BY <1>6 DEF Remove, AfterRemove, CountOut, DropMailbox
  <1>7. ASSUME UNCHANGED vars PROVE FALSE
    BY <1>7 DEF vars
  <1>8. ASSUME NEW c \in Actors, LoadOccupancy(c) PROVE c = a
    BY <1>8 DEF LoadOccupancy
  <1> HIDE <1>0 DEF Goto
  <1> QED
    BY <1>1, <1>2, <1>3, <1>4, <1>5, <1>6, <1>7, <1>8
    DEF Next, HubStep, ClientStep, Terminated

\* The number in the Welcome counts the client itself and is off by at most
\* the sessions between their map update and their counter update.
THEOREM WelcomeCounts == Spec => WelcomeNearOccupancy
  <1> DEFINE room == Cardinality(Registered)
             between == Cardinality(Between)
  <1>1. ASSUME OccupancyInv, [Next]_vars, NEW a \in Actors,
               pc[a] = "counted", pc'[a] = "welcoming"
        PROVE  /\ welcome'[a] >= 1
               /\ welcome'[a] \in room - between .. room + between
    <2>1. RegistryInv /\ TypeInv /\ occupancy = Cardinality(CountedActors)
      BY <1>1 DEF OccupancyInv, RegistryInv, OccupancyCountsClaims,
                  CountedActors
    <2>2. welcome'[a] = occupancy
      BY <1>1, <2>1, WelcomeStep DEF LoadOccupancy, TypeInv, TypeOK
    <2>3. /\ IsFiniteSet(CountedActors) /\ IsFiniteSet(Registered)
          /\ IsFiniteSet(Between)
      BY HubAssumption, FS_Subset DEF CountedActors, Registered, Between
    <2>4. /\ Registered \subseteq CountedActors \cup Between
          /\ CountedActors \subseteq Registered \cup Between
      BY <2>1, RegisteredAreClaimed DEF CountedActors, Between, Counted, Claimed
    <2>5. /\ Cardinality(CountedActors) \in Nat /\ room \in Nat
          /\ between \in Nat
      BY <2>3, FS_CardinalityType
    <2>6. room <= Cardinality(CountedActors) + between
      <3>1. /\ IsFiniteSet(CountedActors \cup Between)
            /\ Cardinality(CountedActors \cup Between)
                 <= Cardinality(CountedActors) + between
        <4>1. Cardinality(CountedActors \cap Between) \in Nat
          BY <2>3, FS_Subset, FS_CardinalityType
        <4>2. /\ IsFiniteSet(CountedActors \cup Between)
              /\ Cardinality(CountedActors \cup Between) =
                   Cardinality(CountedActors) + between
                     - Cardinality(CountedActors \cap Between)
          BY <2>3, FS_Union
        <4> QED
          BY <2>5, <4>1, <4>2
      <3>2. room <= Cardinality(CountedActors \cup Between)
        BY <2>4, <3>1, FS_Subset
      <3>3. Cardinality(CountedActors \cup Between) \in Nat
        BY <3>1, FS_CardinalityType
      <3> QED
        BY <2>5, <3>1, <3>2, <3>3
    <2>7. Cardinality(CountedActors) <= room + between
      <3>1. /\ IsFiniteSet(Registered \cup Between)
            /\ Cardinality(Registered \cup Between) <= room + between
        <4>1. Cardinality(Registered \cap Between) \in Nat
          BY <2>3, FS_Subset, FS_CardinalityType
        <4>2. /\ IsFiniteSet(Registered \cup Between)
              /\ Cardinality(Registered \cup Between) =
                   Cardinality(Registered) + between
                     - Cardinality(Registered \cap Between)
          BY <2>3, FS_Union
        <4> QED
          BY <2>5, <4>1, <4>2
      <3>2. Cardinality(CountedActors) <= Cardinality(Registered \cup Between)
        BY <2>4, <3>1, FS_Subset
      <3>3. Cardinality(Registered \cup Between) \in Nat
        BY <3>1, FS_CardinalityType
      <3> QED
        BY <2>5, <3>1, <3>2, <3>3
    <2>8. Cardinality(CountedActors) # 0
      <3>1. a \in CountedActors
        BY <1>1 DEF CountedActors, Counted, Claimed
      <3> QED
        BY <2>3, <3>1, FS_EmptySet
    <2> HIDE DEF room, between
    <2> QED
      BY <2>1, <2>2, <2>5, <2>6, <2>7, <2>8
  <1>2. ASSUME OccupancyInv, [Next]_vars
        PROVE  [\A a \in Actors : (pc[a] = "counted" /\ pc'[a] = "welcoming") =>
                  /\ welcome'[a] >= 1
                  /\ welcome'[a] \in room - between .. room + between]_vars
    BY <1>1, <1>2
  <1>3. WelcomeNearOccupancy <=>
          [][\A a \in Actors : (pc[a] = "counted" /\ pc'[a] = "welcoming") =>
                  /\ welcome'[a] >= 1
                  /\ welcome'[a] \in room - between .. room + between]_vars
    BY DEF WelcomeNearOccupancy, Between
  <1>4. Init => OccupancyInv
    BY OccupancyInit
  <1> QED
    BY OccupancyNext, <1>2, <1>3, <1>4, PTL DEF Spec

-----------------------------------------------------------------------------
(* The refinement of Room.                                                 *)

Status == [a \in Actors |-> InRoom(a)]

\* Every step of the Hub is one step of the Room, or none.
LEMMA RoomStep ==
  ASSUME OrderInv, [Next]_vars
  PROVE  [R!Next]_(R!vars)
  <1>0. /\ TypeInv /\ RegistryMatchesClaims /\ Stage /\ Frontier
        /\ HandleYielded /\ HandleIsPeer
    BY DEF OrderInv, EchoInv, RegistryInv
  <1>1. /\ pc \in [Actors -> Phases] /\ name \in [Actors -> Names \cup {None}]
        /\ published \in [Actors -> Nat]
        /\ frame \in [Actors -> Frames \cup {None}]
        /\ log \in [Actors -> Seq(Frames)]
        /\ cur \in [Actors -> Actors \cup {None}]
    BY <1>0 DEF TypeInv, TypeOK
  <1>2. ASSUME Status' = Status, UNCHANGED <<name, published, frame, log>>
        PROVE  UNCHANGED R!vars
    BY <1>2 DEF R!vars, Status
  <1>3. ASSUME NEW a \in Actors, NEW n \in Names, TryRegister(a, n)
        PROVE  [R!Next]_(R!vars)
    <2>1. UNCHANGED <<published, frame, log>> /\ pc[a] = "handshake"
          /\ name[a] = None
      BY <1>0, <1>3 DEF TryRegister, Stage
    <2>2. CASE pc' = [pc EXCEPT ![a] = "done"] /\ UNCHANGED name
      <3>1. \A c \in Actors : InRoom(c)' = InRoom(c)
        BY <1>1, <2>1, <2>2 DEF InRoom, Claimed
      <3>2. Status' = Status
        BY <3>1 DEF Status
      <3> QED
        BY <1>2, <2>1, <2>2, <3>2
    <2>3. CASE /\ IsFree(n) /\ name' = [name EXCEPT ![a] = n]
               /\ pc' = [pc EXCEPT ![a] = "inserted"]
      <3>1. InRoom(a) = "out"
        BY <2>1 DEF InRoom, Claimed
      <3>2. \A b \in Actors : InRoom(b) = "in" => name[b] # n
        BY <1>0, <2>3, HubAssumption
        DEF InRoom, IsFree, RegistryMatchesClaims
      <3>3. \A c \in Actors :
              InRoom(c)' = IF c = a THEN "in" ELSE InRoom(c)
        BY <1>1, <2>3 DEF InRoom, Claimed
      <3>4. Status' = [Status EXCEPT ![a] = "in"]
        BY <3>3 DEF Status
      <3>5. R!Enter(a, n)
        BY <2>1, <2>3, <3>1, <3>2, <3>4 DEF R!Enter, Status
      <3> QED
        BY <3>5 DEF R!Next
    <2> QED
      BY <1>3, <2>2, <2>3 DEF TryRegister, Goto
  <1>4. ASSUME NEW a \in Actors, Remove(a) PROVE [R!Next]_(R!vars)
    <2>1. /\ UNCHANGED <<name, published, frame, log>>
          /\ pc[a] \in Claimed /\ pc'[a] \notin Claimed
          /\ \A c \in Actors : c # a => pc'[c] = pc[c]
      BY <1>1, <1>4 DEF Remove, AfterRemove, Goto, Claimed, mailboxes
    <2>2. name[a] # None
      BY <1>0, <2>1, HubAssumption DEF RegistryMatchesClaims
    <2>3. \A c \in Actors : InRoom(c)' = IF c = a THEN "gone" ELSE InRoom(c)
      BY <2>1, <2>2 DEF InRoom
    <2>4. Status' = [Status EXCEPT ![a] = "gone"]
      BY <2>3 DEF Status
    <2>5. R!Exit(a)
      BY <2>1, <2>4 DEF R!Exit, Status, InRoom
    <2> QED
      BY <2>5 DEF R!Next
  <1>5. ASSUME UNCHANGED <<sessions, name>>,
               \A c \in Actors : pc'[c] \in Claimed <=> pc[c] \in Claimed
        PROVE  [R!Next]_(R!vars)
    <2>1. \A c \in Actors : InRoom(c)' = InRoom(c)
      BY <1>5 DEF InRoom
    <2>2. Status' = Status
      BY <2>1 DEF Status
    <2>3. ASSUME NEW a \in Actors, NEW b \in Actors, IterNext(a, b)
          PROVE  [R!Next]_(R!vars)
      <3>1. UNCHANGED <<name, published, frame, log>>
        BY <2>3 DEF IterNext, mailboxes
      <3> QED
        BY <1>2, <2>2, <3>1
    <2>4. ASSUME NEW a \in Actors, BroadcastDone(a)
          PROVE  [R!Next]_(R!vars)
      <3>1. UNCHANGED <<name, published, frame, log>>
        BY <2>4 DEF BroadcastDone, mailboxes
      <3> QED
        BY <1>2, <2>2, <3>1
    <2>5. ASSUME NEW a \in Actors, Join(a) \/ Send(a) \/ Depart(a)
          PROVE  [R!Next]_(R!vars)
      <3>1. PICK kind \in {"Joined", "Message", "Departed"}, phase \in Publishing :
              /\ StartBroadcast(a, kind, phase)
              /\ kind = "Joined" => pc[a] = "welcoming"
              /\ kind # "Joined" => pc[a] = "serving"
        BY <2>5 DEF Join, Send, Depart, Publishing
      <3>2. InRoom(a) = "in"
        BY <3>1 DEF InRoom, Claimed
      <3>3. IF frame[a] = None THEN kind = "Joined"
            ELSE kind # "Joined" /\ frame[a].kind # "Departed"
        BY <1>0, <3>1 DEF Stage, Early, Leaving, Publishing
      <3>4. /\ UNCHANGED <<name, log>>
            /\ published' = [published EXCEPT ![a] = @ + 1]
            /\ frame' = [frame EXCEPT ![a] =
                          [from |-> a, kind |-> kind, seq |-> published[a]]]
        BY <3>1 DEF StartBroadcast, mailboxes
      <3>5. R!Publish(a, kind)
        BY <2>2, <3>2, <3>3, <3>4 DEF R!Publish, Status
      <3> QED
        BY <3>5 DEF R!Next
    <2>6. ASSUME NEW a \in Actors, TrySend(a) PROVE [R!Next]_(R!vars)
      <3>1. UNCHANGED <<name, published, frame>>
        BY <2>6 DEF TrySend
      <3>2. CASE log' = log
        BY <1>2, <2>2, <3>1, <3>2
      <3>3. CASE log' = [log EXCEPT ![cur[a]] = Append(@, frame[a])]
        <4> DEFINE b == cur[a]
        <4>1. pc[a] \in Publishing /\ b \in Actors /\ b # None
          BY <1>1, <2>6 DEF TrySend
        <4>2. InRoom(a) = "in" /\ frame[a] # None
          BY <1>0, <4>1 DEF InRoom, Claimed, Publishing, Stage
        <4>3. name[b] # None /\ name[b] # name[a]
          BY <1>0, <4>1 DEF HandleYielded, HandleIsPeer
        <4>4. InRoom(b) # "out"
          BY <4>3 DEF InRoom
        <4>5. ASSUME NEW i \in DOMAIN log[b] PROVE log[b][i] # frame[a]
          <5>1. log[b][i].from = a => log[b][i].seq + 1 < published[a]
            BY <1>0, <4>1 DEF Frontier
          <5>2. frame[a].from = a /\ frame[a].seq + 1 = published[a]
            BY <1>0, <4>2 DEF Stage
          <5>3. published[a] \in Nat
            BY <1>1
          <5> QED
            BY <5>1, <5>2, <5>3
        <4>6. R!Deliver(a, b)
          BY <2>2, <3>1, <3>3, <4>1, <4>2, <4>3, <4>4, <4>5
          DEF R!Deliver, Status
        <4> QED
          BY <4>1, <4>6 DEF R!Next
      <3> QED
        BY <2>6, <3>2, <3>3 DEF TrySend
    <2>7. CASE UNCHANGED <<log, published, frame>>
      BY <1>2, <1>5, <2>2, <2>7
    <2> QED
      BY <1>0, <2>3, <2>4, <2>5, <2>6, <2>7, BroadcastSteps
  <1> QED
    BY <1>0, <1>3, <1>4, <1>5, RegistrySteps

\* The lock-free Hub implements the sequential Room, for any number of
\* actors and names: entering, publishing, each delivery and leaving are
\* atomic steps of an abstract room, and every other step is invisible.
THEOREM HubImplementsRoom == Spec => ImplementsRoom
  <1>1. ASSUME Init PROVE R!Init
    <2>1. \A a \in Actors : InRoom(a) = "out"
      BY <1>1 DEF Init, InRoom, Claimed
    <2> QED
      BY <1>1, <2>1 DEF Init, R!Init
  <1> QED
    BY OrderInit, OrderNext, RoomStep, <1>1, PTL
    DEF Spec, ImplementsRoom, R!Spec

=============================================================================
