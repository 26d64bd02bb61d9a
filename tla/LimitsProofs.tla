---------------------------- MODULE LimitsProofs ----------------------------
(***************************************************************************)
(* Proofs about Limits, for every choice of the limits in which the worst  *)
(* legal Message fits into a frame, and for names and bodies of any length *)
(* (the validators bound them; nothing else does).                         *)
(***************************************************************************)
EXTENDS Limits, TLAPS

\* The encoded length of a Message grows with its name and its body.
LEMMA MessageMonotone ==
  ASSUME NEW u \in Nat, NEW U \in Nat, u <= U,
         NEW n \in Nat, NEW N \in Nat, n <= N
  PROVE  MessageLen(u, n) <= MessageLen(U, N)
BY DEF MessageLen, StringLen, VarintLen

\* The inductive invariant: past the handshake the name is legal, and a body
\* being broadcast is legal too.
Legal ==
  /\ pc \in {"room", "sent", "broadcast"} => name <= MAX_USERNAME_BYTES
  /\ pc = "broadcast" => body <= MAX_BODY_BYTES

IInv == name \in Nat /\ body \in Nat /\ Legal /\ LostOnlyOversize

\* A legal name and a legal body make a Message that encode_frame and the
\* other clients' decode accept (MAX_FRAME_BYTES).
LEMMA LegalMessageFits ==
  ASSUME name \in Nat, body \in Nat,
         name <= MAX_USERNAME_BYTES, body <= MAX_BODY_BYTES
  PROVE  Fits(MessageLen(name, body))
<1>1. MessageLen(name, body) <= MessageLen(MAX_USERNAME_BYTES, MAX_BODY_BYTES)
  BY MessageMonotone, LimitsAssumption
<1>2. /\ MessageLen(name, body) \in Int
      /\ MessageLen(MAX_USERNAME_BYTES, MAX_BODY_BYTES) \in Int
  BY LimitsAssumption DEF MessageLen, StringLen, VarintLen
<1> QED BY <1>1, <1>2, LimitsAssumption DEF Fits

\* Every step preserves the invariant: one case per action of the client, the
\* session and the other clients.
LEMMA IInvInductive == IInv /\ [Next]_vars => IInv'
<1> SUFFICES ASSUME IInv, [Next]_vars PROVE IInv'
  OBVIOUS
<1> USE DEF IInv, Legal, LostOnlyOversize, who
<1>1. CASE SendHello
  BY <1>1 DEF SendHello, Transmit
<1>2. CASE Handshake
  <2>1. name > MAX_USERNAME_BYTES => validate_username_bytes # "Ok"
    BY LimitsAssumption DEF validate_username_bytes
  <2>2. name' = name /\ body' = body
    BY <1>2 DEF Handshake
  <2>3. pc' = "session_end" => ~Fits(HelloLen(name))
    BY <1>2 DEF Handshake
  <2>4. pc' = "room" => name <= MAX_USERNAME_BYTES
    BY <1>2, <2>1, LimitsAssumption DEF Handshake
  <2>5. pc' \in {"session_end", "rejected", "room"}
    BY <1>2 DEF Handshake
  <2> QED BY <2>2, <2>3, <2>4, <2>5 DEF Fits, HelloLen
<1>3. CASE ServeSend
  <2>1. validate_body_bytes = "Ok" => body <= MAX_BODY_BYTES
    BY LimitsAssumption DEF validate_body_bytes
  <2>2. name' = name /\ body' = body /\ name <= MAX_USERNAME_BYTES
    BY <1>3 DEF ServeSend
  <2>3. validate_body_bytes = "Ok" => Fits(MessageLen(name, body))
    BY <2>1, <2>2, LegalMessageFits
  <2>4. pc' = "session_end" => ~Fits(SendLen(body))
    BY <1>3, <2>3 DEF ServeSend
  <2>5. pc' = "broadcast" => body <= MAX_BODY_BYTES
    BY <1>3, <2>1 DEF ServeSend
  <2>6. pc' \in {"session_end", "room", "broadcast"}
    BY <1>3 DEF ServeSend
  <2> QED BY <2>2, <2>4, <2>5, <2>6 DEF Fits, SendLen
<1>4. CASE Deliver
  <2>1. Fits(MessageLen(name, body))
    BY <1>4, LegalMessageFits DEF Deliver
  <2> QED BY <1>4, <2>1 DEF Deliver
<1>5. ASSUME NEW n \in BodyLens, SendBody(n) PROVE IInv'
  <2>1. n \in Nat
    BY LimitsAssumption
  <2> QED BY <1>5, <2>1 DEF SendBody, Transmit
<1>6. CASE Over
  BY <1>6 DEF Over, vars
<1>7. CASE UNCHANGED vars
  BY <1>7 DEF vars
<1> QED BY <1>1, <1>2, <1>3, <1>4, <1>5, <1>6, <1>7 DEF Next

\* Whatever the validators accept is carried (LostOnlyOversize).
THEOREM AcceptedIsCarried == Spec => []LostOnlyOversize
<1>1. Init => IInv
  BY LimitsAssumption DEF Init, IInv, Legal, LostOnlyOversize
<1>2. IInv => LostOnlyOversize
  BY DEF IInv
<1> QED BY <1>1, <1>2, IInvInductive, PTL DEF Spec

\* With the limits of protocol/src/lib.rs every Message is shorter than 5 KiB
\* (MessagesUnder5KiB), as the comment on MAX_FRAME_BYTES says.
THEOREM MessagesAreShort ==
  ASSUME MAX_USERNAME_BYTES = 32, MAX_BODY_BYTES = 4096
  PROVE  Spec => []MessagesUnder5KiB
<1>1. Init => IInv
  BY LimitsAssumption DEF Init, IInv, Legal, LostOnlyOversize
<1>2. IInv => MessagesUnder5KiB
  BY DEF IInv, Legal, MessagesUnder5KiB, MessageLen, StringLen, VarintLen
<1> QED BY <1>1, <1>2, IInvInductive, PTL DEF Spec

=============================================================================
