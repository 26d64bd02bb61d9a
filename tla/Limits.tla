------------------------------- MODULE Limits -------------------------------
(***************************************************************************)
(* The size limits of the protocol (protocol/src/lib.rs) and the places    *)
(* that enforce them: a username and then message bodies travel from a     *)
(* client through encode, decode and the validators (server session.rs)    *)
(* to the other clients.  Only lengths matter; those of the encodings are  *)
(* postcard's (an enum tag, and strings preceded by a varint length).      *)
(***************************************************************************)
EXTENDS Integers

CONSTANTS
  MAX_FRAME_BYTES, MAX_BODY_BYTES, MAX_USERNAME_BYTES, MIN_USERNAME_BYTES,
  PROTOCOL_VERSION,
  NameLens,   \* lengths of the usernames tried
  BodyLens,   \* lengths of the bodies tried
  Versions    \* protocol versions of the clients

\* Bytes of a varint (of at most 21 bits), of a string of n bytes, and of
\* the longest answer: a reason, or the banner with a u32.
VarintLen(n) == IF n < 128 THEN 1 ELSE IF n < 16384 THEN 2 ELSE 3
StringLen(n) == VarintLen(n) + n
LongestReason == 96
AnswerLen == 1 + StringLen(LongestReason) + 5

\* Bytes of ClientFrame::Hello and Send, and of ServerFrame::Message.
HelloLen(name) == 2 + StringLen(name)
SendLen(body) == 1 + StringLen(body)
MessageLen(name, body) == 1 + StringLen(name) + StringLen(body)

\* "Sized to comfortably accommodate the worst legal frame" (lib.rs).
ASSUME LimitsAssumption ==
  /\ MAX_FRAME_BYTES \in Nat /\ MAX_BODY_BYTES \in Nat
  /\ MAX_USERNAME_BYTES \in Nat /\ MIN_USERNAME_BYTES \in Nat
  /\ MessageLen(MAX_USERNAME_BYTES, MAX_BODY_BYTES) <= MAX_FRAME_BYTES
  /\ AnswerLen <= MAX_FRAME_BYTES
  /\ NameLens \subseteq Nat /\ BodyLens \subseteq Nat

VARIABLES
  client,   \* "repl": this repository's client; "other": any other one
  version,  \* the version its Hello carries
  name,     \* the length of its username
  plain,    \* "yes" if the name is all ASCII alphanumerics, '_' and '-'
  body,     \* the length of the last body
  pc,       \* how far the current input has come
  told      \* the server's last answer to this client

who == <<client, version, name, plain>>
vars == <<who, body, pc, told>>

\* "start"; "hello" and "sent": a frame on its way to the server; "room";
\* "broadcast": a Message on its way to the others; "rejected"; and three
\* ways to lose a connection for a frame no one would carry: "client_exit",
\* "session_end", "peer_end".
Places == {"start", "hello", "room", "sent", "broadcast", "rejected",
           "client_exit", "session_end", "peer_end"}

Answers == {"none", "Welcome", "version", "UsernameEmpty", "UsernameTooLong",
            "UsernameInvalidByte", "BodyEmpty", "BodyTooLong"}

TypeOK ==
  /\ client \in {"repl", "other"} /\ version \in Versions
  /\ name \in NameLens /\ plain \in {"yes", "no"}
  /\ body \in BodyLens \cup {0}
  /\ pc \in Places /\ told \in Answers

Init ==
  /\ client \in {"repl", "other"}
  /\ version \in IF client = "repl" THEN {PROTOCOL_VERSION} ELSE Versions
  /\ name \in NameLens /\ plain \in {"yes", "no"}
  /\ body = 0 /\ pc = "start" /\ told = "none"

-----------------------------------------------------------------------------
\* encode, encode_frame and decode all refuse a longer payload.
Fits(len) == len <= MAX_FRAME_BYTES

\* validate_username_bytes, through UserName::new.
validate_username_bytes ==
  IF name < MIN_USERNAME_BYTES THEN "UsernameEmpty"
  ELSE IF name > MAX_USERNAME_BYTES THEN "UsernameTooLong"
  ELSE IF plain = "no" THEN "UsernameInvalidByte"
  ELSE "Ok"

validate_body_bytes ==
  IF body = 0 THEN "BodyEmpty"
  ELSE IF body > MAX_BODY_BYTES THEN "BodyTooLong"
  ELSE "Ok"

\* A client hands a frame of that many bytes to its socket: ours encodes it
\* with the same limit and exits when that fails.
Transmit(len, place) ==
  pc' = IF client = "repl" /\ ~Fits(len) THEN "client_exit" ELSE place

\* The client's main: Hello, with --username as given.
SendHello ==
  /\ pc = "start"
  /\ Transmit(HelloLen(name), "hello")
  /\ UNCHANGED <<who, body, told>>

\* The REPL sends what follows `send`, if anything does.
SendBody(n) ==
  /\ pc = "room" /\ ~(client = "repl" /\ n = 0)
  /\ body' = n /\ Transmit(SendLen(n), "sent")
  /\ UNCHANGED <<who, told>>

\* The handshake: decode, the version, the name.
Handshake ==
  /\ pc = "hello"
  /\ \/ /\ ~Fits(HelloLen(name))
        /\ pc' = "session_end" /\ UNCHANGED told
     \/ /\ Fits(HelloLen(name)) /\ version # PROTOCOL_VERSION
        /\ told' = "version" /\ pc' = "rejected"
     \/ /\ Fits(HelloLen(name)) /\ version = PROTOCOL_VERSION
        /\ validate_username_bytes # "Ok"
        /\ told' = validate_username_bytes /\ pc' = "rejected"
     \/ /\ Fits(HelloLen(name)) /\ version = PROTOCOL_VERSION
        /\ validate_username_bytes = "Ok"
        /\ told' = "Welcome" /\ pc' = "room"
  /\ UNCHANGED <<who, body>>

\* The session: decode, the body; `continue` after an Error frame, and the
\* session ends if decode or encode_frame fails.
ServeSend ==
  /\ pc = "sent"
  /\ \/ ~Fits(SendLen(body)) /\ pc' = "session_end" /\ UNCHANGED told
     \/ /\ Fits(SendLen(body)) /\ validate_body_bytes # "Ok"
        /\ told' = validate_body_bytes /\ pc' = "room"
     \/ /\ Fits(SendLen(body)) /\ validate_body_bytes = "Ok"
        /\ pc' = IF Fits(MessageLen(name, body))
                   THEN "broadcast" ELSE "session_end"
        /\ UNCHANGED told
  /\ UNCHANGED <<who, body>>

\* A bug: the client's decoder has the limit of the body.
DeliverTight ==
  /\ pc = "broadcast"
  /\ pc' = IF MessageLen(name, body) <= MAX_BODY_BYTES
             THEN "room" ELSE "peer_end"
  /\ UNCHANGED <<who, body, told>>

\* Another client decodes the Message; its REPL ends if that fails.
Deliver ==
  /\ pc = "broadcast"
  /\ pc' = IF Fits(MessageLen(name, body)) THEN "room" ELSE "peer_end"
  /\ UNCHANGED <<who, body, told>>

Over ==
  /\ pc \in {"rejected", "client_exit", "session_end", "peer_end"}
  /\ UNCHANGED vars

Next ==
  \/ SendHello \/ Handshake \/ ServeSend \/ Deliver \/ Over
  \/ \E n \in BodyLens : SendBody(n)

Spec == Init /\ [][Next]_vars

-----------------------------------------------------------------------------
(* Properties.                                                             *)

\* Whatever the validators accept is carried all the way: a connection is
\* lost only over a Hello or a Send that is itself beyond the limit of the
\* frame, never because a name and a body, each legal, make a Message that
\* encode_frame or another client's decode refuses.
LostOnlyOversize ==
  /\ pc # "peer_end"
  /\ pc \in {"client_exit", "session_end"} =>
       ~Fits(HelloLen(name)) \/ ~Fits(SendLen(body))

\* "with a max-length username and max-length body [...] well under 5 KiB"
\* (lib.rs): no Message on its way to the room is longer.
MessagesUnder5KiB == pc = "broadcast" => MessageLen(name, body) < 5 * 1024

=============================================================================
