------------------------------- MODULE Codec --------------------------------
(***************************************************************************)
(* PostcardCodec (protocol/src/lib.rs) on one direction of a connection:   *)
(* frames are encoded as a big-endian u32 length and a payload, the kernel *)
(* hands the bytes over in pieces of any size, and FramedRead calls decode *)
(* until it wants more bytes.                                              *)
(*                                                                         *)
(* What postcard makes of a frame is the CONSTANT Payload; only its being  *)
(* uniquely decodable is used.                                             *)
(***************************************************************************)
EXTENDS Integers, Sequences, SequencesExt

CONSTANTS
  Frames,          \* frames the sender may send
  Payload,         \* postcard::to_allocvec: the bytes of each frame
  Foreign,         \* byte strings of a sender that is not this codec
  MAX_FRAME_BYTES,
  MaxSent          \* bound: frames one run sends

Byte == 0 .. 255

ASSUME CodecAssumption ==
  /\ MAX_FRAME_BYTES \in Nat /\ MaxSent \in Nat
  /\ MAX_FRAME_BYTES \div 2^24 \in Byte     \* it fits in a u32
  /\ Payload \in [Frames -> Seq(Byte)]
  /\ \A f, g \in Frames : IsPrefix(Payload[f], Payload[g]) => f = g
  /\ Foreign \subseteq Seq(Byte)

VARIABLES
  wire,     \* bytes written and not yet received
  closed,   \* the sender has closed its side
  broken,   \* history: the sender wrote something that is not this codec's,
            \* or ended in mid-frame, or the connection was reset
  sent,     \* history: the frames encode has accepted
  src,      \* the BytesMut that FramedRead fills and decode consumes
  reader,   \* FramedRead: "reading", "framing", "ended" or "failed"
  eof,      \* FramedRead has seen the end of the stream
  claimed,  \* history: the largest buffer decode has asked for
  decoded   \* history: the frames decode has returned

sender == <<wire, closed, broken, sent>>
receiver == <<src, reader, eof, claimed, decoded>>
vars == <<sender, receiver>>

\* FramedRead::new: its buffer is empty, and it reads before it decodes.
Init ==
  /\ wire = <<>> /\ closed = FALSE /\ broken = FALSE /\ sent = <<>>
  /\ src = <<>> /\ reader = "reading" /\ eof = FALSE
  /\ claimed = 0 /\ decoded = <<>>

-----------------------------------------------------------------------------
(* The sender.                                                             *)

\* put_u32, and u32::from_be_bytes of the first bytes of a buffer.
put_u32(n) ==
  <<n \div 2^24, (n \div 2^16) % 256, (n \div 2^8) % 256, n % 256>>
from_be_bytes(b) == b[1] * 2^24 + b[2] * 2^16 + b[3] * 2^8 + b[4]

Oversize(n) == n > MAX_FRAME_BYTES

\* encode, encode_frame: the length, then the payload.
encode(f) == put_u32(Len(Payload[f])) \o Payload[f]

\* send, send_frame: what encode returns goes out whole; when it refuses,
\* both callers pass the error on and the connection is dropped.
Put(f) ==
  /\ ~closed /\ ~broken /\ Len(sent) < MaxSent
  /\ \/ /\ ~Oversize(Len(Payload[f]))
        /\ wire' = wire \o encode(f) /\ sent' = Append(sent, f)
        /\ UNCHANGED closed
     \/ /\ Oversize(Len(Payload[f]))
        /\ closed' = TRUE /\ UNCHANGED <<wire, sent>>
  /\ UNCHANGED <<broken, receiver>>

\* Foreign bytes do not begin with a frame of this codec.  (If they did,
\* they would be no different from a frame sent.)
ASSUME ForeignAssumption ==
  \A bytes \in Foreign : LET n == from_be_bytes(bytes) IN
    (Len(bytes) >= 4 /\ ~Oversize(n) /\ Len(bytes) >= 4 + n) =>
      \A f \in Frames : ~IsPrefix(Payload[f], SubSeq(bytes, 5, 4 + n))

\* Some other program, or another version of this one, is at the far end.
PutForeign(bytes) ==
  /\ ~closed /\ ~broken
  /\ wire' = wire \o bytes /\ broken' = TRUE
  /\ UNCHANGED <<closed, sent, receiver>>

Close ==
  /\ ~closed
  /\ closed' = TRUE
  /\ UNCHANGED <<wire, broken, sent, receiver>>

\* The sender ends in the middle of a write: n bytes of f have gone out.
PutPart(f, n) ==
  /\ ~closed /\ ~broken /\ Len(sent) < MaxSent
  /\ ~Oversize(Len(Payload[f])) /\ n < Len(encode(f))
  /\ closed' = TRUE /\ broken' = TRUE
  /\ wire' = wire \o SubSeq(encode(f), 1, n)
  /\ UNCHANGED <<sent, receiver>>

-----------------------------------------------------------------------------
(* The receiver.                                                           *)

\* FramedRead reads what the kernel has: any part of what was written.
Read(n) ==
  /\ reader = "reading" /\ n <= Len(wire)
  /\ src' = src \o SubSeq(wire, 1, n)
  /\ wire' = SubSeq(wire, n + 1, Len(wire))
  /\ reader' = "framing"
  /\ UNCHANGED <<closed, broken, sent, eof, claimed, decoded>>

\* A read of no bytes: the sender has closed and all has been read.
ReadEof ==
  /\ reader = "reading" /\ wire = <<>> /\ closed
  /\ eof' = TRUE /\ reader' = "framing"
  /\ UNCHANGED <<sender, src, claimed, decoded>>

\* The connection is reset: what is in flight is lost and the read fails.
ReadFails ==
  /\ reader = "reading"
  /\ reader' = "failed" /\ closed' = TRUE /\ broken' = TRUE /\ wire' = <<>>
  /\ UNCHANGED <<sent, src, eof, claimed, decoded>>

\* The header is complete, and the length it declares.
HasHeader == Len(src) >= 4
Declared == from_be_bytes(src)

\* A bug: one byte too many is awaited.
HasFrameStrict == HasHeader /\ Len(src) > 4 + Declared
HasFrame == HasHeader /\ Len(src) >= 4 + Declared

\* A bug: the declared length is not checked before it is believed.
DeclaredTrusted == FALSE
DeclaredOversize == HasHeader /\ Oversize(Declared)

\* advance(4), split_to(len), postcard::from_bytes: the frame whose bytes
\* the payload begins with (postcard ignores what may follow), if any.
Parsed ==
  {f \in Frames : IsPrefix(Payload[f], SubSeq(src, 5, 4 + Declared))}
RestUnsplit == src  \* a bug: the payload is copied, not split off
Rest == SubSeq(src, 5 + Declared, Len(src))

\* decode returns a frame.
DecodeItem ==
  /\ reader = "framing" /\ HasFrame /\ ~DeclaredOversize
  /\ \E f \in Parsed : decoded' = Append(decoded, f)
  /\ src' = Rest
  /\ UNCHANGED <<sender, reader, eof, claimed>>

\* decode fails: the length is beyond the limit, or postcard refuses.
DecodeFails ==
  /\ reader = "framing" /\ HasHeader
  /\ DeclaredOversize \/ (HasFrame /\ Parsed = {})
  /\ src' = IF DeclaredOversize THEN src ELSE Rest
  /\ reader' = "failed"
  /\ UNCHANGED <<sender, eof, claimed, decoded>>

\* A bug: the end of the stream is answered like a short read.
DecodeMoreWaits ==
  /\ reader = "framing" /\ ~HasFrame /\ ~DeclaredOversize
  /\ claimed' = IF HasHeader /\ 4 + Declared > claimed
                  THEN 4 + Declared ELSE claimed
  /\ reader' = "reading"
  /\ UNCHANGED <<sender, src, eof, decoded>>

\* decode returns None, having reserved the room the frame needs: FramedRead
\* reads on, or, at the end of the stream, ends if nothing is left over.
DecodeMore ==
  /\ reader = "framing" /\ ~HasFrame /\ ~DeclaredOversize
  /\ claimed' = IF HasHeader /\ 4 + Declared > claimed
                  THEN 4 + Declared ELSE claimed
  /\ reader' = IF ~eof THEN "reading"
               ELSE IF src = <<>> THEN "ended" ELSE "failed"
  /\ UNCHANGED <<sender, src, eof, decoded>>

Done == reader \in {"ended", "failed"} /\ closed /\ UNCHANGED vars

Decode == DecodeItem \/ DecodeFails \/ DecodeMore
Receive == Decode \/ ReadEof \/ \E n \in 1 .. Len(wire) : Read(n)

Next ==
  \/ \E f \in Frames : Put(f)
  \/ \E bytes \in Foreign : PutForeign(bytes)
  \/ Close
  \/ \E f \in Frames, n \in 1 .. 3 + MAX_FRAME_BYTES : PutPart(f, n)
  \/ Receive \/ ReadFails
  \/ Done

Spec == Init /\ [][Next]_vars

\* The receiver's task is polled while there is something to read.
FairSpec == Spec /\ WF_vars(Receive)

-----------------------------------------------------------------------------
(* Properties.                                                             *)

\* However the bytes are cut up and wherever the stream breaks off, decode
\* returns the frames sent, whole, once and in order, and a clean end means
\* that all have come (decode, encode; Channel).
Frame == INSTANCE Channel WITH
  state <- IF reader \in {"ended", "failed"} THEN reader ELSE "open"

ImplementsChannel == Frame!Spec

\* FramedRead waits for bytes only when the next frame is not all there: a
\* frame that has arrived is never held back until another one comes.
NothingHeldBack ==
  (reader = "reading" /\ Len(decoded) < Len(sent)) =>
     Len(src) < Len(encode(sent[Len(decoded) + 1]))

\* "enforced *before* allocation in `decode`, so a forged length prefix cannot
\* coax the server into reserving large buffers" (lib.rs): neither the bytes
\* held while waiting nor the room asked for exceed one frame.
BufferBounded ==
  /\ claimed <= 4 + MAX_FRAME_BYTES
  /\ reader = "reading" => Len(src) < 4 + MAX_FRAME_BYTES

\* A connection that is closed comes to its end, and then all that was sent
\* has been decoded, unless something broke the stream: no legal stream ever
\* makes decode fail, or end early.
EveryFrameArrives ==
  closed ~> \/ reader = "ended" /\ decoded = sent
            \/ reader = "failed" /\ broken

=============================================================================
