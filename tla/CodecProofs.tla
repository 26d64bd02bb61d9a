----------------------------- MODULE CodecProofs -----------------------------
(***************************************************************************)
(* Proofs about Codec for all frames, whatever postcard makes of them, any *)
(* foreign bytes, any frame limit and every way of cutting up the stream.  *)
(***************************************************************************)
EXTENDS Codec, SequenceTheorems, TLAPS

-----------------------------------------------------------------------------
(* The inductive invariant.                                                *)

Typed ==
  /\ wire \in Seq(Byte) /\ src \in Seq(Byte)
  /\ sent \in Seq(Frames) /\ decoded \in Seq(Frames)
  /\ \A i \in 1 .. Len(sent) : ~Oversize(Len(Payload[sent[i]]))
  /\ reader \in {"reading", "framing", "ended", "failed"}
  /\ claimed \in Nat

\* After the end of the stream nothing comes.
AtEof == eof => wire = <<>> /\ closed

\* What has been decoded is what was sent first.
InOrder ==
  /\ Len(decoded) <= Len(sent)
  /\ \A i \in 1 .. Len(decoded) : decoded[i] = sent[i]

\* The bytes the receiver has yet to decode.
Stream == src \o wire

\* What follows the last frame sent: nothing, or what broke the stream.
Leftover(end) ==
  \/ ~broken /\ Len(Stream) = end
  \/ \E bytes \in Foreign :
       /\ broken
       /\ Len(Stream) = end + Len(bytes)
       /\ \A j \in 1 .. Len(bytes) : Stream[end + j] = bytes[j]
  \/ \E f \in Frames :
       /\ broken /\ ~Oversize(Len(Payload[f]))
       /\ end <= Len(Stream) /\ Len(Stream) < end + Len(encode(f))
       /\ \A j \in 1 .. Len(Stream) - end : Stream[end + j] = encode(f)[j]

\* off[k] is the place in Stream where the k-th frame sent begins: the frames
\* not decoded yet lie one after the other from its start.
Layout(off) ==
  /\ off[Len(decoded) + 1] = 0
  /\ \A k \in Len(decoded) + 1 .. Len(sent) :
       off[k + 1] = off[k] + Len(encode(sent[k]))
  /\ \A j, k \in Len(decoded) + 1 .. Len(sent) + 1 : j <= k => off[j] <= off[k]
  /\ \A k \in Len(decoded) + 1 .. Len(sent) :
       \A j \in 1 .. Len(encode(sent[k])) : Stream[off[k] + j] = encode(sent[k])[j]
  /\ Leftover(off[Len(sent) + 1])

Live == reader \in {"reading", "framing"}

StreamLaid == Live => \E off \in [Nat -> Int] : Layout(off)

CodecInv ==
  /\ Typed /\ AtEof /\ InOrder /\ StreamLaid
  /\ NothingHeldBack /\ BufferBounded

-----------------------------------------------------------------------------
(* Bytes.                                                                  *)

\* Division with remainder.
LEMMA DivMod ==
  ASSUME NEW m \in Nat
  PROVE  /\ m \div 256 \in Nat /\ m % 256 \in 0 .. 255
         /\ m = 256 * (m \div 256) + (m % 256)
  BY SMT

\* from_be_bytes reads back what put_u32 wrote.
LEMMA HeaderRoundTrip ==
  ASSUME NEW n \in Nat
  PROVE  from_be_bytes(put_u32(n)) = n
  <1> DEFINE a == n \div 256  b == n % 256
             c == a \div 256  d == a % 256
             e == c \div 256  g == c % 256
  <1>1. a \in Nat /\ b \in 0 .. 255 /\ n = 256 * a + b
    BY DivMod
  <1>2. c \in Nat /\ d \in 0 .. 255 /\ a = 256 * c + d
    BY <1>1, DivMod
  <1>3. e \in Nat /\ g \in 0 .. 255 /\ c = 256 * e + g
    BY <1>2, DivMod
  <1> HIDE DEF a, b, c, d, e, g
  <1>4. n = 65536 * c + 256 * d + b
    BY <1>1, <1>2, SMT
  <1>5. n = 16777216 * e + 65536 * g + 256 * d + b
    BY <1>3, <1>4, SMT
  <1>6. n \div 2^16 = c
    BY <1>1, <1>2, <1>4, SMT
  <1>7. n \div 2^24 = e
    BY <1>1, <1>2, <1>3, <1>5, SMT
  <1>8. n \div 2^8 = a /\ n % 256 = b /\ a % 256 = d /\ c % 256 = g
    BY SMT DEF a, b, d, g
  <1>9. put_u32(n) = <<e, g, d, b>>
    BY <1>6, <1>7, <1>8 DEF put_u32
  <1> QED
    BY <1>1, <1>2, <1>3, <1>5, <1>9, SMT DEF from_be_bytes

\* A length within the limit is written as four bytes.
LEMMA HeaderBytes ==
  ASSUME NEW n \in Nat, ~Oversize(n)
  PROVE  put_u32(n) \in Seq(Byte) /\ Len(put_u32(n)) = 4
  <1>1. n <= MAX_FRAME_BYTES /\ MAX_FRAME_BYTES \in Nat
        /\ MAX_FRAME_BYTES \div 2^24 \in 0 .. 255
    BY CodecAssumption DEF Oversize, Byte
  <1>2. n \div 2^24 \in 0 .. 255
    BY <1>1, SMT
  <1>3. (n \div 2^16) % 256 \in 0 .. 255 /\ (n \div 2^8) % 256 \in 0 .. 255
        /\ n % 256 \in 0 .. 255
    BY SMT
  <1> QED
    BY <1>2, <1>3 DEF put_u32, Byte

\* The header is read from the first four bytes.
LEMMA HeaderOfFour ==
  ASSUME NEW s, NEW t, s[1] = t[1], s[2] = t[2], s[3] = t[3], s[4] = t[4]
  PROVE  from_be_bytes(s) = from_be_bytes(t)
  BY DEF from_be_bytes

\* The length declared by four bytes is a number.
LEMMA HeaderNat ==
  ASSUME NEW s \in Seq(Byte), Len(s) >= 4
  PROVE  from_be_bytes(s) \in Nat
  <1>1. 1 \in 1 .. Len(s) /\ 2 \in 1 .. Len(s) /\ 3 \in 1 .. Len(s) /\ 4 \in 1 .. Len(s)
    OBVIOUS
  <1>2. s[1] \in Nat /\ s[2] \in Nat /\ s[3] \in Nat /\ s[4] \in Nat
    <2>1. \A i \in 1 .. Len(s) : s[i] \in Byte
      OBVIOUS
    <2>2. s[1] \in Byte /\ s[2] \in Byte /\ s[3] \in Byte /\ s[4] \in Byte
      BY <1>1, <2>1
    <2>3. \A x \in Byte : x \in Nat
      BY DEF Byte
    <2> QED
      BY <2>2, <2>3
  <1>3. \A a, b, c, d \in Nat : a * 2^24 + b * 2^16 + c * 2^8 + d \in Nat
    BY SMT
  <1> QED
    BY <1>2, <1>3 DEF from_be_bytes

\* What is split off after the header.
LEMMA AfterHeader ==
  ASSUME NEW s \in Seq(Byte), NEW n \in Nat, Len(s) >= 4 + n
  PROVE  /\ SubSeq(s, 5, 4 + n) \in Seq(Byte)
         /\ Len(SubSeq(s, 5, 4 + n)) = n
         /\ \A i \in 1 .. n : SubSeq(s, 5, 4 + n)[i] = s[4 + i]
  OBVIOUS

\* What has gone out of a write that is cut short.
LEMMA FirstBytes ==
  ASSUME NEW s \in Seq(Byte), NEW n \in Nat, n <= Len(s)
  PROVE  /\ SubSeq(s, 1, n) \in Seq(Byte)
         /\ Len(SubSeq(s, 1, n)) = n
         /\ \A i \in 1 .. n : SubSeq(s, 1, n)[i] = s[i]
  OBVIOUS

\* An encoded frame: four bytes that declare the length of the payload, and
\* the payload.
LEMMA EncodeFacts ==
  ASSUME NEW f \in Frames, ~Oversize(Len(Payload[f]))
  PROVE  /\ Payload[f] \in Seq(Byte) /\ Len(Payload[f]) \in Nat
         /\ encode(f) \in Seq(Byte)
         /\ Len(encode(f)) = 4 + Len(Payload[f])
         /\ from_be_bytes(encode(f)) = Len(Payload[f])
         /\ \A i \in 1 .. Len(Payload[f]) : encode(f)[4 + i] = Payload[f][i]
  <1>1. Payload[f] \in Seq(Byte) /\ Len(Payload[f]) \in Nat
    BY CodecAssumption
  <1> DEFINE h == put_u32(Len(Payload[f]))
  <1>2. h \in Seq(Byte) /\ Len(h) = 4 /\ from_be_bytes(h) = Len(Payload[f])
    BY <1>1, HeaderBytes, HeaderRoundTrip
  <1>3. encode(f) = h \o Payload[f]
    BY DEF encode
  <1> HIDE DEF h
  <1>4. /\ encode(f) \in Seq(Byte) /\ Len(encode(f)) = 4 + Len(Payload[f])
        /\ \A i \in 1 .. 4 + Len(Payload[f]) :
             encode(f)[i] = IF i <= 4 THEN h[i] ELSE Payload[f][i - 4]
    <2>1. /\ h \o Payload[f] \in Seq(Byte)
          /\ Len(h \o Payload[f]) = Len(h) + Len(Payload[f])
          /\ \A i \in 1 .. Len(h) + Len(Payload[f]) : (h \o Payload[f])[i] =
               IF i <= Len(h) THEN h[i] ELSE Payload[f][i - Len(h)]
      BY <1>1, <1>2, ConcatProperties
    <2> QED
      BY <1>2, <1>3, <2>1
  <1>5. from_be_bytes(encode(f)) = from_be_bytes(h)
    <2>1. encode(f)[1] = h[1] /\ encode(f)[2] = h[2]
          /\ encode(f)[3] = h[3] /\ encode(f)[4] = h[4]
      BY <1>1, <1>4
    <2> QED
      BY <2>1, HeaderOfFour
  <1>6. \A i \in 1 .. Len(Payload[f]) : encode(f)[4 + i] = Payload[f][i]
    BY <1>1, <1>4
  <1> QED
    BY <1>1, <1>2, <1>4, <1>5, <1>6

-----------------------------------------------------------------------------
(* The stream.                                                             *)

\* What has not been decoded is in the buffer or on the wire.
LEMMA StreamFacts ==
  ASSUME Typed
  PROVE  /\ Stream \in Seq(Byte) /\ Len(Stream) = Len(src) + Len(wire)
         /\ Len(src) \in Nat /\ Len(wire) \in Nat
         /\ \A i \in 1 .. Len(src) : Stream[i] = src[i] /\ src[i] \in Byte
  <1>1. src \in Seq(Byte) /\ wire \in Seq(Byte)
    BY DEF Typed
  <1>2. /\ Stream \in Seq(Byte) /\ Len(Stream) = Len(src) + Len(wire)
        /\ \A i \in 1 .. Len(src) + Len(wire) : Stream[i] =
             IF i <= Len(src) THEN src[i] ELSE wire[i - Len(src)]
    BY <1>1, ConcatProperties DEF Stream
  <1>3. Len(src) \in Nat /\ Len(wire) \in Nat /\ \A i \in 1 .. Len(src) : src[i] \in Byte
    BY <1>1
  <1> QED
    BY <1>2, <1>3

\* Reading moves bytes from the wire to the buffer.
LEMMA ReadKeepsStream ==
  ASSUME Typed, NEW n \in 1 .. Len(wire), Read(n)
  PROVE  Stream' = Stream /\ src' \in Seq(Byte) /\ wire' \in Seq(Byte)
  <1>1. src \in Seq(Byte) /\ wire \in Seq(Byte) /\ Len(wire) \in Nat
    BY DEF Typed
  <1> DEFINE u == SubSeq(wire, 1, n)
             v == SubSeq(wire, n + 1, Len(wire))
  <1>2. u \in Seq(Byte) /\ v \in Seq(Byte)
    BY <1>1
  <1>3. u \o v = wire
    <2>1. Len(u) = n /\ \A i \in 1 .. n : u[i] = wire[i]
      BY <1>1
    <2>2. Len(v) = Len(wire) - n /\ \A i \in 1 .. Len(wire) - n : v[i] = wire[n + i]
      BY <1>1
    <2> HIDE DEF u, v
    <2>3. /\ u \o v \in Seq(Byte) /\ Len(u \o v) = Len(u) + Len(v)
          /\ \A i \in 1 .. Len(u) + Len(v) :
               (u \o v)[i] = IF i <= Len(u) THEN u[i] ELSE v[i - Len(u)]
      BY <1>2, ConcatProperties
    <2>4. Len(u \o v) = Len(wire) /\ \A i \in 1 .. Len(wire) : (u \o v)[i] = wire[i]
      BY <1>1, <2>1, <2>2, <2>3
    <2> QED
      BY <1>1, <2>3, <2>4, SeqEqual
  <1>4. src' = src \o u /\ wire' = v
    BY DEF Read
  <1> HIDE DEF u, v
  <1>5. (src \o u) \o v = src \o (u \o v)
    <2>1. \A a, b, c \in Seq(Byte) : (a \o b) \o c = a \o (b \o c)
      BY ConcatAssociative
    <2> QED
      BY <1>1, <1>2, <2>1
  <1>6. src \o u \in Seq(Byte)
    BY <1>1, <1>2, ConcatProperties
  <1> QED
    BY <1>2, <1>3, <1>4, <1>5, <1>6 DEF Stream

\* Writing appends to the stream.
LEMMA StreamGrows ==
  ASSUME Typed, NEW bytes \in Seq(Byte), wire' = wire \o bytes, UNCHANGED src
  PROVE  /\ wire' \in Seq(Byte) /\ Stream' \in Seq(Byte)
         /\ Len(Stream') = Len(Stream) + Len(bytes) /\ Len(Stream) \in Nat
         /\ \A i \in 1 .. Len(Stream) : Stream'[i] = Stream[i]
         /\ \A j \in 1 .. Len(bytes) : Stream'[Len(Stream) + j] = bytes[j]
  <1>1. src \in Seq(Byte) /\ wire \in Seq(Byte) /\ Stream \in Seq(Byte)
    BY StreamFacts DEF Typed
  <1>2. Stream' = Stream \o bytes
    BY <1>1, ConcatAssociative DEF Stream
  <1>3. wire' \in Seq(Byte)
    BY <1>1, ConcatProperties
  <1>4. /\ Stream \o bytes \in Seq(Byte)
        /\ Len(Stream \o bytes) = Len(Stream) + Len(bytes)
        /\ \A i \in 1 .. Len(Stream) + Len(bytes) : (Stream \o bytes)[i] =
             IF i <= Len(Stream) THEN Stream[i] ELSE bytes[i - Len(Stream)]
    BY <1>1, ConcatProperties
  <1>5. Len(Stream) \in Nat /\ Len(bytes) \in Nat
    BY <1>1
  <1> HIDE DEF Stream
  <1>6. \A i \in 1 .. Len(Stream) : (Stream \o bytes)[i] = Stream[i]
    BY <1>4, <1>5
  <1>7. \A j \in 1 .. Len(bytes) : (Stream \o bytes)[Len(Stream) + j] = bytes[j]
    <2> TAKE j \in 1 .. Len(bytes)
    <2>1. /\ Len(Stream) + j \in 1 .. Len(Stream) + Len(bytes)
          /\ ~(Len(Stream) + j <= Len(Stream)) /\ (Len(Stream) + j) - Len(Stream) = j
      BY <1>5
    <2> QED
      BY <1>4, <2>1
  <1> QED
    BY <1>2, <1>3, <1>4, <1>5, <1>6, <1>7

\* decode splits the frame off the buffer, and so off the stream.
LEMMA StreamShrinks ==
  ASSUME Typed, HasFrame, src' = Rest, UNCHANGED wire
  PROVE  /\ Declared \in Nat /\ src' \in Seq(Byte)
         /\ Len(src') = Len(src) - (4 + Declared)
         /\ Len(Stream') = Len(Stream) - (4 + Declared)
         /\ \A i \in 1 .. Len(Stream) - (4 + Declared) :
              Stream'[i] = Stream[(4 + Declared) + i]
  <1>1. src \in Seq(Byte) /\ wire \in Seq(Byte) /\ Len(src) \in Nat
        /\ Len(wire) \in Nat
    BY DEF Typed
  <1>2. Declared \in Nat /\ Len(src) >= 4 + Declared
    BY <1>1, HeaderNat DEF Declared, HasFrame, HasHeader
  <1> DEFINE m == 4 + Declared
  <1>3. m \in Nat /\ m <= Len(src) /\ 5 + Declared = m + 1
    BY <1>2
  <1>4. src' = SubSeq(src, m + 1, Len(src))
    BY <1>3 DEF Rest
  <1> HIDE DEF m
  <1>5. /\ src' \in Seq(Byte) /\ Len(src') = Len(src) - m
        /\ \A i \in 1 .. Len(src) - m : src'[i] = src[m + i]
    BY <1>1, <1>3, <1>4
  <1>6. /\ Len(Stream) = Len(src) + Len(wire)
        /\ \A i \in 1 .. Len(src) + Len(wire) : Stream[i] =
             IF i <= Len(src) THEN src[i] ELSE wire[i - Len(src)]
    BY <1>1, ConcatProperties DEF Stream
  <1>7. /\ Len(Stream') = Len(src') + Len(wire)
        /\ \A i \in 1 .. Len(src') + Len(wire) : Stream'[i] =
             IF i <= Len(src') THEN src'[i] ELSE wire[i - Len(src')]
    BY <1>1, <1>5, ConcatProperties DEF Stream
  <1>8. ASSUME NEW i \in 1 .. Len(Stream) - m PROVE Stream'[i] = Stream[m + i]
    <2>1. i \in 1 .. Len(src') + Len(wire) /\ m + i \in 1 .. Len(src) + Len(wire)
      BY <1>1, <1>3, <1>5, <1>6
    <2>2. CASE i <= Len(src')
      <3>1. m + i <= Len(src) /\ i \in 1 .. Len(src) - m
        BY <1>1, <1>3, <1>5, <2>1, <2>2
      <3> QED
        BY <1>5, <1>6, <1>7, <2>1, <2>2, <3>1
    <2>3. CASE ~(i <= Len(src'))
      <3>1. ~(m + i <= Len(src)) /\ (m + i) - Len(src) = i - Len(src')
        BY <1>1, <1>3, <1>5, <2>1, <2>3
      <3> QED
        BY <1>6, <1>7, <2>1, <2>3, <3>1
    <2> QED
      BY <2>2, <2>3
  <1>9. Len(Stream') = Len(Stream) - m
    BY <1>1, <1>3, <1>5, <1>6, <1>7
  <1> QED
    BY <1>2, <1>5, <1>8, <1>9 DEF m

-----------------------------------------------------------------------------
(* What decode finds at the front of the stream.                           *)

\* The frames sent do not reach beyond the stream.
LEMMA EndInStream ==
  ASSUME Typed, NEW end \in Int, Leftover(end)
  PROVE  end <= Len(Stream)
  <1>1. Len(Stream) \in Nat
    BY StreamFacts
  <1>2. ASSUME NEW bytes \in Foreign, Len(Stream) = end + Len(bytes)
        PROVE  end <= Len(Stream)
    <2>1. bytes \in Seq(Byte)
      BY CodecAssumption
    <2>2. Len(bytes) \in Nat
      BY <2>1
    <2> QED
      BY <1>1, <1>2, <2>2
  <1> QED
    BY <1>1, <1>2 DEF Leftover

\* A frame that is still to be decoded lies whole at the front.
LEMMA FrontFrame ==
  ASSUME Typed, InOrder, NEW off \in [Nat -> Int], Layout(off),
         Len(decoded) < Len(sent),
         NEW g, g = sent[Len(decoded) + 1]
  PROVE  /\ g \in Frames /\ ~Oversize(Len(Payload[g]))
         /\ off[Len(decoded) + 2] = Len(encode(g))
         /\ Len(encode(g)) <= Len(Stream)
         /\ \A j \in 1 .. Len(encode(g)) : Stream[j] = encode(g)[j]
  <1> DEFINE d == Len(decoded)
             n == Len(sent)
  <1>1. d \in Nat /\ n \in Nat /\ d < n
    BY DEF Typed
  <1>2. /\ off[d + 1] = 0
        /\ \A k \in d + 1 .. n : off[k + 1] = off[k] + Len(encode(sent[k]))
        /\ \A j, k \in d + 1 .. n + 1 : j <= k => off[j] <= off[k]
        /\ \A k \in d + 1 .. n : \A j \in 1 .. Len(encode(sent[k])) :
             Stream[off[k] + j] = encode(sent[k])[j]
        /\ Leftover(off[n + 1])
    BY DEF Layout
  <1>3. g \in Frames /\ ~Oversize(Len(Payload[g]))
    BY <1>1 DEF Typed
  <1>4. Len(encode(g)) \in Nat
    BY <1>3, EncodeFacts
  <1> HIDE DEF d, n
  <1>5. d + 1 \in d + 1 .. n /\ d + 2 \in d + 1 .. n + 1 /\ n + 1 \in d + 1 .. n + 1
        /\ d + 2 <= n + 1 /\ (d + 1) + 1 = d + 2 /\ n + 1 \in Nat
    BY <1>1
  <1>6. g = sent[d + 1]
    BY DEF d
  <1>7. off[d + 2] = Len(encode(g))
    <2>1. off[(d + 1) + 1] = off[d + 1] + Len(encode(sent[d + 1]))
      BY <1>2, <1>5
    <2>2. off[d + 1] = 0 /\ (d + 1) + 1 = d + 2
      BY <1>2, <1>5
    <2>3. off[d + 2] = 0 + Len(encode(g))
      BY <1>6, <2>1, <2>2
    <2> QED
      BY <1>4, <2>3
  <1>8. off[n + 1] <= Len(Stream) /\ off[n + 1] \in Int
    BY <1>2, <1>5, EndInStream
  <1>9. off[d + 2] <= off[n + 1]
    BY <1>2, <1>5
  <1>10. Len(encode(g)) <= Len(Stream)
    <2>1. Len(Stream) \in Nat
      BY StreamFacts
    <2> QED
      BY <1>4, <1>7, <1>8, <1>9, <2>1
  <1>11. ASSUME NEW j \in 1 .. Len(encode(g)) PROVE Stream[j] = encode(g)[j]
    <2>1. Stream[off[d + 1] + j] = encode(g)[j]
      BY <1>2, <1>5, <1>6
    <2>2. off[d + 1] + j = j
      BY <1>2, <1>4
    <2> QED
      BY <2>1, <2>2
  <1> QED
    BY <1>3, <1>7, <1>10, <1>11 DEF d

\* A header declares the length of its frame.
LEMMA HeaderDeclares ==
  ASSUME Typed, NEW g \in Frames, ~Oversize(Len(Payload[g])), HasHeader,
         \A j \in 1 .. 4 : Stream[j] = encode(g)[j]
  PROVE  Declared = Len(Payload[g])
  <1>1. Len(src) \in Nat /\ Len(src) >= 4
        /\ \A i \in 1 .. Len(src) : Stream[i] = src[i]
    BY StreamFacts DEF HasHeader
  <1>2. \A i \in 1 .. 4 : src[i] = encode(g)[i]
    <2> TAKE i \in 1 .. 4
    <2>1. i \in 1 .. Len(src)
      BY <1>1
    <2> QED
      BY <1>1, <2>1
  <1>3. /\ src[1] = encode(g)[1] /\ src[2] = encode(g)[2]
        /\ src[3] = encode(g)[3] /\ src[4] = encode(g)[4]
    BY <1>2
  <1>4. Declared = from_be_bytes(encode(g))
    BY <1>3, HeaderOfFour DEF Declared
  <1> QED
    BY <1>4, EncodeFacts

\* decode returns the next frame sent and no other.
LEMMA NextFrameDecoded ==
  ASSUME Typed, InOrder, NEW off \in [Nat -> Int], Layout(off),
         Len(decoded) < Len(sent), HasFrame,
         NEW g, g = sent[Len(decoded) + 1]
  PROVE  Declared = Len(Payload[g]) /\ \A f \in Parsed : f = g
  <1>1. /\ g \in Frames /\ ~Oversize(Len(Payload[g]))
        /\ \A j \in 1 .. Len(encode(g)) : Stream[j] = encode(g)[j]
    BY FrontFrame
  <1>2. /\ Payload[g] \in Seq(Byte) /\ Len(Payload[g]) \in Nat
        /\ Len(encode(g)) = 4 + Len(Payload[g])
        /\ \A i \in 1 .. Len(Payload[g]) : encode(g)[4 + i] = Payload[g][i]
    BY <1>1, EncodeFacts
  <1>3. Declared = Len(Payload[g])
    <2>1. Len(Payload[g]) \in Nat /\ Len(encode(g)) = 4 + Len(Payload[g])
      BY <1>2
    <2>2. \A j \in 1 .. 4 : j \in 1 .. Len(encode(g))
      <3>1. \A m \in Nat : \A j \in 1 .. 4 : j \in 1 .. 4 + m
        OBVIOUS
      <3> QED
        BY <2>1, <3>1
    <2>3. \A j \in 1 .. 4 : Stream[j] = encode(g)[j]
      BY <1>1, <2>2
    <2> QED
      BY <1>1, <2>3, HeaderDeclares DEF HasFrame
  <1>4. /\ src \in Seq(Byte) /\ Len(src) \in Nat /\ Len(src) >= 4 + Declared
        /\ \A i \in 1 .. Len(src) : Stream[i] = src[i] /\ src[i] \in Byte
    BY StreamFacts DEF Typed, HasFrame
  <1> DEFINE p == SubSeq(src, 5, 4 + Declared)
  <1>5. /\ p \in Seq(Byte) /\ Len(p) = Declared
        /\ \A i \in 1 .. Declared : p[i] = src[4 + i]
    BY <1>2, <1>3, <1>4, AfterHeader
  <1> HIDE DEF p
  <1>6. \A i \in 1 .. Declared : p[i] = Payload[g][i]
    <2> TAKE i \in 1 .. Declared
    <2>1. 4 + i \in 1 .. Len(src) /\ 4 + i \in 1 .. Len(encode(g))
          /\ i \in 1 .. Len(Payload[g])
      <3>1. /\ Declared \in Nat /\ Len(src) \in Nat /\ Len(src) >= 4 + Declared
            /\ Len(encode(g)) = 4 + Declared /\ Len(Payload[g]) = Declared
        BY <1>2, <1>3, <1>4
      <3> QED
        BY <3>1
    <2>2. Stream[4 + i] = src[4 + i] /\ Stream[4 + i] = encode(g)[4 + i]
          /\ encode(g)[4 + i] = Payload[g][i] /\ p[i] = src[4 + i]
      BY <1>1, <1>2, <1>4, <1>5, <2>1
    <2> QED
      BY <2>2
  <1>7. p = Payload[g]
    BY <1>2, <1>3, <1>5, <1>6, SeqEqual
  <1>8. Parsed = {f \in Frames : IsPrefix(Payload[f], Payload[g])}
    BY <1>7 DEF Parsed, p
  <1>9. \A f \in Frames : IsPrefix(Payload[f], Payload[g]) => f = g
    BY <1>1, CodecAssumption
  <1> QED
    BY <1>3, <1>8, <1>9

\* When all frames sent are decoded, decode finds none in what is left.
LEMMA NoStrayFrame ==
  ASSUME Typed, InOrder, NEW off \in [Nat -> Int], Layout(off),
         Len(decoded) = Len(sent), HasFrame, ~DeclaredOversize
  PROVE  Parsed = {}
  <1>1. Leftover(0)
    BY DEF Layout
  <1>2. /\ src \in Seq(Byte) /\ Len(src) \in Nat /\ Len(wire) \in Nat
        /\ Len(src) >= 4 /\ Len(src) >= 4 + Declared
        /\ Len(Stream) = Len(src) + Len(wire)
        /\ \A i \in 1 .. Len(src) : Stream[i] = src[i] /\ src[i] \in Byte
    BY StreamFacts DEF Typed, HasFrame, HasHeader
  <1>3. Declared \in Nat /\ ~Oversize(Declared)
    BY <1>2, HeaderNat DEF Declared, DeclaredOversize, HasFrame
  <1>4. Len(Stream) # 0 /\ Len(Stream) \in Nat /\ 0 + Len(Stream) = Len(Stream)
    BY <1>2
  <1>5. ASSUME NEW f \in Frames, ~Oversize(Len(Payload[f])),
               Len(Stream) < 0 + Len(encode(f)),
               \A j \in 1 .. Len(Stream) - 0 : Stream[0 + j] = encode(f)[j]
        PROVE  FALSE
    <2>1. \A j \in 1 .. 4 : Stream[j] = encode(f)[j]
      <3> TAKE j \in 1 .. 4
      <3>1. j \in 1 .. Len(Stream) - 0 /\ 0 + j = j
        BY <1>2
      <3> QED
        BY <1>5, <3>1
    <2>2. Declared = Len(Payload[f])
      BY <1>5, <2>1, HeaderDeclares DEF HasFrame
    <2>3. Len(encode(f)) = 4 + Declared
      BY <1>5, <2>2, EncodeFacts
    <2> QED
      BY <1>2, <1>3, <1>5, <2>3
  <1>6. ASSUME NEW bytes \in Foreign, Len(Stream) = 0 + Len(bytes),
               \A j \in 1 .. Len(bytes) : Stream[0 + j] = bytes[j]
        PROVE  Parsed = {}
    <2>1. bytes \in Seq(Byte)
      BY CodecAssumption
    <2>2. Len(bytes) = Len(Stream) /\ Len(bytes) >= 4 /\ Len(bytes) >= 4 + Declared
      BY <1>2, <1>3, <1>6, <2>1
    <2>3. \A i \in 1 .. Len(src) : src[i] = bytes[i]
      <3> TAKE i \in 1 .. Len(src)
      <3>1. i \in 1 .. Len(bytes) /\ 0 + i = i
        BY <1>2, <2>2
      <3> QED
        BY <1>2, <1>6, <3>1
    <2>4. Declared = from_be_bytes(bytes)
      <3>1. 1 \in 1 .. Len(src) /\ 2 \in 1 .. Len(src)
            /\ 3 \in 1 .. Len(src) /\ 4 \in 1 .. Len(src)
        BY <1>2
      <3>2. src[1] = bytes[1] /\ src[2] = bytes[2]
            /\ src[3] = bytes[3] /\ src[4] = bytes[4]
        BY <2>3, <3>1
      <3> QED
        BY <3>2, HeaderOfFour DEF Declared
    <2>5. SubSeq(src, 5, 4 + Declared) = SubSeq(bytes, 5, 4 + Declared)
      <3>1. /\ SubSeq(src, 5, 4 + Declared) \in Seq(Byte)
            /\ SubSeq(bytes, 5, 4 + Declared) \in Seq(Byte)
            /\ Len(SubSeq(src, 5, 4 + Declared)) = Declared
            /\ Len(SubSeq(bytes, 5, 4 + Declared)) = Declared
            /\ \A i \in 1 .. Declared :
                 /\ SubSeq(src, 5, 4 + Declared)[i] = src[4 + i]
                 /\ SubSeq(bytes, 5, 4 + Declared)[i] = bytes[4 + i]
        BY <1>2, <1>3, <2>1, <2>2, AfterHeader
      <3>2. \A i \in 1 .. Declared : 4 + i \in 1 .. Len(src)
        <4>1. Declared \in Nat /\ Len(src) \in Nat /\ Len(src) >= 4 + Declared
          BY <1>2, <1>3
        <4> QED
          BY <4>1
      <3>3. \A i \in 1 .. Declared :
              SubSeq(src, 5, 4 + Declared)[i] = SubSeq(bytes, 5, 4 + Declared)[i]
        BY <2>3, <3>1, <3>2
      <3> QED
        BY <3>1, <3>3, SeqEqual
    <2>6. \A f \in Frames : ~IsPrefix(Payload[f], SubSeq(bytes, 5, 4 + Declared))
      BY <1>3, <2>2, <2>4, ForeignAssumption
    <2> QED
      BY <2>5, <2>6 DEF Parsed
  <1> QED
    BY <1>1, <1>4, <1>5, <1>6 DEF Leftover

-----------------------------------------------------------------------------
(* The layout of the stream from step to step.                             *)

\* Where the frames in the stream lie.
LEMMA InStream ==
  ASSUME Typed, InOrder, NEW off \in [Nat -> Int], Layout(off)
  PROVE  /\ Len(decoded) \in Nat /\ Len(sent) \in Nat
         /\ Len(decoded) + 1 \in Len(decoded) + 1 .. Len(sent) + 1
         /\ Len(sent) + 1 \in Len(decoded) + 1 .. Len(sent) + 1
         /\ off[Len(sent) + 1] \in Nat /\ off[Len(sent) + 1] <= Len(Stream)
         /\ Len(Stream) \in Nat
         /\ \A k \in Len(decoded) + 1 .. Len(sent) :
              /\ Len(encode(sent[k])) \in Nat /\ off[k] \in Nat
              /\ \A j \in 1 .. Len(encode(sent[k])) : off[k] + j \in 1 .. Len(Stream)
  <1> DEFINE d == Len(decoded)
             n == Len(sent)
  <1>1. d \in Nat /\ n \in Nat /\ d <= n
    BY DEF Typed, InOrder
  <1>2. /\ off[d + 1] = 0
        /\ \A k \in d + 1 .. n : off[k + 1] = off[k] + Len(encode(sent[k]))
        /\ \A j, k \in d + 1 .. n + 1 : j <= k => off[j] <= off[k]
        /\ Leftover(off[n + 1])
    BY DEF Layout
  <1>3. \A k \in 1 .. n : sent[k] \in Frames /\ ~Oversize(Len(Payload[sent[k]]))
    BY DEF Typed
  <1> HIDE DEF d, n
  <1>4. d + 1 \in d + 1 .. n + 1 /\ n + 1 \in d + 1 .. n + 1 /\ d + 1 <= n + 1
        /\ n + 1 \in Nat /\ \A k \in d + 1 .. n + 1 : k \in Nat /\ d + 1 <= k /\ k <= n + 1
    BY <1>1
  <1>5. Len(Stream) \in Nat
    BY StreamFacts
  <1>6. \A k \in d + 1 .. n + 1 : 0 <= off[k] /\ off[k] <= off[n + 1] /\ off[k] \in Int
    BY <1>2, <1>4
  <1>7. off[n + 1] <= Len(Stream) /\ off[n + 1] \in Nat
    <2>1. off[n + 1] \in Int /\ 0 <= off[n + 1]
      BY <1>4, <1>6
    <2>2. off[n + 1] <= Len(Stream)
      BY <1>2, <2>1, EndInStream
    <2> QED
      BY <2>1, <2>2
  <1>8. ASSUME NEW k \in d + 1 .. n
        PROVE  /\ Len(encode(sent[k])) \in Nat /\ off[k] \in Nat
               /\ \A j \in 1 .. Len(encode(sent[k])) : off[k] + j \in 1 .. Len(Stream)
    <2>1. k \in 1 .. n /\ k \in d + 1 .. n + 1 /\ k + 1 \in d + 1 .. n + 1
      BY <1>1
    <2>2. Len(encode(sent[k])) \in Nat
      <3>1. sent[k] \in Frames /\ ~Oversize(Len(Payload[sent[k]]))
        BY <1>3, <2>1
      <3>2. Len(Payload[sent[k]]) \in Nat /\ Len(encode(sent[k])) = 4 + Len(Payload[sent[k]])
        BY <3>1, EncodeFacts
      <3>3. \A m \in Nat : 4 + m \in Nat
        OBVIOUS
      <3> QED
        BY <3>2, <3>3
    <2>3. off[k] \in Nat /\ off[k + 1] = off[k] + Len(encode(sent[k]))
          /\ off[k + 1] <= off[n + 1]
      BY <1>2, <1>6, <2>1
    <2>4. \A x, y, z, l \in Nat : x + y <= z /\ z <= l =>
            \A j \in 1 .. y : x + j \in 1 .. l
      OBVIOUS
    <2> QED
      BY <1>5, <1>7, <2>2, <2>3, <2>4
  <1> QED
    BY <1>1, <1>4, <1>5, <1>7, <1>8 DEF d, n

\* Steps that move bytes along the stream or leave it alone.
LEMMA LayoutSame ==
  ASSUME NEW off, Layout(off), Stream' = Stream, UNCHANGED <<sent, decoded, broken>>
  PROVE  Layout(off)'
  BY DEF Layout, Leftover

\* A frame is written behind the others.
LEMMA LayoutPut ==
  ASSUME Typed, InOrder, NEW off \in [Nat -> Int], Layout(off), ~broken,
         NEW f \in Frames, ~Oversize(Len(Payload[f])),
         wire' = wire \o encode(f), sent' = Append(sent, f),
         UNCHANGED <<src, decoded, broken>>
  PROVE  \E o \in [Nat -> Int] : Layout(o)'
  <1>0. encode(f) \in Seq(Byte)
    BY EncodeFacts
  <1>1. PICK d \in Nat, n \in Nat : d = Len(decoded) /\ n = Len(sent) /\ d <= n
    BY DEF Typed, InOrder
  <1> d <= n
    BY <1>1
  <1>2. PICK e \in Nat : e = Len(encode(f))
    BY <1>0
  <1>3. PICK m \in Nat : m = Len(Stream)
    BY StreamFacts
  <1>4. /\ Len(Stream') = m + e
        /\ \A i \in 1 .. m : Stream'[i] = Stream[i]
        /\ \A j \in 1 .. e : Stream'[m + j] = encode(f)[j]
    BY <1>0, <1>2, <1>3, StreamGrows
  <1>5. /\ Len(sent') = n + 1 /\ sent'[n + 1] = f
        /\ \A k \in 1 .. n : sent'[k] = sent[k]
    BY <1>1 DEF Typed
  <1>6. /\ off[d + 1] = 0
        /\ \A k \in d + 1 .. n : off[k + 1] = off[k] + Len(encode(sent[k]))
        /\ \A j, k \in d + 1 .. n + 1 : j <= k => off[j] <= off[k]
        /\ \A k \in d + 1 .. n : \A j \in 1 .. Len(encode(sent[k])) :
             Stream[off[k] + j] = encode(sent[k])[j]
    BY <1>1 DEF Layout
  <1>7. off[n + 1] = m
    BY <1>1, <1>3 DEF Layout, Leftover
  <1>8. \A k \in d + 1 .. n : \A j \in 1 .. Len(encode(sent[k])) :
          off[k] + j \in 1 .. m
    BY <1>1, <1>3, InStream
  <1>9. PICK o \in [Nat -> Int] : /\ o[n + 2] = m + e
                                  /\ \A k \in 0 .. n + 1 : o[k] = off[k]
    <2> DEFINE p == [k \in Nat |-> IF k = n + 2 THEN m + e ELSE off[k]]
    <2>1. p \in [Nat -> Int]
      BY <1>1, <1>2, <1>3
    <2>2. p[n + 2] = m + e
      BY <1>1
    <2>3. \A k \in 0 .. n + 1 : p[k] = off[k]
      BY <1>1
    <2> HIDE DEF p
    <2> QED
      BY <2>1, <2>2, <2>3
  <1>10. o[d + 1] = 0
    <2>1. d + 1 \in 0 .. n + 1
      BY <1>1
    <2> QED
      BY <1>6, <1>9, <2>1
  <1>11. ASSUME NEW k \in d + 1 .. n + 1
         PROVE  /\ o[k + 1] = o[k] + Len(encode(sent'[k]))
                /\ \A j \in 1 .. Len(encode(sent'[k])) :
                     Stream'[o[k] + j] = encode(sent'[k])[j]
    <2>1. CASE k = n + 1
      <3>1. n + 1 \in 0 .. n + 1 /\ k + 1 = n + 2
        BY <2>1
      <3>2. o[k] = m /\ o[k + 1] = m + e
        BY <1>7, <1>9, <2>1, <3>1
      <3> QED
        BY <1>2, <1>4, <1>5, <2>1, <3>2
    <2>2. CASE k # n + 1
      <3>1. k \in d + 1 .. n /\ k \in 1 .. n /\ k \in 0 .. n + 1 /\ k + 1 \in 0 .. n + 1
        BY <2>2
      <3>2. sent'[k] = sent[k] /\ o[k] = off[k] /\ o[k + 1] = off[k + 1]
        BY <1>5, <1>9, <3>1
      <3> QED
        BY <1>4, <1>6, <1>8, <3>1, <3>2
    <2> QED
      BY <2>1, <2>2
  <1>12. ASSUME NEW j \in d + 1 .. n + 2, NEW k \in d + 1 .. n + 2, j <= k
         PROVE  o[j] <= o[k]
    <2>1. CASE k # n + 2
      <3>1. /\ j \in d + 1 .. n + 1 /\ k \in d + 1 .. n + 1
            /\ j \in 0 .. n + 1 /\ k \in 0 .. n + 1
        BY <1>12, <2>1
      <3> QED
        BY <1>6, <1>9, <1>12, <3>1
    <2>2. CASE k = n + 2 /\ j # n + 2
      <3>1. /\ j \in d + 1 .. n + 1 /\ j \in 0 .. n + 1 /\ j <= n + 1 /\ j \in Nat
            /\ n + 1 \in d + 1 .. n + 1
        BY <2>2
      <3>2. o[j] <= m /\ o[j] \in Int /\ o[k] = m + e
        BY <1>6, <1>7, <1>9, <2>2, <3>1
      <3> QED
        BY <3>2
    <2>3. CASE k = n + 2 /\ j = n + 2
      <3>1. o[j] = m + e /\ o[k] = m + e
        BY <1>9, <2>3
      <3> QED
        BY <3>1
    <2> QED
      BY <2>1, <2>2, <2>3
  <1>13. Leftover(o[n + 2])'
    BY <1>4, <1>9 DEF Leftover
  <1>14. Len(decoded') = d /\ Len(sent') = n + 1 /\ (n + 1) + 1 = n + 2
    BY <1>1, <1>5
  <1>15. Layout(o)'
    <2>1. /\ o[Len(decoded') + 1] = 0
          /\ \A k \in Len(decoded') + 1 .. Len(sent') :
               o[k + 1] = o[k] + Len(encode(sent'[k]))
      BY <1>10, <1>11, <1>14
    <2>2. \A j, k \in Len(decoded') + 1 .. Len(sent') + 1 : j <= k => o[j] <= o[k]
      BY <1>12, <1>14
    <2>3. \A k \in Len(decoded') + 1 .. Len(sent') :
            \A j \in 1 .. Len(encode(sent'[k])) :
              Stream'[o[k] + j] = encode(sent'[k])[j]
      BY <1>11, <1>14
    <2>4. Leftover(o[Len(sent) + 1])'
      BY <1>13, <1>14 DEF Leftover
    <2> QED
      BY <2>1, <2>2, <2>3, <2>4 DEF Layout
  <1> QED
    BY <1>9, <1>15

\* Foreign bytes, or a part of a frame, are written behind the frames.
LEMMA LayoutBreak ==
  ASSUME Typed, InOrder, NEW off \in [Nat -> Int], Layout(off), ~broken, broken',
         NEW bytes \in Seq(Byte), wire' = wire \o bytes,
         UNCHANGED <<src, sent, decoded>>,
         \/ bytes \in Foreign
         \/ \E f \in Frames :
              /\ ~Oversize(Len(Payload[f])) /\ Len(bytes) < Len(encode(f))
              /\ \A j \in 1 .. Len(bytes) : bytes[j] = encode(f)[j]
  PROVE  Layout(off)'
  <1>0. PICK n \in Nat : n = Len(sent)
    BY DEF Typed
  <1>1. /\ Len(Stream') = Len(Stream) + Len(bytes) /\ Len(Stream) \in Nat
        /\ \A i \in 1 .. Len(Stream) : Stream'[i] = Stream[i]
        /\ \A j \in 1 .. Len(bytes) : Stream'[Len(Stream) + j] = bytes[j]
    BY StreamGrows
  <1>2. off[n + 1] = Len(Stream)
    BY <1>0 DEF Layout, Leftover
  <1>3. \A k \in Len(decoded) + 1 .. n : \A j \in 1 .. Len(encode(sent[k])) :
          off[k] + j \in 1 .. Len(Stream)
    BY <1>0, InStream
  <1>4. Leftover(off[n + 1])'
    <2>1. CASE bytes \in Foreign
      BY <1>1, <1>2, <2>1 DEF Leftover
    <2>2. ASSUME NEW f \in Frames, ~Oversize(Len(Payload[f])),
                 Len(bytes) < Len(encode(f)),
                 \A j \in 1 .. Len(bytes) : bytes[j] = encode(f)[j]
          PROVE  Leftover(off[n + 1])'
      <3>1. Len(bytes) \in Nat
        OBVIOUS
      <3>2. Len(encode(f)) \in Nat
        <4>1. encode(f) \in Seq(Byte)
          BY <2>2, EncodeFacts
        <4> QED
          BY <4>1
      <3>3. /\ Len(Stream) <= Len(Stream') /\ Len(Stream') - Len(Stream) = Len(bytes)
            /\ Len(Stream') < Len(Stream) + Len(encode(f))
        BY <1>1, <2>2, <3>1, <3>2
      <3>4. \A j \in 1 .. Len(bytes) : Stream'[Len(Stream) + j] = encode(f)[j]
        BY <1>1, <2>2
      <3>5. \A j \in 1 .. Len(Stream') - off[n + 1] :
              Stream'[off[n + 1] + j] = encode(f)[j]
        BY <1>2, <3>3, <3>4
      <3>6. off[n + 1] <= Len(Stream') /\ Len(Stream') < off[n + 1] + Len(encode(f))
        BY <1>2, <3>3
      <3> QED
        BY <2>2, <3>5, <3>6 DEF Leftover
    <2> QED
      BY <2>1, <2>2
  <1>5. \A k \in Len(decoded) + 1 .. n : \A j \in 1 .. Len(encode(sent[k])) :
          Stream'[off[k] + j] = encode(sent[k])[j]
    BY <1>0, <1>1, <1>3 DEF Layout
  <1> QED
    BY <1>0, <1>4, <1>5 DEF Layout

\* The frame at the front is decoded: the others move up.
LEMMA LayoutShift ==
  ASSUME Typed, InOrder, NEW off \in [Nat -> Int], Layout(off),
         Len(decoded) < Len(sent), HasFrame,
         NEW g, g = sent[Len(decoded) + 1],
         decoded' = Append(decoded, g), src' = Rest,
         UNCHANGED <<wire, sent, broken>>
  PROVE  \E o \in [Nat -> Int] : Layout(o)'
  <1>1. PICK d \in Nat, n \in Nat : d = Len(decoded) /\ n = Len(sent) /\ d < n
    BY DEF Typed
  <1> d < n
    BY <1>1
  <1>2. /\ g \in Frames /\ ~Oversize(Len(Payload[g]))
        /\ off[d + 2] = Len(encode(g)) /\ Declared = Len(Payload[g])
    BY <1>1, FrontFrame, NextFrameDecoded
  <1>3. PICK c \in Nat : c = 4 + Declared /\ c = off[d + 2]
    <2>1. Len(encode(g)) = 4 + Declared /\ Len(encode(g)) \in Nat
      BY <1>2, EncodeFacts
    <2> QED
      BY <1>2, <2>1
  <1>4. PICK m \in Nat : m = Len(Stream)
    BY StreamFacts
  <1>5. /\ Len(Stream') = m - c
        /\ \A i \in 1 .. m - c : Stream'[i] = Stream[c + i]
    BY <1>3, <1>4, StreamShrinks
  <1>6. Len(decoded') = d + 1
    BY <1>1, <1>2 DEF Typed
  <1>7. /\ \A k \in d + 1 .. n : off[k + 1] = off[k] + Len(encode(sent[k]))
        /\ \A j, k \in d + 1 .. n + 1 : j <= k => off[j] <= off[k]
        /\ \A k \in d + 1 .. n : \A j \in 1 .. Len(encode(sent[k])) :
             Stream[off[k] + j] = encode(sent[k])[j]
        /\ Leftover(off[n + 1])
    BY <1>1 DEF Layout
  <1>8. /\ \A k \in d + 1 .. n :
             /\ Len(encode(sent[k])) \in Nat
             /\ \A j \in 1 .. Len(encode(sent[k])) : off[k] + j \in 1 .. m
        /\ off[n + 1] <= m /\ off[n + 1] \in Nat
    BY <1>1, <1>4, InStream
  <1>9. PICK o \in [Nat -> Int] : \A k \in Nat : o[k] = off[k] - c
    <2> DEFINE p == [k \in Nat |-> off[k] - c]
    <2>1. p \in [Nat -> Int] /\ \A k \in Nat : p[k] = off[k] - c
      OBVIOUS
    <2> HIDE DEF p
    <2> QED
      BY <2>1
  <1>10. \A k \in d + 2 .. n + 1 : c <= off[k]
    <2> TAKE k \in d + 2 .. n + 1
    <2>1. d + 2 \in d + 1 .. n + 1 /\ k \in d + 1 .. n + 1 /\ d + 2 <= k
      OBVIOUS
    <2> QED
      BY <1>3, <1>7, <2>1
  <1>11. o[(d + 1) + 1] = 0
    <2>1. o[d + 2] = c - c
      BY <1>3, <1>9
    <2>2. (d + 1) + 1 = d + 2 /\ c - c = 0
      OBVIOUS
    <2> QED
      BY <2>1, <2>2
  <1>12. ASSUME NEW k \in (d + 1) + 1 .. n
         PROVE  /\ o[k + 1] = o[k] + Len(encode(sent[k]))
                /\ \A j \in 1 .. Len(encode(sent[k])) :
                     Stream'[o[k] + j] = encode(sent[k])[j]
    <2>1. /\ k \in d + 1 .. n /\ k \in d + 2 .. n + 1 /\ k \in Nat /\ k + 1 \in Nat
      OBVIOUS
    <2>2. PICK e \in Nat : e = Len(encode(sent[k]))
      BY <1>8, <2>1
    <2>3. PICK x \in Int : x = off[k] /\ c <= x
      BY <1>10, <2>1
    <2>4. off[k + 1] = x + e /\ o[k] = x - c /\ o[k + 1] = off[k + 1] - c
      BY <1>7, <1>9, <2>1, <2>2, <2>3
    <2>5. ASSUME NEW j \in 1 .. e PROVE Stream'[o[k] + j] = encode(sent[k])[j]
      <3>1. x + j \in 1 .. m /\ Stream[x + j] = encode(sent[k])[j]
        BY <1>7, <1>8, <2>1, <2>2, <2>3
      <3>2. (x - c) + j \in 1 .. m - c /\ c + ((x - c) + j) = x + j
        <4>1. c <= x /\ x + j \in 1 .. m
          BY <2>3, <3>1
        <4> QED
          BY <4>1
      <3>3. Stream'[(x - c) + j] = Stream[x + j]
        BY <1>5, <3>2
      <3> QED
        BY <2>4, <3>1, <3>3
    <2>6. o[k + 1] = o[k] + e
      BY <2>4
    <2> QED
      BY <2>2, <2>5, <2>6
  <1>13. ASSUME NEW j \in (d + 1) + 1 .. n + 1, NEW k \in (d + 1) + 1 .. n + 1, j <= k
         PROVE  o[j] <= o[k]
    <2>1. j \in d + 1 .. n + 1 /\ k \in d + 1 .. n + 1 /\ j \in Nat /\ k \in Nat
      OBVIOUS
    <2>2. off[j] <= off[k] /\ off[j] \in Int /\ off[k] \in Int
      BY <1>7, <1>13, <2>1
    <2>3. o[j] = off[j] - c /\ o[k] = off[k] - c
      BY <1>9, <2>1
    <2> QED
      BY <2>2, <2>3
  <1>14. Leftover(o[n + 1])'
    <2>1. PICK x \in Nat : x = off[n + 1] /\ x <= m
      BY <1>8
    <2>2. n + 1 \in d + 2 .. n + 1 /\ n + 1 \in Nat
      OBVIOUS
    <2>3. c <= x /\ o[n + 1] = x - c
      BY <1>9, <1>10, <2>1, <2>2
    <2>4. \A j \in 1 .. m - x : Stream'[(x - c) + j] = Stream[x + j]
      <3> TAKE j \in 1 .. m - x
      <3>1. (x - c) + j \in 1 .. m - c /\ c + ((x - c) + j) = x + j
        <4>1. c <= x
          BY <2>3
        <4> QED
          BY <4>1
      <3> QED
        BY <1>5, <3>1
    <2>5. CASE ~broken /\ Len(Stream) = x
      <3>1. Len(Stream') = x - c
        BY <1>4, <1>5, <2>5
      <3> QED
        BY <2>3, <2>5, <3>1 DEF Leftover
    <2>6. ASSUME NEW bytes \in Foreign, broken, m = x + Len(bytes),
                 \A j \in 1 .. Len(bytes) : Stream[x + j] = bytes[j]
          PROVE  Leftover(o[n + 1])'
      <3>1. PICK l \in Nat : l = Len(bytes)
        <4>1. bytes \in Seq(Byte)
          BY CodecAssumption
        <4> QED
          BY <4>1
      <3>2. m = x + l
        BY <2>6, <3>1
      <3>3. m - c = (x - c) + l /\ m - x = l
        BY <3>2
      <3>4. /\ Len(Stream') = (x - c) + Len(bytes)
            /\ \A j \in 1 .. Len(bytes) : Stream'[(x - c) + j] = bytes[j]
        BY <1>5, <2>4, <2>6, <3>1, <3>3
      <3> QED
        BY <2>3, <2>6, <3>4 DEF Leftover
    <2>7. ASSUME NEW f \in Frames, broken, ~Oversize(Len(Payload[f])),
                 m < x + Len(encode(f)),
                 \A j \in 1 .. m - x : Stream[x + j] = encode(f)[j]
          PROVE  Leftover(o[n + 1])'
      <3>1. PICK l \in Nat : l = Len(encode(f))
        <4>1. encode(f) \in Seq(Byte)
          BY <2>7, EncodeFacts
        <4> QED
          BY <4>1
      <3>2. m < x + l
        BY <2>7, <3>1
      <3>3. x - c <= m - c /\ m - c < (x - c) + l /\ (m - c) - (x - c) = m - x
        <4>1. x <= m
          BY <2>1
        <4> QED
          BY <3>2, <4>1
      <3>4. /\ x - c <= Len(Stream') /\ Len(Stream') < (x - c) + Len(encode(f))
            /\ \A j \in 1 .. Len(Stream') - (x - c) :
                 Stream'[(x - c) + j] = encode(f)[j]
        BY <1>5, <2>4, <2>7, <3>1, <3>3
      <3> QED
        BY <2>3, <2>7, <3>4 DEF Leftover
    <2> QED
      BY <1>4, <1>7, <2>1, <2>5, <2>6, <2>7 DEF Leftover
  <1>15. Layout(o)'
    <2>0. Len(decoded') + 1 = (d + 1) + 1 /\ Len(sent') = n /\ sent' = sent
      BY <1>1, <1>6
    <2>1. /\ o[Len(decoded') + 1] = 0
          /\ \A k \in Len(decoded') + 1 .. Len(sent') :
               o[k + 1] = o[k] + Len(encode(sent'[k]))
      BY <1>11, <1>12, <2>0
    <2>2. \A j, k \in Len(decoded') + 1 .. Len(sent') + 1 : j <= k => o[j] <= o[k]
      BY <1>13, <2>0
    <2>3. \A k \in Len(decoded') + 1 .. Len(sent') :
            \A j \in 1 .. Len(encode(sent'[k])) :
              Stream'[o[k] + j] = encode(sent'[k])[j]
      <3>1. \A k \in (d + 1) + 1 .. n : \A j \in 1 .. Len(encode(sent[k])) :
              Stream'[o[k] + j] = encode(sent[k])[j]
        BY <1>12
      <3> TAKE k \in Len(decoded') + 1 .. Len(sent')
      <3>2. k \in (d + 1) + 1 .. n /\ sent'[k] = sent[k]
        BY <2>0
      <3>3. \A j \in 1 .. Len(encode(sent[k])) :
              Stream'[o[k] + j] = encode(sent[k])[j]
        BY <3>1, <3>2
      <3> QED
        BY <3>2, <3>3
    <2>4. Leftover(o[Len(sent) + 1])'
      BY <1>14, <2>0 DEF Leftover
    <2> QED
      BY <2>1, <2>2, <2>3, <2>4 DEF Layout
  <1> QED
    BY <1>9, <1>15

-----------------------------------------------------------------------------
(* Every step keeps the invariant.                                         *)

\* Steps of the sender: what is written.
LEMMA SenderStep ==
  ASSUME CodecInv,
         \/ \E f \in Frames : Put(f)
         \/ \E bytes \in Foreign : PutForeign(bytes)
         \/ \E f \in Frames, n \in 1 .. 3 + MAX_FRAME_BYTES : PutPart(f, n)
         \/ Close
  PROVE  Typed' /\ AtEof' /\ InOrder' /\ StreamLaid'
  <1>0. Typed /\ AtEof /\ InOrder /\ StreamLaid
    BY DEF CodecInv
  <1>1. UNCHANGED receiver
    BY DEF Put, PutForeign, PutPart, Close
  <1>2. UNCHANGED <<src, reader, eof, claimed, decoded>>
    BY <1>1 DEF receiver
  <1>3. ASSUME NEW f \in Frames, Put(f), ~Oversize(Len(Payload[f]))
        PROVE  Typed' /\ AtEof' /\ InOrder' /\ StreamLaid'
    <2>1. /\ wire' = wire \o encode(f) /\ sent' = Append(sent, f)
          /\ ~broken /\ ~closed /\ UNCHANGED <<closed, broken>>
      BY <1>3 DEF Put
    <2>2. encode(f) \in Seq(Byte)
      BY <1>3, EncodeFacts
    <2>3. wire' \in Seq(Byte)
      BY <1>0, <1>2, <2>1, <2>2, StreamGrows
    <2>4. /\ sent \in Seq(Frames) /\ Len(sent) \in Nat
          /\ sent' \in Seq(Frames) /\ Len(sent') = Len(sent) + 1
          /\ sent'[Len(sent) + 1] = f /\ \A i \in 1 .. Len(sent) : sent'[i] = sent[i]
      BY <1>0, <2>1 DEF Typed
    <2>5. \A i \in 1 .. Len(sent') : ~Oversize(Len(Payload[sent'[i]]))
      <3> TAKE i \in 1 .. Len(sent')
      <3>1. i \in 1 .. Len(sent) \/ i = Len(sent) + 1
        BY <2>4
      <3> QED
        BY <1>0, <1>3, <2>4, <3>1 DEF Typed
    <2>6. Typed'
      BY <1>0, <1>2, <2>3, <2>4, <2>5 DEF Typed
    <2>7. AtEof'
      BY <1>0, <1>2, <2>1 DEF AtEof
    <2>8. InOrder'
      <3>1. Len(decoded) \in Nat /\ Len(decoded) <= Len(sent)
        BY <1>0 DEF Typed, InOrder
      <3>2. Len(decoded) <= Len(sent')
            /\ \A i \in 1 .. Len(decoded) : i \in 1 .. Len(sent)
        BY <2>4, <3>1
      <3> QED
        BY <1>0, <1>2, <2>4, <3>2 DEF InOrder
    <2>9. StreamLaid'
      <3> SUFFICES ASSUME Live PROVE \E o \in [Nat -> Int] : Layout(o)'
        BY <1>2 DEF StreamLaid, Live
      <3>1. PICK off \in [Nat -> Int] : Layout(off)
        BY <1>0 DEF StreamLaid
      <3> QED
        BY <1>0, <1>2, <1>3, <2>1, <3>1, LayoutPut
    <2> QED
      BY <2>6, <2>7, <2>8, <2>9
  <1>4. ASSUME UNCHANGED <<wire, sent, broken>>, closed => closed'
        PROVE  Typed' /\ AtEof' /\ InOrder' /\ StreamLaid'
    <2>1. Typed' /\ AtEof' /\ InOrder'
      BY <1>0, <1>2, <1>4 DEF Typed, AtEof, InOrder
    <2>2. Stream' = Stream
      BY <1>2, <1>4 DEF Stream
    <2>3. ASSUME NEW off \in [Nat -> Int], Layout(off) PROVE Layout(off)'
      BY <1>2, <1>4, <2>2, <2>3, LayoutSame
    <2>4. StreamLaid'
      BY <1>0, <1>2, <2>3 DEF StreamLaid, Live
    <2> QED
      BY <2>1, <2>4
  <1>5. ASSUME NEW bytes \in Seq(Byte), wire' = wire \o bytes, ~broken, broken',
               ~closed, sent' = sent,
               \/ bytes \in Foreign
               \/ \E f \in Frames :
                    /\ ~Oversize(Len(Payload[f])) /\ Len(bytes) < Len(encode(f))
                    /\ \A j \in 1 .. Len(bytes) : bytes[j] = encode(f)[j]
        PROVE  Typed' /\ AtEof' /\ InOrder' /\ StreamLaid'
    <2>1. wire' \in Seq(Byte)
      BY <1>0, <1>2, <1>5, StreamGrows
    <2>2. Typed' /\ AtEof' /\ InOrder'
      BY <1>0, <1>2, <1>5, <2>1 DEF Typed, AtEof, InOrder
    <2>3. ASSUME NEW off \in [Nat -> Int], Layout(off) PROVE Layout(off)'
      BY <1>0, <1>2, <1>5, <2>3, LayoutBreak
    <2>4. StreamLaid'
      BY <1>0, <1>2, <2>3 DEF StreamLaid, Live
    <2> QED
      BY <2>2, <2>4
  <1>6. ASSUME NEW bytes \in Foreign, PutForeign(bytes)
        PROVE  Typed' /\ AtEof' /\ InOrder' /\ StreamLaid'
    BY <1>5, <1>6, CodecAssumption DEF PutForeign
  <1>7. ASSUME NEW f \in Frames, NEW n \in 1 .. 3 + MAX_FRAME_BYTES, PutPart(f, n)
        PROVE  Typed' /\ AtEof' /\ InOrder' /\ StreamLaid'
    <2>1. /\ ~Oversize(Len(Payload[f])) /\ n < Len(encode(f)) /\ ~broken /\ broken'
          /\ ~closed /\ sent' = sent /\ wire' = wire \o SubSeq(encode(f), 1, n)
      BY <1>7 DEF PutPart
    <2>2. encode(f) \in Seq(Byte) /\ Len(encode(f)) \in Nat /\ n \in Nat
      <3>1. encode(f) \in Seq(Byte)
        BY <2>1, EncodeFacts
      <3> QED
        BY <3>1, CodecAssumption
    <2>3. PICK bytes \in Seq(Byte) :
            /\ bytes = SubSeq(encode(f), 1, n) /\ Len(bytes) = n
            /\ \A j \in 1 .. n : bytes[j] = encode(f)[j]
      <3>1. n \in Nat /\ n <= Len(encode(f))
        BY <2>1, <2>2
      <3> QED
        BY <2>2, <3>1, FirstBytes
    <2> QED
      BY <1>5, <2>1, <2>3
  <1>8. ASSUME NEW f \in Frames, Put(f), Oversize(Len(Payload[f]))
        PROVE  Typed' /\ AtEof' /\ InOrder' /\ StreamLaid'
    BY <1>4, <1>8 DEF Put
  <1>9. ASSUME Close PROVE Typed' /\ AtEof' /\ InOrder' /\ StreamLaid'
    BY <1>4, <1>9 DEF Close
  <1> QED
    BY <1>3, <1>6, <1>7, <1>8, <1>9

\* decode returns the next of the frames sent.
LEMMA DecodesNext ==
  ASSUME CodecInv, DecodeItem
  PROVE  /\ Len(decoded) < Len(sent)
         /\ decoded' = Append(decoded, sent[Len(decoded) + 1])
  <1>0. Typed /\ InOrder /\ HasFrame /\ ~DeclaredOversize
    BY DEF CodecInv, DecodeItem
  <1>1. PICK f \in Parsed : decoded' = Append(decoded, f)
    BY DEF DecodeItem
  <1>2. PICK off \in [Nat -> Int] : Layout(off)
    BY DEF CodecInv, StreamLaid, Live, DecodeItem
  <1>3. Len(decoded) # Len(sent)
    BY <1>0, <1>1, <1>2, NoStrayFrame
  <1>4. Len(decoded) < Len(sent)
    BY <1>0, <1>3 DEF Typed, InOrder
  <1>5. f = sent[Len(decoded) + 1]
    BY <1>0, <1>1, <1>2, <1>4, NextFrameDecoded
  <1> QED
    BY <1>1, <1>4, <1>5

\* Steps of the receiver: what is taken in and decoded.
LEMMA ReceiverStep ==
  ASSUME CodecInv,
         \/ Decode \/ ReadEof \/ ReadFails \/ UNCHANGED vars
         \/ \E n \in 1 .. Len(wire) : Read(n)
  PROVE  Typed' /\ AtEof' /\ InOrder' /\ StreamLaid'
  <1>0. Typed /\ AtEof /\ InOrder /\ StreamLaid
    BY DEF CodecInv
  <1>1. ASSUME UNCHANGED <<sent, broken, decoded>>, Stream' = Stream,
               wire' \in Seq(Byte), src' \in Seq(Byte),
               reader' \in {"reading", "framing", "ended", "failed"}, Live' => Live,
               eof' => wire' = <<>> /\ closed', claimed' \in Nat
        PROVE  Typed' /\ AtEof' /\ InOrder' /\ StreamLaid'
    <2>1. Typed' /\ AtEof' /\ InOrder'
      BY <1>0, <1>1 DEF Typed, AtEof, InOrder
    <2>2. ASSUME NEW off \in [Nat -> Int], Layout(off) PROVE Layout(off)'
      BY <1>1, <2>2, LayoutSame
    <2>3. StreamLaid'
      BY <1>0, <1>1, <2>2 DEF StreamLaid
    <2> QED
      BY <2>1, <2>3
  <1>2. ASSUME ~Live', UNCHANGED <<sent, decoded, claimed>>, reader' = "failed",
               wire' \in Seq(Byte), src' \in Seq(Byte),
               eof' => wire' = <<>> /\ closed'
        PROVE  Typed' /\ AtEof' /\ InOrder' /\ StreamLaid'
    BY <1>0, <1>2 DEF Typed, AtEof, InOrder, StreamLaid
  <1>3. ASSUME NEW n \in 1 .. Len(wire), Read(n)
        PROVE  Typed' /\ AtEof' /\ InOrder' /\ StreamLaid'
    <2>1. Stream' = Stream /\ src' \in Seq(Byte) /\ wire' \in Seq(Byte)
      BY <1>0, <1>3, ReadKeepsStream
    <2>2. /\ reader = "reading" /\ reader' = "framing" /\ claimed \in Nat
          /\ UNCHANGED <<closed, broken, sent, eof, claimed, decoded>>
      BY <1>0, <1>3 DEF Read, Typed
    <2>3. ~eof
      <3>1. wire # <<>>
        BY <1>0, <1>3 DEF Typed
      <3> QED
        BY <1>0, <3>1 DEF AtEof
    <2> QED
      BY <1>1, <2>1, <2>2, <2>3 DEF Live
  <1>4. ASSUME ReadEof PROVE Typed' /\ AtEof' /\ InOrder' /\ StreamLaid'
    <2>1. /\ reader = "reading" /\ reader' = "framing" /\ wire = <<>> /\ closed
          /\ UNCHANGED <<wire, closed, broken, sent, src, claimed, decoded>>
      BY <1>4 DEF ReadEof, sender
    <2>2. wire \in Seq(Byte) /\ src \in Seq(Byte) /\ claimed \in Nat
      BY <1>0 DEF Typed
    <2>3. Stream' = Stream
      BY <2>1 DEF Stream
    <2> QED
      BY <1>1, <2>1, <2>2, <2>3 DEF Live
  <1>5. ASSUME ReadFails PROVE Typed' /\ AtEof' /\ InOrder' /\ StreamLaid'
    <2>1. src \in Seq(Byte) /\ <<>> \in Seq(Byte)
      BY <1>0 DEF Typed
    <2> QED
      BY <1>2, <1>5, <2>1 DEF ReadFails, Live
  <1>6. ASSUME DecodeItem PROVE Typed' /\ AtEof' /\ InOrder' /\ StreamLaid'
    <2>1. /\ HasFrame /\ src' = Rest /\ reader = "framing"
          /\ UNCHANGED <<wire, closed, broken, sent, reader, eof, claimed>>
      BY <1>6 DEF DecodeItem, sender
    <2>2. PICK g : g = sent[Len(decoded) + 1]
      OBVIOUS
    <2>3. Len(decoded) < Len(sent) /\ decoded' = Append(decoded, g)
      BY <1>6, <2>2, DecodesNext
    <2>4. src' \in Seq(Byte)
      BY <1>0, <2>1, StreamShrinks
    <2>5. /\ g \in Frames /\ Len(decoded) \in Nat /\ Len(sent) \in Nat
          /\ decoded \in Seq(Frames)
      BY <1>0, <2>2, <2>3 DEF Typed
    <2>6. /\ decoded' \in Seq(Frames) /\ Len(decoded') = Len(decoded) + 1
          /\ decoded'[Len(decoded) + 1] = g
          /\ \A i \in 1 .. Len(decoded) : decoded'[i] = decoded[i]
      BY <2>3, <2>5
    <2>7. Typed'
      BY <1>0, <2>1, <2>4, <2>6 DEF Typed
    <2>8. AtEof'
      BY <1>0, <2>1 DEF AtEof
    <2>9. InOrder'
      <3>1. Len(decoded') <= Len(sent')
        BY <2>1, <2>3, <2>5, <2>6
      <3>2. ASSUME NEW i \in 1 .. Len(decoded') PROVE decoded'[i] = sent'[i]
        <4>1. i \in 1 .. Len(decoded) \/ i = Len(decoded) + 1
          BY <2>5, <2>6
        <4> QED
          BY <1>0, <2>1, <2>2, <2>6, <4>1 DEF InOrder
      <3> QED
        BY <3>1, <3>2 DEF InOrder
    <2>10. StreamLaid'
      <3>1. PICK off \in [Nat -> Int] : Layout(off)
        BY <1>0, <2>1 DEF StreamLaid, Live
      <3>2. \E o \in [Nat -> Int] : Layout(o)'
        BY <1>0, <2>1, <2>2, <2>3, <3>1, LayoutShift
      <3> QED
        BY <3>2 DEF StreamLaid
    <2> QED
      BY <2>7, <2>8, <2>9, <2>10
  <1>7. ASSUME DecodeFails PROVE Typed' /\ AtEof' /\ InOrder' /\ StreamLaid'
    <2>1. /\ reader' = "failed"
          /\ DeclaredOversize \/ HasFrame
          /\ src' = IF DeclaredOversize THEN src ELSE Rest
          /\ UNCHANGED <<wire, closed, sent, eof, claimed, decoded>>
      BY <1>7 DEF DecodeFails, sender
    <2>2. wire' \in Seq(Byte) /\ (eof' => wire' = <<>> /\ closed') /\ ~Live'
      BY <1>0, <2>1 DEF Typed, AtEof, Live
    <2>3. src' \in Seq(Byte)
      <3>1. CASE DeclaredOversize
        BY <1>0, <2>1, <3>1 DEF Typed
      <3>2. CASE ~DeclaredOversize
        <4>1. HasFrame /\ src' = Rest
          BY <2>1, <3>2
        <4> QED
          BY <1>0, <2>1, <4>1, StreamShrinks
      <3> QED
        BY <3>1, <3>2
    <2> QED
      BY <1>2, <2>1, <2>2, <2>3
  <1>8. ASSUME DecodeMore PROVE Typed' /\ AtEof' /\ InOrder' /\ StreamLaid'
    <2>1. /\ reader = "framing"
          /\ reader' \in {"reading", "ended", "failed"}
          /\ UNCHANGED <<wire, closed, broken, sent, src, eof, decoded>>
      BY <1>8 DEF DecodeMore, sender
    <2>2. claimed' \in Nat
      <3>1. claimed \in Nat /\ src \in Seq(Byte)
        BY <1>0 DEF Typed
      <3>2. HasHeader => Declared \in Nat
        BY <3>1, HeaderNat DEF HasHeader, Declared
      <3>3. HasHeader => 4 + Declared \in Nat
        BY <3>2
      <3>4. claimed' = claimed \/ (HasHeader /\ claimed' = 4 + Declared)
        BY <1>8 DEF DecodeMore
      <3> QED
        BY <3>1, <3>3, <3>4
    <2>3. Stream' = Stream /\ wire' \in Seq(Byte) /\ src' \in Seq(Byte)
          /\ (eof' => wire' = <<>> /\ closed') /\ Live
      BY <1>0, <2>1 DEF Stream, Typed, AtEof, Live
    <2> QED
      BY <1>1, <2>1, <2>2, <2>3
  <1>9. ASSUME UNCHANGED vars PROVE Typed' /\ AtEof' /\ InOrder' /\ StreamLaid'
    <2>1. UNCHANGED <<wire, closed, broken, sent, src, reader, eof, claimed, decoded>>
      BY <1>9 DEF vars, sender, receiver
    <2>2. Stream' = Stream /\ (Live' => Live)
      BY <2>1 DEF Stream, Live
    <2>3. wire \in Seq(Byte) /\ src \in Seq(Byte) /\ claimed \in Nat
          /\ reader \in {"reading", "framing", "ended", "failed"}
          /\ (eof => wire = <<>> /\ closed)
      BY <1>0 DEF Typed, AtEof
    <2> QED
      BY <1>1, <2>1, <2>2, <2>3
  <1> QED
    BY <1>3, <1>4, <1>5, <1>6, <1>7, <1>8, <1>9 DEF Decode

\* The bytes waited for are those of the next frame.
LEMMA HeldBackStep ==
  ASSUME CodecInv, [Next]_vars
  PROVE  NothingHeldBack'
  <1>0. Typed /\ InOrder /\ StreamLaid /\ NothingHeldBack
    BY DEF CodecInv
  <1>1. PICK d \in Nat, n \in Nat : d = Len(decoded) /\ n = Len(sent) /\ d <= n
    BY <1>0 DEF Typed, InOrder
  <1>2. ASSUME UNCHANGED <<src, reader, decoded, sent>> PROVE NothingHeldBack'
    BY <1>0, <1>2 DEF NothingHeldBack
  <1>3. ASSUME reader' # "reading" PROVE NothingHeldBack'
    BY <1>3 DEF NothingHeldBack
  <1>4. ASSUME NEW f \in Frames, Put(f) PROVE NothingHeldBack'
    <2>1. ~broken /\ UNCHANGED <<src, reader, decoded>>
      BY <1>4 DEF Put, receiver
    <2>2. CASE UNCHANGED sent
      BY <1>2, <2>1, <2>2
    <2>3. CASE sent' = Append(sent, f) /\ ~Oversize(Len(Payload[f]))
      <3> SUFFICES ASSUME reader = "reading"
                   PROVE  Len(src) < Len(encode(sent'[d + 1]))
        BY <1>1, <2>1 DEF NothingHeldBack
      <3>1. /\ sent'[n + 1] = f /\ \A i \in 1 .. n : sent'[i] = sent[i]
        BY <1>0, <1>1, <2>3 DEF Typed
      <3>2. CASE d < n
        <4>1. d + 1 \in 1 .. n
          BY <3>2
        <4>2. Len(src) < Len(encode(sent[d + 1]))
          BY <1>0, <1>1, <3>2 DEF NothingHeldBack
        <4> QED
          BY <3>1, <4>1, <4>2
      <3>3. CASE d = n
        <4>1. PICK off \in [Nat -> Int] : Layout(off)
          BY <1>0 DEF StreamLaid, Live
        <4>2. Len(Stream) = 0
          BY <1>1, <2>1, <3>3, <4>1 DEF Layout, Leftover
        <4>3. Len(src) = 0
          BY <1>0, <4>2, StreamFacts
        <4>4. Len(encode(f)) = 4 + Len(Payload[f]) /\ Len(Payload[f]) \in Nat
          BY <2>3, EncodeFacts
        <4>5. \A m \in Nat : 0 < 4 + m
          OBVIOUS
        <4> QED
          BY <3>1, <3>3, <4>3, <4>4, <4>5
      <3> QED
        BY <1>1, <3>2, <3>3
    <2> QED
      BY <1>4, <2>2, <2>3 DEF Put
  <1>5. ASSUME DecodeMore PROVE NothingHeldBack'
    <2>1. ~HasFrame /\ reader = "framing" /\ UNCHANGED <<src, sent, decoded>>
      BY <1>5 DEF DecodeMore, sender
    <2>2. PICK off \in [Nat -> Int] : Layout(off)
      BY <1>0, <2>1 DEF StreamLaid, Live
    <2> SUFFICES ASSUME Len(decoded) < Len(sent)
                 PROVE  Len(src) < Len(encode(sent[Len(decoded) + 1]))
      BY <2>1 DEF NothingHeldBack
    <2>3. PICK g : g = sent[Len(decoded) + 1]
      OBVIOUS
    <2>4. /\ g \in Frames /\ ~Oversize(Len(Payload[g]))
          /\ \A j \in 1 .. Len(encode(g)) : Stream[j] = encode(g)[j]
      BY <1>0, <2>2, <2>3, FrontFrame
    <2>5. PICK l \in Nat : l = Len(Payload[g]) /\ Len(encode(g)) = 4 + l
      BY <2>4, EncodeFacts
    <2>6. PICK m \in Nat : m = Len(src)
      BY <1>0, StreamFacts
    <2>7. ASSUME m >= 4 + l PROVE FALSE
      <3>1. m >= 4 /\ \A j \in 1 .. 4 : j \in 1 .. 4 + l
        BY <2>7
      <3>2. HasHeader
        BY <2>6, <3>1 DEF HasHeader
      <3>3. Declared = l
        BY <1>0, <2>4, <2>5, <3>1, <3>2, HeaderDeclares
      <3>4. HasFrame
        BY <2>6, <2>7, <3>2, <3>3 DEF HasFrame
      <3> QED
        BY <2>1, <3>4
    <2>8. m < 4 + l
      BY <2>7
    <2> QED
      BY <2>3, <2>5, <2>6, <2>8
  <1>6. CASE (\E bytes \in Foreign : PutForeign(bytes)) \/ Close
             \/ (\E f \in Frames, k \in 1 .. 3 + MAX_FRAME_BYTES : PutPart(f, k))
             \/ Done \/ UNCHANGED vars
    BY <1>2, <1>6
    DEF PutForeign, Close, PutPart, Done, vars, sender, receiver
  <1>7. CASE ReadEof \/ (\E k \in 1 .. Len(wire) : Read(k)) \/ ReadFails
             \/ DecodeItem \/ DecodeFails
    BY <1>3, <1>7 DEF ReadEof, Read, ReadFails, DecodeItem, DecodeFails
  <1> QED
    BY <1>4, <1>5, <1>6, <1>7 DEF Next, Receive, Decode

\* The room asked for and the bytes held are those of one frame at most.
LEMMA BoundedStep ==
  ASSUME CodecInv, [Next]_vars
  PROVE  BufferBounded'
  <1>0. Typed /\ BufferBounded
    BY DEF CodecInv
  <1>1. ASSUME UNCHANGED claimed, reader' = "reading" => UNCHANGED <<src, reader>>
        PROVE  BufferBounded'
    BY <1>0, <1>1 DEF BufferBounded
  <1>2. ASSUME DecodeMore PROVE BufferBounded'
    <2>1. /\ ~HasFrame /\ ~DeclaredOversize /\ UNCHANGED src
          /\ claimed' = IF HasHeader /\ 4 + Declared > claimed
                          THEN 4 + Declared ELSE claimed
      BY <1>2 DEF DecodeMore
    <2>2. src \in Seq(Byte) /\ Len(src) \in Nat /\ MAX_FRAME_BYTES \in Nat
      BY <1>0, CodecAssumption DEF Typed
    <2>3. claimed <= 4 + MAX_FRAME_BYTES
      BY <1>0 DEF BufferBounded
    <2>4. CASE ~HasHeader
      <3>1. Len(src) < 4
        BY <2>2, <2>4 DEF HasHeader
      <3>2. Len(src) < 4 + MAX_FRAME_BYTES
        BY <2>2, <3>1
      <3> QED
        BY <2>1, <2>3, <2>4, <3>2 DEF BufferBounded
    <2>5. CASE HasHeader
      <3>1. Declared \in Nat
        BY <2>2, <2>5, HeaderNat DEF HasHeader, Declared
      <3>2. Declared <= MAX_FRAME_BYTES
        BY <2>1, <2>2, <2>5, <3>1 DEF DeclaredOversize, Oversize
      <3>3. Len(src) < 4 + Declared
        BY <2>1, <2>2, <2>5, <3>1 DEF HasFrame
      <3>4. Len(src) < 4 + MAX_FRAME_BYTES /\ 4 + Declared <= 4 + MAX_FRAME_BYTES
        BY <2>2, <3>1, <3>2, <3>3
      <3>5. claimed' <= 4 + MAX_FRAME_BYTES
        BY <2>1, <2>3, <3>4
      <3> QED
        BY <2>1, <3>4, <3>5 DEF BufferBounded
    <2> QED
      BY <2>4, <2>5
  <1>3. CASE (\E f \in Frames : Put(f)) \/ Close
             \/ (\E bytes \in Foreign : PutForeign(bytes))
             \/ (\E f \in Frames, k \in 1 .. 3 + MAX_FRAME_BYTES : PutPart(f, k))
             \/ Done \/ UNCHANGED vars
    BY <1>1, <1>3
    DEF Put, PutForeign, Close, PutPart, Done, vars, receiver
  <1>4. CASE ReadEof \/ (\E k \in 1 .. Len(wire) : Read(k)) \/ ReadFails
             \/ DecodeItem \/ DecodeFails
    BY <1>1, <1>4 DEF ReadEof, Read, ReadFails, DecodeItem, DecodeFails
  <1> QED
    BY <1>2, <1>3, <1>4 DEF Next, Receive, Decode

\* CodecInv holds initially.
LEMMA CodecInit ==
  ASSUME Init
  PROVE  CodecInv
  <1>1. Len(sent) = 0 /\ Len(decoded) = 0 /\ Len(src) = 0
        /\ Stream = <<>> /\ Len(Stream) = 0
    BY DEF Init, Stream
  <1>2. Typed /\ AtEof /\ InOrder /\ NothingHeldBack
    BY <1>1 DEF Init, Typed, AtEof, InOrder, NothingHeldBack
  <1>3. BufferBounded
    BY <1>1, CodecAssumption DEF Init, BufferBounded
  <1>4. PICK off \in [Nat -> Int] : \A k \in Nat : off[k] = 0
    <2>1. [k \in Nat |-> 0] \in [Nat -> Int]
          /\ \A k \in Nat : [i \in Nat |-> 0][k] = 0
      OBVIOUS
    <2> QED
      BY <2>1
  <1>5. off[1] = 0 /\ Leftover(0)
    BY <1>1, <1>4 DEF Init, Leftover
  <1>6. Layout(off)
    <2>1. \A k \in Len(decoded) + 1 .. Len(sent) : FALSE
      BY <1>1
    <2>2. \A k \in Len(decoded) + 1 .. Len(sent) + 1 : k = 1
      BY <1>1
    <2>3. off[Len(decoded) + 1] = 0 /\ off[Len(sent) + 1] = 0
      BY <1>1, <1>5
    <2>4. \A j, k \in Len(decoded) + 1 .. Len(sent) + 1 :
            j <= k => off[j] <= off[k]
      BY <1>5, <2>2
    <2> QED
      BY <1>5, <2>1, <2>3, <2>4 DEF Layout
  <1> QED
    BY <1>2, <1>3, <1>6 DEF CodecInv, StreamLaid

\* CodecInv is inductive.
LEMMA CodecNext ==
  ASSUME CodecInv, [Next]_vars
  PROVE  CodecInv'
  <1>1. Typed' /\ AtEof' /\ InOrder' /\ StreamLaid'
    BY SenderStep, ReceiverStep DEF Next, Receive, Done
  <1> QED
    BY <1>1, HeldBackStep, BoundedStep DEF CodecInv

\* Whatever postcard makes of the frames and however the bytes arrive, what
\* has been decoded is a prefix of what was sent, and the bytes not decoded yet
\* are the other frames, one behind the other, and then what broke the stream.
THEOREM Invariance == Spec => []CodecInv
  BY CodecInit, CodecNext, PTL DEF Spec

\* FramedRead waits for bytes only when the next frame is not all there.
THEOREM NoFrameHeldBack == Spec => []NothingHeldBack
  <1>1. CodecInv => NothingHeldBack
    BY DEF CodecInv
  <1> QED
    BY Invariance, <1>1, PTL

\* decode never holds or asks for more than one frame of the largest size, the
\* limit being checked before the declared length is believed.
THEOREM BufferLimit == Spec => []BufferBounded
  <1>1. CodecInv => BufferBounded
    BY DEF CodecInv
  <1> QED
    BY Invariance, <1>1, PTL

-----------------------------------------------------------------------------
(* The codec is a channel of whole frames.                                 *)

\* When the stream has ended and the buffer is empty, all has been decoded.
LEMMA EndIsComplete ==
  ASSUME CodecInv, Live, eof, src = <<>>
  PROVE  decoded = sent
  <1>0. Typed /\ InOrder
    BY DEF CodecInv
  <1>1. PICK off \in [Nat -> Int] : Layout(off)
    BY DEF CodecInv, StreamLaid
  <1>2. Len(Stream) = 0
    <2>1. wire = <<>>
      BY DEF CodecInv, AtEof
    <2> QED
      BY <2>1 DEF Stream
  <1>3. PICK d \in Nat, n \in Nat : d = Len(decoded) /\ n = Len(sent) /\ d <= n
    BY <1>0 DEF Typed, InOrder
  <1>4. ASSUME Len(decoded) < Len(sent) PROVE FALSE
    <2>1. PICK g : g = sent[Len(decoded) + 1]
      OBVIOUS
    <2>2. /\ g \in Frames /\ ~Oversize(Len(Payload[g]))
          /\ Len(encode(g)) <= Len(Stream)
      BY <1>0, <1>1, <1>4, <2>1, FrontFrame
    <2>3. PICK l \in Nat : Len(encode(g)) = 4 + l
      BY <2>2, EncodeFacts
    <2>4. 4 + l <= 0
      BY <1>2, <2>2, <2>3
    <2> QED
      BY <2>4
  <1>5. d = n
    BY <1>3, <1>4
  <1> QED
    BY <1>0, <1>3, <1>5, SeqEqual DEF Typed, InOrder

\* Every step is a step of the channel, or none.
LEMMA ChannelStep ==
  ASSUME CodecInv, [Next]_vars
  PROVE  [Frame!Next]_(<<sent, decoded,
           IF reader \in {"ended", "failed"} THEN reader ELSE "open">>)
  <1> DEFINE st == IF reader \in {"ended", "failed"} THEN reader ELSE "open"
  <1>0. reader \in {"reading", "framing", "ended", "failed"}
    BY DEF CodecInv, Typed
  <1>1. ASSUME UNCHANGED <<sent, decoded>>, st' = st
        PROVE  UNCHANGED <<sent, decoded, st>>
    BY <1>1
  <1>2. ASSUME NEW f \in Frames, Put(f)
        PROVE  Frame!Put(f) \/ UNCHANGED <<sent, decoded, st>>
    <2>1. UNCHANGED <<decoded, reader>>
      BY <1>2 DEF Put, receiver
    <2>2. sent' = Append(sent, f) \/ sent' = sent
      BY <1>2 DEF Put
    <2> QED
      BY <2>1, <2>2 DEF Frame!Put
  <1>3. ASSUME DecodeItem PROVE Frame!Get
    <2>1. reader = "framing" /\ UNCHANGED <<reader, sent>>
      BY <1>3 DEF DecodeItem, sender
    <2> QED
      BY <1>3, <2>1, DecodesNext DEF Frame!Get
  <1>4. ASSUME ReadFails \/ DecodeFails PROVE Frame!Fail
    <2>1. reader \in {"reading", "framing"} /\ reader' = "failed"
          /\ UNCHANGED <<sent, decoded>>
      BY <1>4 DEF ReadFails, DecodeFails, sender
    <2> QED
      BY <2>1 DEF Frame!Fail
  <1>5. ASSUME DecodeMore
        PROVE  Frame!Fail \/ Frame!End \/ UNCHANGED <<sent, decoded, st>>
    <2>1. /\ reader = "framing" /\ UNCHANGED <<sent, decoded>>
          /\ \/ reader' \in {"reading", "failed"}
             \/ reader' = "ended" /\ eof /\ src = <<>>
      BY <1>5 DEF DecodeMore, sender
    <2>2. CASE reader' = "reading"
      BY <2>1, <2>2
    <2>3. CASE reader' = "failed"
      BY <2>1, <2>3 DEF Frame!Fail
    <2>4. CASE reader' = "ended" /\ eof /\ src = <<>>
      <3>1. decoded = sent
        BY <2>1, <2>4, EndIsComplete DEF Live
      <3> QED
        BY <2>1, <2>4, <3>1 DEF Frame!End
    <2> QED
      BY <2>1, <2>2, <2>3, <2>4
  <1>6. CASE (\E bytes \in Foreign : PutForeign(bytes)) \/ Close
             \/ (\E f \in Frames, k \in 1 .. 3 + MAX_FRAME_BYTES : PutPart(f, k))
             \/ Done \/ UNCHANGED vars
    <2>1. UNCHANGED <<sent, decoded, reader>>
      BY <1>6 DEF PutForeign, Close, PutPart, Done, vars, sender, receiver
    <2> QED
      BY <2>1
  <1>7. CASE ReadEof \/ (\E k \in 1 .. Len(wire) : Read(k))
    <2>1. reader = "reading" /\ reader' = "framing" /\ UNCHANGED <<sent, decoded>>
      BY <1>7 DEF ReadEof, Read, sender
    <2> QED
      BY <2>1
  <1> QED
    BY <1>2, <1>3, <1>4, <1>5, <1>6, <1>7 DEF Next, Receive, Decode, Frame!Next

\* The codec implements Channel: however the bytes are cut up and wherever the
\* stream breaks off, decode returns the frames sent, whole, once and in order,
\* and a clean end means that all have come.
THEOREM CodecIsAChannel == Spec => ImplementsChannel
  <1>1. ASSUME Init PROVE Frame!Init
    BY <1>1 DEF Init, Frame!Init
  <1> QED
    BY Invariance, ChannelStep, <1>1, PTL DEF Spec, ImplementsChannel, Frame!Spec

=============================================================================
