------------------------------ MODULE MCCodec -------------------------------
(* TLC instances of Codec: payloads of one byte, of the largest size (and   *)
(* made of the bytes of a header), and one byte too long; foreign lengths   *)
(* just beyond the limit and ones whose low byte alone would be legal.      *)
EXTENDS Codec

FramesC == {"Pong", "Hello", "Long"}
PayloadC ==
  [f \in FramesC |-> CASE f = "Pong" -> <<2>>
                       [] f = "Hello" -> <<0, 0, 1>>
                       [] f = "Long" -> <<1, 2, 0, 0>>]
ForeignC ==
  {put_u32(MAX_FRAME_BYTES + 1), put_u32(256), put_u32(2^24),
   put_u32(1) \o <<9>>, put_u32(2) \o <<0, 2>>}

=============================================================================
