------------------------------ MODULE Channel -------------------------------
(***************************************************************************)
(* What PostcardCodec promises the two sides of a connection (tests        *)
(* two_frames_back_to_back, partial_frame_yields_none and                  *)
(* rejects_oversize_declared_length of protocol/src/lib.rs): whole frames, *)
(* each once and in the order sent, then a clean end when all have come,   *)
(* or a failure.  Module Session takes its socket to be such a channel.    *)
(***************************************************************************)
EXTENDS Naturals, Sequences

CONSTANT Frames

VARIABLES sent, decoded, state

Init == sent = <<>> /\ decoded = <<>> /\ state = "open"

Put(f) == sent' = Append(sent, f) /\ UNCHANGED <<decoded, state>>

Get ==
  /\ state = "open" /\ Len(decoded) < Len(sent)
  /\ decoded' = Append(decoded, sent[Len(decoded) + 1])
  /\ UNCHANGED <<sent, state>>

End ==
  /\ state = "open" /\ decoded = sent
  /\ state' = "ended" /\ UNCHANGED <<sent, decoded>>

Fail ==
  /\ state = "open"
  /\ state' = "failed" /\ UNCHANGED <<sent, decoded>>

Next == (\E f \in Frames : Put(f)) \/ Get \/ End \/ Fail

Spec == Init /\ [][Next]_<<sent, decoded, state>>

=============================================================================
