------------------------------ MODULE MCLimits ------------------------------
(* TLC instance of Limits with the code's own limits, and lengths on both   *)
(* sides of each of them and of each step of the varint.                    *)
EXTENDS Limits

NameLensC == {0, 1, 31, 32, 33, 127, 128, 8187, 8188, 8189}
BodyLensC == {0, 1, 127, 128, 4095, 4096, 4097, 6000, 8189, 8190, 16384}

=============================================================================
