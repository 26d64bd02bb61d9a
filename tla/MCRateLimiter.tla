--------------------------- MODULE MCRateLimiter ---------------------------
(* TLC instance of RateLimiter: a token is three units, the burst two and  *)
(* a third tokens, the rate two thirds of a token per tick.                *)
EXTENDS RateLimiter

MCCosts == {1, 3}

=============================================================================
