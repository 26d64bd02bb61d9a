---------------------------- MODULE RateLimiter ----------------------------
(***************************************************************************)
(* The token bucket of server/src/actor/ratelimit.rs, which a Session asks *)
(* before it relays a Send.  The f64 quantities are integers in a unit     *)
(* fine enough for Refill, Capacity and every cost; a clock tick is the    *)
(* resolution at which tokio's Instant is observed.                        *)
(***************************************************************************)
EXTENDS Integers

CONSTANTS
  Capacity,  \* RateLimiter.capacity (rate_limit_burst)
  Refill,    \* refill_per_sec, in units per clock tick
  Costs,     \* arguments try_consume is called with
  MaxTime    \* bound: ticks of the clock

\* ServerConfig: both rates are finite and not negative.
ASSUME RateAssumption ==
  /\ Capacity \in Nat
  /\ Refill \in Nat
  /\ Costs \subseteq Nat
  /\ MaxTime \in Nat

VARIABLES
  tokens,       \* RateLimiter.tokens
  last_refill,  \* RateLimiter.last_refill
  now,          \* the clock, since the session's limiter was created
  used          \* history: used[s] is what was granted at or after time s

vars == <<tokens, last_refill, now, used>>

Times == 0 .. MaxTime

TypeOK ==
  /\ tokens \in 0 .. Capacity
  /\ last_refill \in 0 .. now
  /\ now \in Times
  /\ used \in [Times -> Nat]

\* RateLimiter::new: a full bucket.
Init ==
  /\ tokens = Capacity
  /\ last_refill = 0
  /\ now = 0
  /\ used = [s \in Times |-> 0]

\* The first half of try_consume: what has been earned since, capped.
Earned == tokens + Refill * (now - last_refill)
RefilledUncapped == Earned
Refilled == IF Earned <= Capacity THEN Earned ELSE Capacity

\* `if self.tokens >= n`, on the refilled bucket.
Grants(n) == Refilled >= n

\* A bug that forfeits on a refusal what had been earned.
TryConsumeForfeits(n) ==
  /\ last_refill' = now
  /\ \/ /\ Grants(n)
        /\ tokens' = Refilled - n
        /\ used' = [s \in Times |-> IF s <= now THEN used[s] + n ELSE used[s]]
     \/ /\ ~Grants(n)
        /\ UNCHANGED <<tokens, used>>
  /\ UNCHANGED now

\* RateLimiter::try_consume: refill, then decrement and return true, or keep
\* the refilled bucket and return false.
TryConsume(n) ==
  /\ last_refill' = now
  /\ \/ /\ Grants(n)
        /\ tokens' = Refilled - n
        /\ used' = [s \in Times |-> IF s <= now THEN used[s] + n ELSE used[s]]
     \/ /\ ~Grants(n)
        /\ tokens' = Refilled
        /\ UNCHANGED used
  /\ UNCHANGED now

\* Time passes.
Tick ==
  /\ now < MaxTime
  /\ now' = now + 1
  /\ UNCHANGED <<tokens, last_refill, used>>

Next == (\E n \in Costs : TryConsume(n)) \/ Tick

Spec == Init /\ [][Next]_vars

-----------------------------------------------------------------------------

\* What a peer may have been granted from time s until now.
Allowance(s) == Capacity + Refill * (now - s)

\* A peer cannot flood the room: over no stretch of time, wherever it starts,
\* do the grants exceed one burst plus what the rate earns meanwhile.
RateBound == \A s \in 0 .. now : used[s] <= Allowance(s)

\* The bucket is an exact reference limiter: a call is granted if and only if
\* the grant would keep every stretch of time within its allowance.  Refused
\* calls, however many and however timed, cost the peer nothing.
GrantsExactly ==
  \A n \in Costs :
     Grants(n) <=> \A s \in 0 .. now : used[s] + n <= Allowance(s)

=============================================================================
