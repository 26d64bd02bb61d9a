------------------------- MODULE RateLimiterProofs -------------------------
(***************************************************************************)
(* The token bucket keeps its rate and refuses nothing it could grant, for *)
(* every capacity, rate, set of costs and length of the run.               *)
(***************************************************************************)
EXTENDS RateLimiter, TLAPS

\* No stretch of time has room for more than the refilled bucket ...
Covered == \A s \in 0 .. now : used[s] + Refilled <= Allowance(s)

\* ... and some stretch has room for exactly that.
Tight == \E s \in 0 .. now : used[s] + Refilled = Allowance(s)

\* Nothing has been granted in the future.
Fresh == \A s \in Times : s > now => used[s] = 0

\* RateBound and GrantsExactly speak of the grants only; what makes them
\* inductive is what the bucket holds.
IInv == TypeOK /\ Covered /\ Tight /\ Fresh

\* The only facts about products that the proofs need.
LEMMA RefillTimes ==
  ASSUME NEW k \in Nat
  PROVE  /\ Refill * k \in Nat
         /\ Refill * (k + 1) = Refill * k + Refill
         /\ Refill * 0 = 0
  BY RateAssumption

\* The refilled bucket is within its capacity.
LEMMA RefilledType ==
  ASSUME TypeOK
  PROVE  Refilled \in 0 .. Capacity /\ Earned \in Nat
  <1>1. now - last_refill \in Nat
    BY RateAssumption DEF TypeOK, Times
  <1>2. Refill * (now - last_refill) \in Nat
    BY <1>1, RefillTimes
  <1>3. Earned \in Nat
    BY <1>2, RateAssumption DEF TypeOK, Earned
  <1> QED
    BY <1>3, RateAssumption DEF Refilled

\* A full bucket, and no grants.
LEMMA RateInit == Init => IInv
  <1> SUFFICES ASSUME Init PROVE IInv
    OBVIOUS
  <1> USE RateAssumption DEF Init
  <1>1. TypeOK
    BY DEF TypeOK, Times
  <1>2. now - last_refill = 0 /\ Refill * 0 = 0
    BY RefillTimes
  <1>3. Refilled = Capacity
    BY <1>2 DEF Refilled, Earned
  <1>4. \A s \in 0 .. now : s = 0 /\ used[s] = 0 /\ Allowance(s) = Capacity
    BY <1>2 DEF Allowance, Times
  <1>5. Covered /\ Tight
    BY <1>3, <1>4 DEF Covered, Tight
  <1>6. Fresh
    BY DEF Fresh
  <1> QED
    BY <1>1, <1>5, <1>6 DEF IInv

\* Time passing earns the bucket what it earns every stretch; where the
\* bucket overflows, the stretch that starts now is the tight one.
LEMMA RateTick == IInv /\ Tick => IInv'
  <1> SUFFICES ASSUME IInv, Tick PROVE IInv'
    OBVIOUS
  <1> USE RateAssumption DEF IInv
  <1>1. /\ now' = now + 1 /\ now < MaxTime
        /\ tokens' = tokens /\ last_refill' = last_refill /\ used' = used
    BY DEF Tick
  <1>2. now \in Nat /\ now' \in Times /\ Refilled \in 0 .. Capacity
    BY <1>1, RefilledType DEF TypeOK, Times
  <1>3. TypeOK'
    BY <1>1 DEF TypeOK, Times
  <1>4. Earned' = Earned + Refill
    <2>1. now - last_refill \in Nat
      BY DEF TypeOK, Times
    <2>2. /\ now' - last_refill' = (now - last_refill) + 1
          /\ Refill * (now - last_refill) \in Nat
          /\ Refill * ((now - last_refill) + 1)
               = Refill * (now - last_refill) + Refill
      BY <1>1, <2>1, RefillTimes DEF TypeOK, Times
    <2> QED
      BY <1>1, <2>2 DEF Earned, TypeOK
  <1>5. /\ Earned \in Nat
        /\ Refilled' = IF Refilled + Refill <= Capacity
                       THEN Refilled + Refill ELSE Capacity
    <2>1. Earned \in Nat
      BY RefilledType
    <2> QED
      BY <1>4, <2>1 DEF Refilled
  <1>6. ASSUME NEW s \in 0 .. now
        PROVE  /\ Allowance(s)' = Allowance(s) + Refill
               /\ Allowance(s) \in Nat /\ used[s] \in Nat /\ used'[s] = used[s]
    <2>1. /\ now - s \in Nat
          /\ now' - s = (now - s) + 1
      BY <1>1, <1>2
    <2>2. /\ Refill * (now - s) \in Nat
          /\ Refill * ((now - s) + 1) = Refill * (now - s) + Refill
      BY <2>1, RefillTimes
    <2> QED
      BY <1>1, <1>2, <2>1, <2>2 DEF Allowance, TypeOK, Times
  <1>7. used'[now'] = 0 /\ Allowance(now)' = Capacity
    <2>1. used[now'] = 0
      BY <1>1, <1>2 DEF Fresh
    <2>2. now' - now' = 0 /\ Refill * 0 = 0
      BY <1>1, <1>2, RefillTimes
    <2> QED
      BY <1>1, <2>1, <2>2 DEF Allowance
  <1>8. Covered'
    <2>1. ASSUME NEW s \in 0 .. now'
          PROVE  used'[s] + Refilled' <= Allowance(s)'
      <3>1. CASE s \in 0 .. now
        BY <1>2, <1>5, <1>6, <3>1 DEF Covered
      <3>2. CASE s = now'
        BY <1>2, <1>5, <1>7, <3>2
      <3> QED
        BY <1>1, <1>2, <3>1, <3>2
    <2> QED
      BY <2>1 DEF Covered
  <1>9. Tight'
    <2>1. CASE Refilled + Refill <= Capacity
      <3>1. PICK s \in 0 .. now : used[s] + Refilled = Allowance(s)
        BY DEF Tight
      <3>2. used'[s] + Refilled' = Allowance(s)'
        BY <1>2, <1>5, <1>6, <2>1, <3>1
      <3> QED
        BY <1>1, <1>2, <3>1, <3>2 DEF Tight
    <2>2. CASE ~(Refilled + Refill <= Capacity)
      <3>1. used'[now'] + Refilled' = Allowance(now)'
        BY <1>5, <1>7, <2>2
      <3> QED
        BY <1>2, <3>1 DEF Tight, Times
    <2> QED
      BY <2>1, <2>2
  <1>10. Fresh'
    BY <1>1, <1>2 DEF Fresh, Times
  <1> QED
    BY <1>3, <1>8, <1>9, <1>10

\* A grant moves its cost from the bucket to every stretch that includes
\* now; a refusal only books the refill.
LEMMA RateConsume ==
  ASSUME NEW n \in Costs, IInv, TryConsume(n)
  PROVE  IInv'
  <1> USE RateAssumption DEF IInv
  <1>1. n \in Nat /\ now \in Times /\ now \in Nat
    BY DEF TypeOK, Times
  <1>2. Refilled \in 0 .. Capacity
    BY RefilledType
  <1>3. now' = now /\ last_refill' = now
    BY DEF TryConsume
  <1>4. \A s \in 0 .. now :
           Allowance(s)' = Allowance(s) /\ s \in Times /\ used[s] \in Nat
    BY <1>1, <1>3 DEF Allowance, TypeOK, Times
  <1>5. ASSUME NEW s \in 0 .. now PROVE Allowance(s) \in Nat
    BY <1>1, RefillTimes DEF Allowance
  <1>6. ASSUME tokens' \in 0 .. Capacity PROVE Refilled' = tokens'
    <2>1. now' - last_refill' = 0 /\ Refill * 0 = 0
      BY <1>1, <1>3, RefillTimes
    <2> QED
      BY <1>6, <2>1 DEF Refilled, Earned
  <1>7. CASE /\ Grants(n) /\ tokens' = Refilled - n
             /\ used' = [s \in Times |-> IF s <= now THEN used[s] + n
                                         ELSE used[s]]
    <2>1. tokens' \in 0 .. Capacity /\ Refilled' = Refilled - n
      BY <1>1, <1>2, <1>6, <1>7 DEF Grants
    <2>2. TypeOK'
      BY <1>1, <1>3, <1>7, <2>1 DEF TypeOK, Times
    <2>3. \A s \in 0 .. now : used'[s] = used[s] + n
      BY <1>1, <1>4, <1>7 DEF TypeOK, Times
    <2>4. \A s \in 0 .. now : used'[s] + Refilled' = used[s] + Refilled
      BY <1>1, <1>2, <1>4, <2>1, <2>3
    <2>5. Covered' /\ Tight'
      BY <1>3, <1>4, <2>4 DEF Covered, Tight
    <2>6. Fresh'
      BY <1>1, <1>3, <1>7 DEF Fresh, TypeOK, Times
    <2> QED
      BY <2>2, <2>5, <2>6
  <1>8. CASE tokens' = Refilled /\ used' = used
    <2>1. Refilled' = Refilled
      BY <1>2, <1>6, <1>8
    <2>2. TypeOK'
      BY <1>1, <1>2, <1>3, <1>8 DEF TypeOK, Times
    <2>3. Covered' /\ Tight' /\ Fresh'
      BY <1>3, <1>4, <1>8, <2>1 DEF Covered, Tight, Fresh
    <2> QED
      BY <2>2, <2>3
  <1> QED
    BY <1>7, <1>8 DEF TryConsume

\* The strengthened invariant holds throughout.
LEMMA RateInvariant == Spec => []IInv
  <1>1. IInv /\ [Next]_vars => IInv'
    <2> SUFFICES ASSUME IInv, [Next]_vars PROVE IInv'
      OBVIOUS
    <2>1. CASE UNCHANGED vars
      <3>1. /\ now' = now /\ used' = used /\ tokens' = tokens
            /\ last_refill' = last_refill
        BY <2>1 DEF vars
      <3> QED
        BY <3>1 DEF IInv, TypeOK, Covered, Tight, Fresh, Allowance, Refilled,
                    Earned
    <2> QED
      BY <2>1, RateTick, RateConsume DEF Next
  <1> QED
    BY RateInit, <1>1, PTL DEF Spec

\* Over no stretch of time does a peer get more than burst plus rate.
THEOREM RateBoundHolds == Spec => []RateBound
  <1>1. IInv => RateBound
    <2> SUFFICES ASSUME IInv, NEW s \in 0 .. now
                 PROVE  used[s] <= Allowance(s)
      BY DEF RateBound
    <2>1. used[s] \in Nat /\ now - s \in Nat
      BY RateAssumption DEF IInv, TypeOK, Times
    <2>2. Allowance(s) \in Nat
      BY <2>1, RefillTimes, RateAssumption DEF Allowance
    <2>3. Refilled \in 0 .. Capacity
      BY RefilledType DEF IInv
    <2> QED
      BY <2>1, <2>2, <2>3, RateAssumption DEF IInv, Covered
  <1> QED
    BY RateInvariant, <1>1, PTL

\* The bucket grants exactly what the rate allows.
THEOREM GrantsExactlyHolds == Spec => []GrantsExactly
  <1>1. IInv => GrantsExactly
    <2> SUFFICES ASSUME IInv, NEW n \in Costs
                 PROVE  Grants(n) <=>
                          \A s \in 0 .. now : used[s] + n <= Allowance(s)
      BY DEF GrantsExactly
    <2>1. n \in Nat /\ Refilled \in 0 .. Capacity
      BY RefilledType, RateAssumption DEF IInv
    <2>2. ASSUME NEW s \in 0 .. now
          PROVE  used[s] \in Nat /\ Allowance(s) \in Nat
      <3>1. now - s \in Nat /\ used[s] \in Nat
        BY RateAssumption DEF IInv, TypeOK, Times
      <3> QED
        BY <3>1, RefillTimes, RateAssumption DEF Allowance
    <2>3. ASSUME Grants(n), NEW s \in 0 .. now
          PROVE  used[s] + n <= Allowance(s)
      BY <2>1, <2>2, <2>3, RateAssumption DEF Grants, IInv, Covered
    <2>4. ASSUME \A s \in 0 .. now : used[s] + n <= Allowance(s)
          PROVE  Grants(n)
      <3>1. PICK s \in 0 .. now : used[s] + Refilled = Allowance(s)
        BY DEF IInv, Tight
      <3> QED
        BY <2>1, <2>2, <2>4, <3>1, RateAssumption DEF Grants
    <2> QED
      BY <2>3, <2>4
  <1> QED
    BY RateInvariant, <1>1, PTL

=============================================================================
