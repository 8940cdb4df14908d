--------------------------- MODULE PinThrottleProofs ---------------------------
(***************************************************************************)
(* RateLimited holds for any set of guessers and any limits.  The argument *)
(* is a budget: each guesser may have one wrong PIN under way per lockout  *)
(* window, so the wrong PINs recorded, plus those still allowed to be      *)
(* recorded in this window, never exceed the budget of the windows so far; *)
(* and a window is over only when a full Lockout has passed.               *)
(***************************************************************************)
EXTENDS PinThrottle, FiniteSetTheorems, TLAPS

N == Cardinality(Guessers)

\* The wrong PINs that may still be recorded before the next check succeeds:
\* under a lockout only the guesses already past their check.
Outstanding == IF locked_until # 0 THEN Cardinality(Trying) ELSE N

\* The free attempts, and one wrong PIN per guesser and window.
Budget == (MaxAttempts - 1) + N * (1 + expiries)

\* The inductive strengthening of RateLimited.
PinInv ==
    /\ PinTypeOK
    /\ since <= now
    /\ wrong >= consecutive_failures
    /\ wrong < Saturation => consecutive_failures = wrong
    /\ wrong >= Saturation => consecutive_failures = Saturation
    /\ locked_until # 0 => consecutive_failures >= MaxAttempts
    /\ locked_until # 0 => since + Lockout * (expiries + 1) <= locked_until
    /\ since + Lockout * expiries <= now
    /\ wrong + Outstanding <= Budget

-----------------------------------------------------------------------------
\* The number of guessers is a positive natural number.
LEMMA GuessersFinite == N \in Nat /\ IsFiniteSet(Guessers)
BY PinAssumption, FS_CardinalityType DEF N

\* The limits are positive and the counter can reach the threshold.
LEMMA Limits == /\ MaxAttempts \in Nat \ {0} /\ Lockout \in Nat \ {0}
                /\ Saturation \in Nat \ {0} /\ MaxAttempts <= Saturation
                /\ BaseDelay \in Nat /\ MaxDelay \in Nat /\ MaxTime \in Nat
BY PinAssumption

\* At most all guessers are trying a PIN.
LEMMA TryingBounded ==
    ASSUME PinTypeOK
    PROVE  /\ IsFiniteSet(Trying) /\ Cardinality(Trying) \in Nat
           /\ Cardinality(Trying) <= N
<1>1. Trying \subseteq Guessers
  BY DEF Trying
<1>. QED
  BY <1>1, GuessersFinite, FS_Subset, FS_CardinalityType DEF N

\* A guesser that stops trying leaves one guess fewer under way.
LEMMA TryingShrinks ==
    ASSUME PinTypeOK, NEW g \in Guessers, pc[g] = "trying",
           NEW s \in {"idle", "asleep"}, pc' = [pc EXCEPT ![g] = s]
    PROVE  /\ Cardinality(Trying') = Cardinality(Trying) - 1
           /\ Cardinality(Trying') \in Nat
<1>1. Trying' = Trying \ {g} /\ g \in Trying
  BY DEF Trying, PinTypeOK
<1>2. IsFiniteSet(Trying)
  BY TryingBounded
<1>. QED
  BY <1>1, <1>2, FS_RemoveElement, FS_CardinalityType, TryingBounded

\* Products of the budget, one window more.
LEMMA OneMore ==
    ASSUME NEW a \in Nat, NEW e \in Nat
    PROVE  /\ a * (e + 1) = a * e + a
           /\ a * (1 + (e + 1)) = a * (1 + e) + a
           /\ a * e \in Nat /\ a * (1 + e) \in Nat
OBVIOUS

\* Windows that all lasted at least d fit into the time that has passed.
LEMMA WindowsFit ==
    ASSUME NEW a \in Nat, NEW e \in Nat, NEW d \in Nat \ {0}, NEW t \in Nat, d * e <= t
    PROVE  a * (1 + e) <= a * (1 + t \div d)
<1>1. t \div d \in Nat /\ e <= t \div d
  <2>1. t = d * (t \div d) + (t % d) /\ t % d \in 0 .. (d - 1) /\ t \div d \in Nat
    OBVIOUS
  <2>2. CASE e > t \div d
    <3>1. e >= t \div d + 1
      BY <2>1, <2>2
    <3>2. d * e >= d * (t \div d + 1)
      BY <2>1, <3>1
    <3>3. d * (t \div d + 1) = d * (t \div d) + d
      BY <2>1
    <3>. QED
      BY <2>1, <3>2, <3>3
  <2>. QED
    BY <2>1, <2>2
<1>. DEFINE q == t \div d
<1>2. q \in Nat /\ e <= q
  BY <1>1
<1>3. a * (1 + e) <= a * (1 + q)
  <2>. HIDE DEF q
  <2>. QED
    BY <1>2
<1>. QED
  BY <1>3

-----------------------------------------------------------------------------
\* No failure recorded, no dialog in flight: the guess budget holds at the start.
LEMMA InitInv == Init => PinInv
<1>. SUFFICES ASSUME Init PROVE PinInv
  OBVIOUS
<1>. USE PinAssumption, Limits, GuessersFinite
<1>1. PinTypeOK
  BY DEF Init, PinTypeOK
<1>2. Lockout * expiries = 0 /\ N * (1 + expiries) = N
  BY DEF Init
<1>. QED
  BY <1>1, <1>2 DEF Init, PinInv, Outstanding, Budget

\* Every step of a guesser, of the clock and of the watchdog keeps the guess budget.
LEMMA NextInv == PinInv /\ [Next]_vars => PinInv'
<1>. SUFFICES ASSUME PinInv, [Next]_vars PROVE PinInv'
  OBVIOUS
<1>. USE PinAssumption, Limits, GuessersFinite
<1>a. PinTypeOK /\ Cardinality(Trying) \in Nat /\ Cardinality(Trying) <= N
  BY TryingBounded DEF PinInv
<1>b. /\ Lockout * expiries \in Nat /\ N * (1 + expiries) \in Nat
      /\ Lockout * (expiries + 1) = Lockout * expiries + Lockout
      /\ N * (1 + (expiries + 1)) = N * (1 + expiries) + N
  BY <1>a, OneMore DEF PinTypeOK
<1>1. ASSUME NEW g \in Guessers, Check(g) PROVE PinInv'
  <2>1. PinTypeOK'
    BY <1>1, <1>a DEF Check, PinTypeOK, FailuresAfterExpiry
  <2>2. CASE locked_until = 0
    BY <1>1, <1>a, <1>b, <2>1, <2>2 DEF Check, PinInv, PinTypeOK, Outstanding, Budget
  <2>3. CASE locked_until # 0
    <3>1. wrong <= Budget /\ Budget' = Budget + N
      BY <1>1, <1>a, <1>b, <2>3 DEF Check, PinInv, PinTypeOK, Outstanding, Budget
    <3>2. /\ locked_until' = 0 /\ wrong' = wrong /\ since' = since /\ now' = now
          /\ consecutive_failures' = consecutive_failures /\ expiries' = expiries + 1
          /\ locked_until <= now
      BY <1>1, <1>a, <2>3 DEF Check, FailuresAfterExpiry, PinTypeOK
    <3>3. (since + Lockout * expiries <= now)'
      BY <3>2, <1>b, <1>a, <2>3 DEF PinInv, PinTypeOK
    <3>4. (wrong + Outstanding <= Budget)'
      BY <3>1, <3>2, <1>a, <1>b DEF Outstanding, PinTypeOK, Budget
    <3>. QED
      BY <2>1, <3>2, <3>3, <3>4 DEF PinInv
  <2>. QED
    BY <2>2, <2>3
<1>2. ASSUME NEW g \in Guessers, RecordRight(g) PROVE PinInv'
  <2>1. PinTypeOK'
    BY <1>2, <1>a DEF RecordRight, PinTypeOK
  <2>2. Lockout * 0 = 0 /\ N * (1 + 0) = N
    OBVIOUS
  <2>3. /\ consecutive_failures' = 0 /\ locked_until' = 0 /\ wrong' = 0
        /\ since' = now /\ now' = now /\ expiries' = 0
    BY <1>2 DEF RecordRight
  <2>4. (wrong + Outstanding <= Budget)'
    BY <2>2, <2>3, <1>a DEF Outstanding, Budget
  <2>. QED
    BY <2>1, <2>2, <2>3, <2>4, <1>a DEF PinInv, PinTypeOK
<1>3. ASSUME NEW g \in Guessers, RecordWrong(g) PROVE PinInv'
  <2>. DEFINE n == Bump(consecutive_failures)
  <2>1. n \in 0 .. Saturation /\ n <= consecutive_failures + 1
    BY <1>a, SMTT(30) DEF PinTypeOK, Bump, Smaller
  <2>2. /\ consecutive_failures' = n /\ wrong' = wrong + 1
        /\ locked_until' = IF n >= MaxAttempts THEN now + Lockout ELSE locked_until
        /\ now' = now /\ since' = since /\ expiries' = expiries
    BY <1>3 DEF RecordWrong
  <2>3. /\ wrong + 1 < Saturation => n = wrong + 1
        /\ wrong + 1 >= Saturation => n = Saturation
    BY <1>a DEF PinInv, PinTypeOK, Bump, Smaller
  <2>4. PICK s \in {"idle", "asleep"} : pc' = [pc EXCEPT ![g] = s]
    BY <1>3 DEF RecordWrong
  <2>5. pc[g] = "trying"
    BY <1>3 DEF RecordWrong
  <2>6. Cardinality(Trying') = Cardinality(Trying) - 1 /\ Cardinality(Trying') \in Nat
    BY <1>a, <2>4, <2>5, TryingShrinks
  <2>7. PinTypeOK'
    <3>1. wake' \in Nat
      <4>1. Delay(n) \in Nat
        BY <2>1 DEF Delay, Smaller
      <4>. QED
        BY <1>3, <1>a, <4>1 DEF RecordWrong, PinTypeOK
    <3>2. pc' \in [Guessers -> {"idle", "trying", "asleep"}]
      BY <2>4, <1>a DEF PinTypeOK
    <3>. QED
      BY <2>1, <2>2, <3>1, <3>2, <1>a DEF PinTypeOK
  <2>. HIDE DEF n
  <2>8. CASE n >= MaxAttempts
    <3>1. (wrong + Outstanding <= Budget)'
      BY <2>2, <2>6, <2>8, <1>a, <1>b DEF PinInv, PinTypeOK, Outstanding, Budget
    <3>2. locked_until' = now + Lockout
      BY <2>2, <2>8
    <3>. QED
      BY <2>1, <2>2, <2>3, <2>7, <2>8, <3>1, <3>2, <1>a, <1>b DEF PinInv, PinTypeOK
  <2>9. CASE ~(n >= MaxAttempts)
    <3>1. locked_until = 0 /\ locked_until' = 0
      BY <2>1, <2>2, <2>3, <2>9, <1>a DEF PinInv, PinTypeOK
    <3>2. wrong + 1 <= MaxAttempts - 1
      BY <2>1, <2>3, <2>9, <1>a DEF PinTypeOK
    <3>3. N <= N * (1 + expiries)
      BY <1>a DEF PinTypeOK
    <3>4. (wrong + Outstanding <= Budget)'
      BY <2>2, <3>1, <3>2, <3>3, <1>a, <1>b DEF Outstanding, Budget, PinTypeOK
    <3>. QED
      BY <2>1, <2>2, <2>3, <2>7, <2>9, <3>1, <3>4, <1>a, <1>b DEF PinInv, PinTypeOK
  <2>. QED
    BY <2>8, <2>9, <2>1, <1>a
<1>4. ASSUME Wake PROVE PinInv'
  <2>1. PinTypeOK' /\ Trying' = Trying
    BY <1>4, <1>a DEF Wake, PinTypeOK, Trying
  <2>. QED
    BY <1>4, <2>1 DEF Wake, PinInv, Outstanding, Budget
<1>5. ASSUME Dropped PROVE PinInv'
  <2>1. PinTypeOK'
    BY <1>5, <1>a DEF Dropped, PinTypeOK
  <2>2. Cardinality(Trying') = Cardinality(Trying) - 1 /\ Cardinality(Trying') \in Nat
    BY <1>5, <1>a, TryingShrinks DEF Dropped
  <2>. QED
    BY <1>5, <2>1, <2>2, <1>a, <1>b DEF Dropped, PinInv, PinTypeOK, Outstanding, Budget
<1>6. ASSUME Tick PROVE PinInv'
  <2>1. PinTypeOK' /\ Trying' = Trying
    BY <1>6, <1>a DEF Tick, PinTypeOK, Trying
  <2>. QED
    BY <1>6, <2>1, <1>a, <1>b DEF Tick, PinInv, PinTypeOK, Outstanding, Budget
<1>7. ASSUME UNCHANGED vars PROVE PinInv'
  BY <1>7 DEF vars, PinInv, PinTypeOK, Trying, Outstanding, Budget
<1>. QED
  BY <1>1, <1>2, <1>3, <1>4, <1>5, <1>6, <1>7 DEF Next, CheckRejected

\* The budget of the windows so far, put in terms of time.
LEMMA InvRate == PinInv => RateLimited
<1>. SUFFICES ASSUME PinInv PROVE RateLimited
  OBVIOUS
<1>. USE PinAssumption, Limits, GuessersFinite
<1>1. /\ now - since \in Nat /\ Lockout * expiries <= now - since
      /\ Lockout * expiries \in Nat
  BY OneMore DEF PinInv, PinTypeOK
<1>2. N * (1 + expiries) <= N * (1 + (now - since) \div Lockout)
  <2>. DEFINE t == now - since
  <2>1. t \in Nat /\ Lockout * expiries <= t
    BY <1>1
  <2>2. expiries \in Nat /\ Lockout \in Nat \ {0}
    BY DEF PinInv, PinTypeOK
  <2>. HIDE DEF t
  <2>3. N * (1 + expiries) <= N * (1 + t \div Lockout)
    BY <2>1, <2>2, WindowsFit
  <2>. QED
    BY <2>3 DEF t
<1>3. wrong <= Budget
  BY TryingBounded DEF PinInv, PinTypeOK, Outstanding, Budget
<1>4. N * (1 + expiries) \in Nat /\ N * (1 + (now - since) \div Lockout) \in Nat
  BY <1>1 DEF PinInv, PinTypeOK
<1>. QED
  BY <1>2, <1>3, <1>4 DEF RateLimited, Budget, N, PinInv, PinTypeOK

\* The state of the PIN limit is well typed (PinFailureState).
THEOREM PinTypeCorrect == Spec => []PinTypeOK
<1>1. PinInv => PinTypeOK
  BY DEF PinInv
<1>. QED
  BY InitInv, NextInv, <1>1, PTL DEF Spec

\* Wrong PINs are rate limited, for any number of dialogs trying PINs at once
\* (gate_pin_validator, UnlockPin).
THEOREM PinRateLimited == Spec => []RateLimited
BY InitInv, NextInv, InvRate, PTL DEF Spec
=============================================================================
