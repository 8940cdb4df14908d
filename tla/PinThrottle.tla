------------------------------ MODULE PinThrottle ------------------------------
(***************************************************************************)
(* The daemon-wide limit on PIN guesses.  Every guess, typed into a dialog *)
(* (gate_pin_validator) or sent over the control channel (UnlockPin), asks *)
(* pin_lockout_remaining, tries the PIN, and calls record_pin_attempt.     *)
(* The mutex is held inside the two calls and not between them, so guesses *)
(* overlap.  Time is counted in ticks.                                     *)
(***************************************************************************)
EXTENDS Naturals, FiniteSets

CONSTANTS
    Guessers,      \* the places a PIN can be tried at: dialogs and the control channel
    Control,       \* the one that is the control channel
    MaxAttempts,   \* PIN_MAX_ATTEMPTS
    Lockout,       \* PIN_LOCKOUT
    BaseDelay,     \* PIN_FAILURE_BASE_DELAY
    MaxDelay,      \* PIN_FAILURE_MAX_DELAY
    Saturation,    \* the largest value of the failure counter, u32::MAX in the code
    MaxTime        \* bound: ticks the clock runs

ASSUME PinAssumption ==
    /\ IsFiniteSet(Guessers) /\ Control \in Guessers
    /\ {MaxAttempts, Lockout, Saturation} \subseteq Nat \ {0}
    /\ {BaseDelay, MaxDelay, MaxTime} \subseteq Nat
    /\ MaxAttempts <= Saturation

VARIABLES
    consecutive_failures,
    locked_until,  \* the instant the lockout ends; 0 is None
    now,           \* the monotonic clock
    pc,            \* what each guesser is doing
    wake,          \* when the control channel's penalty sleep ends
    wrong,         \* history: wrong PINs tried since the last right one
    since,         \* history: when the last right one was recorded
    expiries       \* history: lockouts that have run out since then

vars == <<consecutive_failures, locked_until, now, pc, wake, wrong, since, expiries>>

Smaller(a, b) == IF a <= b THEN a ELSE b
Trying == {g \in Guessers : pc[g] = "trying"}

\* Every variable stays in its type; the failure counter saturates.
PinTypeOK ==
    /\ consecutive_failures \in 0 .. Saturation
    /\ locked_until \in Nat
    /\ now \in Nat
    /\ pc \in [Guessers -> {"idle", "trying", "asleep"}]
    /\ wake \in Nat /\ wrong \in Nat /\ since \in Nat /\ expiries \in Nat

Init ==
    /\ consecutive_failures = 0 /\ locked_until = 0
    /\ now = 0 /\ wake = 0
    /\ pc = [g \in Guessers |-> "idle"]
    /\ wrong = 0 /\ since = 0 /\ expiries = 0

-----------------------------------------------------------------------------
\* Number of failures left on the counter when a lockout has run out; the
\* mutant starts afresh.
FailuresAfterExpiryReset == 0
FailuresAfterExpiry      == consecutive_failures

\* pin_lockout_remaining: a guess under lockout is rejected untried; a lockout
\* that has run out is cleared, the failure counter is not.
Check(g) ==
    /\ pc[g] = "idle"
    /\ ~(locked_until > now)
    /\ locked_until' = 0
    /\ consecutive_failures' = IF locked_until # 0 THEN FailuresAfterExpiry
                               ELSE consecutive_failures
    /\ expiries' = IF locked_until # 0 THEN expiries + 1 ELSE expiries
    /\ pc' = [pc EXCEPT ![g] = "trying"]
    /\ UNCHANGED <<now, wake, wrong, since>>

CheckRejected(g) ==
    /\ pc[g] = "idle" /\ locked_until > now
    /\ UNCHANGED vars

\* record_pin_attempt(true).
RecordRight(g) ==
    /\ pc[g] = "trying"
    /\ consecutive_failures' = 0 /\ locked_until' = 0
    /\ pc' = [pc EXCEPT ![g] = "idle"]
    /\ wrong' = 0 /\ since' = now /\ expiries' = 0
    /\ UNCHANGED <<now, wake>>

\* saturating_add(1); the mutant adds without a limit.
BumpUnlimited(n) == n + 1
Bump(n)          == Smaller(n + 1, Saturation)

\* record_pin_attempt(false); only the control channel sleeps the delay.
Delay(n) == Smaller(BaseDelay * n, MaxDelay)

RecordWrong(g) ==
    LET n == Bump(consecutive_failures)
    IN /\ pc[g] = "trying"
       /\ consecutive_failures' = n
       /\ locked_until' = IF n >= MaxAttempts THEN now + Lockout ELSE locked_until
       /\ IF g = Control /\ Delay(n) # 0
          THEN pc' = [pc EXCEPT ![g] = "asleep"] /\ wake' = now + Delay(n)
          ELSE pc' = [pc EXCEPT ![g] = "idle"] /\ UNCHANGED wake
       /\ wrong' = wrong + 1
       /\ UNCHANGED <<now, since, expiries>>

Wake ==
    /\ pc[Control] = "asleep" /\ now >= wake
    /\ pc' = [pc EXCEPT ![Control] = "idle"]
    /\ UNCHANGED <<consecutive_failures, locked_until, now, wake, wrong, since, expiries>>

\* The control watchdog drops an UnlockPin whose PIN was right and whose
\* session restore hangs: the success is never recorded.
Dropped ==
    /\ pc[Control] = "trying"
    /\ pc' = [pc EXCEPT ![Control] = "idle"]
    /\ UNCHANGED <<consecutive_failures, locked_until, now, wake, wrong, since, expiries>>

Tick ==
    /\ now < MaxTime
    /\ now' = now + 1
    /\ UNCHANGED <<consecutive_failures, locked_until, pc, wake, wrong, since, expiries>>

Next == \/ \E g \in Guessers : Check(g) \/ CheckRejected(g) \/ RecordRight(g) \/ RecordWrong(g)
        \/ Wake \/ Dropped \/ Tick

Spec == Init /\ [][Next]_vars

-----------------------------------------------------------------------------
\* However guesses overlap, MaxAttempts - 1 wrong PINs are free and after that
\* each lockout window costs a full Lockout and admits at most one wrong PIN
\* per guesser: the limit on wrong PINs since the last right one, by the time
\* that has passed (pin_lockout_remaining, record_pin_attempt).
RateLimited ==
    wrong <= (MaxAttempts - 1) + Cardinality(Guessers) * (1 + (now - since) \div Lockout)
=============================================================================
