------------------------------ MODULE Backoff ------------------------------
(***************************************************************************)
(* The reconnect backoff of spt-supervisor (reconnect.rs).  A Backoff is   *)
(* its attempt counter, a u32 that saturates; delays are in whole ticks.   *)
(***************************************************************************)
EXTENDS U32

CONSTANTS
    InitialDelay,   \* BackoffConfig::initial_delay
    MaxDelay,       \* BackoffConfig::max_delay
    JitterPct,      \* BackoffConfig::jitter, in percent
    MaxAttempts     \* BackoffConfig::max_attempts; 0 means no limit

ASSUME BackoffAssumption ==
    /\ InitialDelay \in Nat
    /\ MaxDelay \in Nat
    /\ JitterPct \in 0..100
    /\ MaxAttempts \in Nat

LOCAL Least(a, b) == IF a < b THEN a ELSE b
LOCAL Greatest(a, b) == IF a < b THEN b ELSE a

\* Off by one: the attempt that reaches the limit is still allowed.
ExhaustedOneLate(attempt) == MaxAttempts # 0 /\ attempt > MaxAttempts

\* Backoff::exhausted.
Exhausted(attempt) == MaxAttempts # 0 /\ attempt >= MaxAttempts

\* ceiling_for_attempt.  The u64 product saturates in the code; the outer
\* minimum with a u64 hides that.
CeilingForAttempt(n) ==
    IF InitialDelay = 0
    THEN 0
    ELSE Least(InitialDelay * 2 ^ Least(n, 31), Greatest(MaxDelay, InitialDelay))

\* sample_jitter: every delay it can return for the ceiling of attempt n.
NextDelays(n) ==
    LET ceiling == CeilingForAttempt(n)
    IN  {d \in 0..ceiling : d >= (ceiling * (100 - JitterPct)) \div 100}
=============================================================================
