---------------------------- MODULE RetryPolicy ----------------------------
(***************************************************************************)
(* What a failed attempt means for its job: worker/retry.py.               *)
(*                                                                         *)
(* An error message is abstracted to the set of marks the classifier looks *)
(* for in it: an IB code of one of the three coded families, a substring   *)
(* of _CONFIG_MARKERS or a substring of _TRANSIENT_MARKERS.  A job that    *)
(* asks for several accounts joins their errors into one message, so a     *)
(* message may carry several marks, or none.                               *)
(***************************************************************************)
EXTENDS Naturals

CONSTANTS
    NotReadyDelay,  \* RetryPolicy.not_ready_delay_sec, in ticks
    ThrottledDelay, \* RetryPolicy.throttled_delay_sec
    TransientDelay, \* RetryPolicy.transient_delay_sec
    UnknownDelay    \* RetryPolicy.unknown_delay_sec

\* from_config floors every delay at 30 seconds: none of them is zero.
ASSUME DelayAssumption ==
    {NotReadyDelay, ThrottledDelay, TransientDelay, UnknownDelay} \subseteq Nat \ {0}

\* What classify_flex_error can find in a message.
Marks == {"throttledCode", "configCode", "configMarker", "notReadyCode", "transientMarker"}

ErrorCategory == {"throttled", "config", "not_ready", "transient", "unknown"}

\* A throttle code anywhere in the message wins over every other mark.
classify_flex_error(msg) ==
    IF "throttledCode" \in msg THEN "throttled"
    ELSE IF {"configCode", "configMarker"} \cap msg # {} THEN "config"
    ELSE IF "notReadyCode" \in msg THEN "not_ready"
    ELSE IF "transientMarker" \in msg THEN "transient"
    ELSE "unknown"

Delay(category) ==
    CASE category = "not_ready" -> NotReadyDelay
      [] category = "throttled" -> ThrottledDelay
      [] category = "transient" -> TransientDelay
      [] OTHER                  -> UnknownDelay

\* Mutant: the attempts are not looked at.
plan_retry_Unbounded(category, attempts, max) ==
    IF category = "config"
    THEN [retry |-> FALSE, delay |-> 0, cooldown |-> 0]
    ELSE [retry |-> TRUE, delay |-> Delay(category), cooldown |-> 0]

\* The plan: give up on a config error or a spent budget, else wait Delay; a
\* throttled token also makes every other pending job wait.
plan_retry(category, attempts, max) ==
    IF category = "config" \/ attempts >= max
    THEN [retry |-> FALSE, delay |-> 0, cooldown |-> 0]
    ELSE [retry    |-> TRUE,
          delay    |-> Delay(category),
          cooldown |-> IF category = "throttled" THEN ThrottledDelay ELSE 0]
=============================================================================
