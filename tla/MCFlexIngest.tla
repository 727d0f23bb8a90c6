---------------------------- MODULE MCFlexIngest ----------------------------
(* Small instances of FlexIngest for TLC. *)
EXTENDS FlexIngest

\* schedule.yaml: flex-trades 5, flex-transactions 4.
MCPriority == [k \in Kinds |-> IF k = "trades" THEN 5 ELSE 4]

\* A throttle joined with another account's error, an error not worth retrying
\* and one that is.
JoinedMessages == {{"throttledCode", "configCode"}, {"configMarker"}, {"notReadyCode"}}

\* An error that cools the queue and one that does not.
ThrottleMessages == {{"throttledCode"}, {"transientMarker"}}
=============================================================================
