--------------------------- MODULE MCFetchWindow ---------------------------
(* Small instances of FetchWindow for TLC. *)
EXTENDS FetchWindow

\* Nothing but scheduled windows; a long one; a late short one and a reversed one.
ScheduledOnly == {}
SomeWindows == {[from |-> 1, to |-> 4], [from |-> 3, to |-> 3], [from |-> 3, to |-> 2]}
=============================================================================
