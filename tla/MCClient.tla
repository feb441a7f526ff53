------------------------------ MODULE MCClient ------------------------------
(* Values for the constants of ClientLifecycle: the runs on client mode.   *)
EXTENDS ClientProperties

CONSTANTS a, b, c   \* peers; c lies within the TAP's own prefix

Three    == {a, b, c}
OnLink   == {c}
MCSubnet == {c}
Outside  == {a, b}

\* Where the process may be killed.
Anywhere         == Threads \X Labels
ButWindows       == Anywhere \ (TapWindow \cup RouteWindow)
ButTapWindow     == Anywhere \ TapWindow
Nowhere          == {}

\* Which commands may fail.
Nothing       == {}
ButTapLoss    == Commands \ {"tap_delete", "state_read", "state_write",
                             "tap_name_from_guid"}
=============================================================================
