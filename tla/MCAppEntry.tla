----------------------------- MODULE MCAppEntry -----------------------------
(* AppEntry on small instances.  Two devices are needed for the user to    *)
(* switch; a scan every second frame leaves frames without one.            *)
EXTENDS AppEntry
=============================================================================
