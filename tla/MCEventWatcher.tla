-------------------------- MODULE MCEventWatcher --------------------------
(***************************************************************************)
(* Channels smaller than the number of events, so that both fill up.       *)
(***************************************************************************)
EXTENDS EventWatcher

=============================================================================
