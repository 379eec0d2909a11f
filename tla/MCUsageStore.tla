---------------------------- MODULE MCUsageStore ----------------------------
(* UsageStore on small instances. *)
EXTENDS UsageStore
=============================================================================
