----------------------------- MODULE MCNodeMonitor -----------------------------
(***************************************************************************)
(* Two nodes and an ICMP and a TCP probe, so that DOWN, which takes two    *)
(* failed probes, and UNKNOWN, one failure and one error, both occur.      *)
(***************************************************************************)
EXTENDS NodeMonitor
=============================================================================
