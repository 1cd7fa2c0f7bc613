--------------------------- MODULE MCMessageDelivery ---------------------------
(***************************************************************************)
(* Message delivery with a few workers and events for TLC.                 *)
(***************************************************************************)
EXTENDS MessageDelivery, TLC

\* Workers are alike, and so are events; no liveness property is checked with it.
Alike == Permutations(Workers) \cup Permutations(Events)
=============================================================================
