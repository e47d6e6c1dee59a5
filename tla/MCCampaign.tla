----------------------------- MODULE MCCampaign -----------------------------
(* Campaign on small instances. *)
EXTENDS Campaign, TLC
=============================================================================
