-------------------------- MODULE MCEmailCampaigns --------------------------
(* Instances of EmailCampaigns for TLC. *)
EXTENDS EmailCampaigns, TLC

CONSTANTS a1, a2, w1, w2

TwoAddresses == {a1, a2}
TwoSlots == {w1, w2}
=============================================================================
