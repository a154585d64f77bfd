----------------------------- MODULE MCCampaign -----------------------------
(* Small instances of Campaign, with the records of Attribution, for TLC.    *)
EXTENDS Attribution

=============================================================================
