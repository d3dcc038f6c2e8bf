---------------------------- MODULE MCPublishFlow ----------------------------
(* Small instances of PublishFlow for TLC.                                 *)
EXTENDS PublishFlow, TLC

CONSTANTS s1, b1

MCBatches == {s1, b1, "startup", "cli"}
MCSize == s1 :> 1 @@ b1 :> 2 @@ "startup" :> 2 @@ "cli" :> 3
MCRated == {"cli"}
MCGiven == {s1, "cli"}
=============================================================================
