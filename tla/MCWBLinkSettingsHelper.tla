------------------------ MODULE MCWBLinkSettingsHelper ------------------------
(* Instances of WBLinkSettingsHelper for TLC.                              *)
EXTENDS WBLinkSettingsHelper

CONSTANTS g1, g2, a1, a2,       \* STBC and LDPC, on the ground and in the air
          k, m, w,              \* two asynchronous changes, a blocking one
          ground, air,          \* servers
          stbc, ldpc, key, fec, freq \* parameters

LinkSets   == <<g1, g2, a1, a2>>
LinkServer == g1 :> ground @@ g2 :> ground @@ a1 :> air @@ a2 :> air @@ k :> air @@ m :> air @@ w :> ground
LinkParam  == g1 :> stbc @@ g2 :> ldpc @@ a1 :> stbc @@ a2 :> ldpc @@ k :> key @@ m :> fec @@ w :> freq
LinkWanted == g1 :> 1 @@ g2 :> 1 @@ a1 :> 1 @@ a2 :> 1 @@ k :> 1 @@ m :> 1 @@ w :> 2
LinkAnswers == {<<g1, "accepted">>, <<g2, "accepted">>, <<a1, "accepted">>, <<a2, "accepted">>,
                <<k, "failed">>}
AnyCount   == ground :> 1 @@ air :> 1
=============================================================================
