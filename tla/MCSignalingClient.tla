------------------------- MODULE MCSignalingClient -------------------------
(* Three kinds of messages: two that reach a callback and one that is      *)
(* dropped (a register line, or an ICE line without a candidate).          *)
EXTENDS SignalingClient

MCKinds == {"offer", "ice", "other"}
MCDelivered == {"offer", "ice"}
=============================================================================
