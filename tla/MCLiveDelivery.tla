--------------------------- MODULE MCLiveDelivery ---------------------------
(* Instance of LiveDelivery for TLC: its cfg bounds the saves, versions,    *)
(* failures and restarts of a behaviour.                                    *)
EXTENDS LiveDelivery
=============================================================================
