------------------------- MODULE MCMessageRequests --------------------------
(* Model checking MessageRequests with a few calls that overlap; the         *)
(* constants are in MCMessageRequests.cfg and MCMessageRequestsRace.cfg.     *)
EXTENDS MessageRequests
=============================================================================
