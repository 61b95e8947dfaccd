--------------------------- MODULE MCCurveMonitor ---------------------------
(***************************************************************************)
(* CurveMonitor on two fans, two levels and three temperatures; as in the  *)
(* source, the first ramp-down curve is not the one the window derives.    *)
(***************************************************************************)
EXTENDS CurveMonitor

MCReadings == {1, 3, 4}
MCRampup   == <<2, 4>>
MCRampdown == <<1, 3>>

ASSUME WrittenByHand == MCRampdown # DeriveRampdown(MCRampup)
=============================================================================
