------------------------- MODULE MCSectorBacktester -------------------------
(***************************************************************************)
(* Values for checking SectorBacktester: constants are given in the        *)
(* configuration.                                                          *)
(***************************************************************************)
EXTENDS SectorBacktester
=============================================================================
