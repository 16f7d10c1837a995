--------------------------- MODULE MCTickPrograms ---------------------------
(***************************************************************************)
(* Values for checking TickPrograms: a fast tick and a slow one, in any    *)
(* order of arrival.                                                       *)
(***************************************************************************)
EXTENDS TickPrograms

FastAndSlow == {1, 2}
=============================================================================
