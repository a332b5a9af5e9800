--------------------------- MODULE MCServeSession ---------------------------
(***************************************************************************)
(* One trace file, used by up to two sessions, and events of two cycles:   *)
(* enough for an event to come late, to come again and to be caught by a   *)
(* failed write or a crash.                                                *)
(***************************************************************************)
EXTENDS ServeSession

MCEvents == [name : {"x"}, cycle : {1, 2}]
=============================================================================
