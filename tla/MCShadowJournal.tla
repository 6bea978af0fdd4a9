--------------------------- MODULE MCShadowJournal ---------------------------
(***************************************************************************)
(* Two decision clocks, one reconnect and two processes.                   *)
(***************************************************************************)
EXTENDS ShadowJournal

MCClocks == <<2, 4>>
=============================================================================
