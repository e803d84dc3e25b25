------------------------------- MODULE MCServer -------------------------------
(***************************************************************************)
(* Commands enough for one master to follow another, and for a master to   *)
(* be told to reload.                                                      *)
(***************************************************************************)
EXTENDS ServerSafety
CONSTANTS start, stop, restart, reload

None             == {}
OneStart         == {start}
OneStop          == {stop}
OneRestart       == {restart}
OneReload        == {reload}
StartsAndRestart == {start, restart}
=============================================================================
