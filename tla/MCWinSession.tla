---------------------------- MODULE MCWinSession ----------------------------
(***************************************************************************)
(* The code tells profiles apart only by equality and by their cached exit *)
(* address: two, one of which has one.  Two sessions are enough for an old *)
(* one to overlap the next, and either may be the one the user no longer   *)
(* wants.                                                                  *)
(***************************************************************************)
EXTENDS WinSession

CONSTANTS home, work

MCProfiles == {home, work}
MCCachedExit == {work}
=============================================================================
