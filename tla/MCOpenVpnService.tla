-------------------------- MODULE MCOpenVpnService --------------------------
(***************************************************************************)
(* Two profiles: the one before and the one switched to.  Every request    *)
(* begins one thread and may be followed by one fall-back or abort, so     *)
(* twice as many threads as requests never run out.                        *)
(***************************************************************************)
EXTENDS OpenVpnService

CONSTANTS p1, p2

MCProfiles == {p1, p2}

\* Either profile may be the old one or the new one; one of them may be deleted.
MCDeletable == {p1}
=============================================================================
