----------------------------- MODULE HeldSession ----------------------------
(***************************************************************************)
(* What those who hold, release and end an Android session may rely on,    *)
(* whatever the thread, the library and the command pipe do in between     *)
(* (pause, resume and stopVPN of core/OpenConnectManagementThread.java).   *)
(* A session comes up, may be held and released any number of times, and   *)
(* ends once.  It is held only on demand, only after it came up, and never *)
(* again once it was told to end; it never goes back to the login, and it  *)
(* never ends while it is held.                                            *)
(***************************************************************************)
VARIABLES
    phase,       \* coming up, up, held, on its way out, over
    hold,        \* it is to be held: mRequestPause
    told         \* it was told to end: mRequestDisconnect

vars == <<phase, hold, told>>

Init == phase = "coming" /\ hold = FALSE /\ told = FALSE

\* A session that is held runs on as soon as it is no longer to be.
Wakes == phase' = IF phase = "held" THEN "up" ELSE phase

Hold == ~told /\ phase # "over" /\ hold' = TRUE /\ UNCHANGED <<phase, told>>

Release == hold' = FALSE /\ Wakes /\ UNCHANGED told

Tell == told' = TRUE /\ hold' = FALSE /\ Wakes

ComeUp == phase = "coming" /\ phase' = "up" /\ UNCHANGED <<hold, told>>

Rest == phase = "up" /\ hold /\ ~told /\ phase' = "held" /\ UNCHANGED <<hold, told>>

\* On the way out of a login or of the main loop.
Leave == phase \in {"coming", "up"} /\ phase' = "leaving" /\ UNCHANGED <<hold, told>>

\* A session told to end before it began is over at once.
End == /\ phase = "leaving" \/ (phase = "coming" /\ told)
       /\ phase' = "over"
       /\ UNCHANGED <<hold, told>>

Next == Hold \/ Release \/ Tell \/ ComeUp \/ Rest \/ Leave \/ End

Spec == Init /\ [][Next]_vars
=============================================================================
