---------------------------- MODULE ProfileSwitch ---------------------------
(***************************************************************************)
(* What the user of a profile switch may rely on (core/OpenVpnService.java), *)
(* whatever the VPN threads, the joins that time out, the runnables posted *)
(* and a disconnect from outside do in between.                            *)
(*                                                                         *)
(* A switch from one profile to another ends in one of three ways: a       *)
(* session comes up, which settles it; it fails, which the user is told;   *)
(* or the user disconnects.  It goes back to the old profile at most once, *)
(* by itself or because the user asked, and it never fails without having  *)
(* gone back, unless the old profile has been deleted.                     *)
(***************************************************************************)
EXTENDS Naturals

CONSTANTS
    Profiles,    \* profiles there ever were
    None

VARIABLES
    known,       \* the profiles there are
    current,     \* the profile last begun
    next,        \* the profile about to be begun
    stage,       \* of the switch: none, forth, and back after it failed or as asked
    from, to,    \* the profiles of the switch
    result,      \* what the user is to be told of a switch that failed
    toast,       \* the profile that is said to be back after the user gave up
    up,          \* a session is shown as connected
    requests,    \* how often the user asked for a profile
    stops        \* how often the user disconnected

switch == <<stage, from, to>>
user   == <<requests, stops>>
vars   == <<known, current, next, switch, result, toast, up, user>>

Init ==
    /\ known = Profiles
    /\ current \in Profiles \cup {None} /\ next = None
    /\ stage = "none" /\ from = None /\ to = None
    /\ result = None /\ toast = None /\ up = FALSE
    /\ requests = 0 /\ stops = 0

Close == stage' = "none" /\ from' = None /\ to' = None

\* A request for p: a new switch, a new target for the one under way, or no
\* switch, because nothing is there to switch from.
Request(p) ==
    /\ next = None /\ next' = p
    /\ p \in known
    /\ \/ UNCHANGED switch
       \/ /\ stage = "none" /\ stage' = "forth"
          /\ current \notin {None, p} /\ from' = current /\ to' = p
       \/ stage # "none" /\ to' = p /\ UNCHANGED <<stage, from>>
    /\ requests' = requests + 1
    /\ UNCHANGED <<known, current, result, toast, up, stops>>

\* The target could not be reached, or the user gave it up.
GoBack ==
    /\ stage = "forth" /\ next = None
    /\ \/ from \in known /\ next' = from /\ stage' \in {"failed", "asked"}
       \/ from \notin known /\ next' = None /\ stage' = "asked"
    /\ UNCHANGED <<known, current, from, to, result, toast, up, user>>

Begin ==
    /\ next # None /\ current' = next /\ next' = None
    /\ UNCHANGED <<known, switch, result, toast, up, user>>

\* A session comes up where none was shown.
ComeUp ==
    /\ ~up /\ up' = TRUE
    /\ Close
    /\ IF stage = "none" THEN UNCHANGED <<result, toast>>
       ELSE /\ result' = IF stage = "failed"
                         THEN [kind |-> "reverted", failed |-> to, old |-> current]
                         ELSE None
            /\ toast' = IF stage = "asked" THEN current ELSE None
    /\ UNCHANGED <<known, current, next, user>>

GoDown == up' = FALSE /\ UNCHANGED <<known, current, next, switch, result, toast, user>>

Fail ==
    /\ stage # "none" /\ next = None
    /\ stage = "forth" => from \notin known
    /\ Close
    /\ result' = [kind |-> IF stage = "forth" THEN "target" ELSE "both",
                  failed |-> to, old |-> from]
    /\ UNCHANGED <<known, current, next, toast, up, user>>

\* The user disconnects.
Cancel ==
    /\ Close /\ result' = None
    /\ stops' = stops + 1
    /\ UNCHANGED <<known, current, next, toast, up, requests>>

Delete(p) ==
    /\ next = None
    /\ known' = known \ {p}
    /\ UNCHANGED <<current, next, switch, result, toast, up, user>>

Next == \/ \E p \in Profiles : Request(p) \/ Delete(p)
        \/ GoBack \/ Begin \/ ComeUp \/ GoDown \/ Fail \/ Cancel

Spec == Init /\ [][Next]_vars
=============================================================================
