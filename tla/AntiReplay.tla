----------------------------- MODULE AntiReplay -----------------------------
(***************************************************************************)
(* What the ESP receiver promises, with no bitmap: an authentic packet of  *)
(* a key passes if it is new and not too old.  The text of esp-seqno.c     *)
(* gives the width of the window: the packet last expected, and the W      *)
(* before that one.                                                        *)
(***************************************************************************)
EXTENDS Naturals

CONSTANTS
    Keys,       \* the security associations of the session, one key each
    Seqs,       \* sequence numbers of packets
    W           \* width of the window

VARIABLES
    protect,    \* whether replay protection is on
    accepted,   \* per key, the sequence numbers that have passed
    verdict     \* on the latest authentic packet: see Judge

arVars == <<protect, accepted, verdict>>

NoVerdict == [ok |-> FALSE, protect |-> TRUE, again |-> FALSE, late |-> FALSE]

Init ==
    /\ protect \in BOOLEAN
    /\ accepted = [k \in Keys |-> {}]
    /\ verdict = NoVerdict

\* The packet has passed before; a packet that passed is more than W ahead.
Again(k, s) == s \in accepted[k]
Late(k, s)  == \E t \in accepted[k] : t > s + W

MayPass(k, s) == ~Again(k, s) /\ ~Late(k, s)

Judge(k, s) ==
    LET ok == protect => MayPass(k, s)
    IN  /\ accepted' = [accepted EXCEPT ![k] = IF ok THEN @ \cup {s} ELSE @]
        /\ verdict' = [ok |-> ok, protect |-> protect,
                       again |-> Again(k, s), late |-> Late(k, s)]
        /\ UNCHANGED protect

\* The server chooses, with each set of keys.
Configure ==
    /\ protect' \in BOOLEAN
    /\ UNCHANGED <<accepted, verdict>>

Next == Configure \/ \E k \in Keys, s \in Seqs : Judge(k, s)

Spec == Init /\ [][Next]_arVars
=============================================================================
