------------------------------- MODULE Timers -------------------------------
(***************************************************************************)
(* The timers of the TLS tunnel: dead-peer detection, keepalive and rekey  *)
(* (keepalive_action and ka_stalled_action of mainloop.c), as cstp_mainloop *)
(* of cstp.c serves them from one pass of openconnect_mainloop to the next. *)
(*                                                                         *)
(* Time is in whole seconds, as time() counts them.  The loop is not always *)
(* on time: up to Delay seconds may go by between two looks at the timers  *)
(* in which it works, or is late to be woken.  What the packets carry, the *)
(* commands and DTLS, which has timers of its own, are left out.           *)
(***************************************************************************)
EXTENDS Naturals

CONSTANTS
    Dpd,         \* dpd, the seconds without a packet after which to probe; 0 for never
    Keepalive,   \* keepalive, the seconds without sending; 0 for never
    Rekey,       \* rekey, the seconds a key lasts; 0 for ever
    Delay,       \* seconds by which the loop may be late
    Answer,      \* seconds within which a peer that lives answers a probe
    MaxTime      \* bound: the last second looked at

ASSUME TimersAssumption ==
    /\ Dpd \in Nat /\ Keepalive \in Nat /\ Rekey \in Nat
    /\ Delay \in Nat /\ Answer \in Nat /\ MaxTime \in Nat

VARIABLES
    pc,          \* where the loop is
    last_rx, last_tx, last_dpd, last_rekey,     \* ssl_times
    pkt,         \* current_ssl_pkt: none, a probe of ours, or anything else
    owe,         \* owe_ssl_dpd_response
    readable,    \* tcp_r, what the last select() said
    dues,        \* the deadlines that bound the timeout of this pass
    now,         \* time(NULL)
    late,        \* seconds the loop lost since it last looked at its timers
    alive,       \* the peer lives
    unread,      \* something of the peer is in the socket
    asked,       \* history: when the first probe since last_rx was sent, or 0
    probes,      \* history: probes begun since last_rx
    hindered,    \* history: since last_rx a write stalled or a handshake ran
    back         \* history: when the last handshake ended

times == <<last_rx, last_tx, last_dpd, last_rekey>>
hist  == <<asked, probes, hindered, back>>
vars  == <<pc, times, pkt, owe, readable, dues, now, late, alive, unread, hist>>

\* cstp_mainloop reads, writes current_ssl_pkt, looks at a stalled write and at
\* the timers; openconnect_mainloop has its result, sleeps in select(); the
\* peer is found dead, keys or the connection are made anew; the loop is over.
Working == {"pass", "write", "stalled", "judge", "return"}
Serving == Working \cup {"sleep", "dead"}
Pc      == Serving \cup {"handshake", "reconnect", "gone"}

TypeOK ==
    /\ pc \in Pc
    /\ now \in Nat /\ back \in 0..now /\ asked \in 0..now
    /\ last_rx \in 0..now /\ last_tx \in 0..now /\ last_dpd \in 0..now /\ last_rekey \in 0..now
    /\ pkt \in {"none", "probe", "other"}
    /\ dues \subseteq Nat
    /\ late \in 0..Delay /\ probes \in Nat
    /\ owe \in BOOLEAN /\ readable \in BOOLEAN
    /\ alive \in BOOLEAN /\ unread \in BOOLEAN /\ hindered \in BOOLEAN

\* The connection was just made; the loop begins as if all were readable.
Init ==
    /\ pc = "pass" /\ pkt = "none" /\ owe = FALSE /\ readable = TRUE /\ dues = {}
    /\ now = 1 /\ late = 0
    /\ last_rx = 1 /\ last_tx = 1 /\ last_rekey = 1 /\ last_dpd = 0
    /\ alive = TRUE /\ unread = FALSE
    /\ asked = 0 /\ probes = 0 /\ hindered = FALSE /\ back = 0

(***************************************************************************)
(* The deadlines.                                                          *)
(***************************************************************************)
Half == Dpd \div 2

\* Fault: one probe is given to answer, and no second.
OverdueSoon == last_rx + Dpd

\* last_rx + 2 * dpd: a peer not heard by then is dead.
Overdue == last_rx + 2 * Dpd

\* Fault: a probe that is out is forgotten.
ProbeAtOnce == last_rx + Dpd

\* The next probe, half a period after one that is out.
ProbeAt == IF last_dpd > last_rx THEN last_dpd + Half ELSE last_rx + Dpd

RekeyTimer     == IF Rekey > 0 THEN {last_rekey + Rekey} ELSE {}
ProbeTimer     == IF Dpd > 0 THEN {ProbeAt} ELSE {}
OverdueTimer   == IF Dpd > 0 THEN {Overdue} ELSE {}
KeepaliveTimer == IF Keepalive > 0 THEN {last_tx + Keepalive} ELSE {}

\* ka_check_deadline: it is due, or it bounds the sleep.
Due(timer) == \E d \in timer : now >= d

(***************************************************************************)
(* cstp_mainloop.                                                          *)
(***************************************************************************)

\* What is written next: the packet kept from before, an answer that is owed, or
\* whatever the timers say.
Proceed(kept, owed) ==
    IF kept # "none" THEN pc' = "write" /\ pkt' = kept /\ owe' = owed
    ELSE IF owed     THEN pc' = "write" /\ pkt' = "other" /\ owe' = FALSE
                     ELSE pc' = "judge" /\ pkt' = "none" /\ owe' = FALSE

Heard == last_rx' = now /\ asked' = 0 /\ probes' = 0 /\ hindered' = FALSE

Read ==
    /\ pc = "pass"
    /\ IF readable /\ unread
       THEN /\ Heard /\ unread' = FALSE
            /\ \E request \in BOOLEAN : Proceed(pkt, owe \/ request)
       ELSE Proceed(pkt, owe) /\ UNCHANGED <<last_rx, asked, probes, hindered, unread>>
    /\ UNCHANGED <<last_tx, last_dpd, last_rekey, readable, dues, now, late, alive, back>>

\* The connection is lost, or the server ends the session.
ReadFails ==
    /\ pc = "pass" /\ readable
    /\ pc' \in {"reconnect", "gone"}
    /\ UNCHANGED <<times, pkt, owe, readable, dues, now, late, alive, unread, hist>>

Sent ==
    /\ pc = "write"
    /\ last_tx' = now
    /\ asked' = IF pkt = "probe" /\ asked = 0 THEN now ELSE asked
    /\ Proceed("none", owe)
    /\ UNCHANGED <<last_rx, last_dpd, last_rekey, readable, dues, now, late, alive, unread,
                   probes, hindered, back>>

Stalls ==
    /\ pc = "write"
    /\ last_tx' = now
    /\ pc' = "stalled" /\ hindered' = TRUE
    /\ UNCHANGED <<last_rx, last_dpd, last_rekey, pkt, owe, readable, dues, now, late, alive,
                   unread, asked, probes, back>>

\* The write fails, or SSL wrote too little.
WriteFails ==
    /\ pc = "write"
    /\ last_tx' = now
    /\ pc' \in {"reconnect", "gone"}
    /\ UNCHANGED <<last_rx, last_dpd, last_rekey, pkt, owe, readable, dues, now, late, alive,
                   unread, hist>>

\* do_rekey, by either method the server may ask for.
DoRekey ==
    /\ last_rekey' = now
    /\ pc' \in {"handshake", "reconnect"}
    /\ UNCHANGED <<last_dpd, pkt, dues, probes>>

\* Fault: a packet that is stuck puts off the rekey.
StalledActionNoRekey ==
    /\ pc = "stalled"
    /\ late' = 0
    /\ IF Due(OverdueTimer) THEN pc' = "dead" /\ UNCHANGED dues
       ELSE pc' = "return" /\ dues' = dues \cup OverdueTimer
    /\ UNCHANGED <<times, pkt, owe, readable, now, alive, unread, hist>>

\* ka_stalled_action.
StalledAction ==
    /\ pc = "stalled"
    /\ late' = 0
    /\ IF Due(RekeyTimer) THEN DoRekey
       ELSE /\ IF Due(OverdueTimer) THEN pc' = "dead" /\ UNCHANGED dues
               ELSE pc' = "return" /\ dues' = dues \cup RekeyTimer \cup OverdueTimer
            /\ UNCHANGED <<last_dpd, last_rekey, pkt, probes>>
    /\ UNCHANGED <<last_rx, last_tx, owe, readable, now, alive, unread, asked, hindered, back>>

\* Fault: what is noted is when the next probe may be sent.
SendProbeAhead ==
    /\ last_dpd' = now + Half /\ probes' = probes + 1
    /\ pkt' = "probe" /\ pc' = "write"
    /\ dues' = dues \cup RekeyTimer

\* Fault: with nothing queued nothing is sent.
SendKeepaliveNot ==
    /\ \/ pkt' = "other" /\ pc' = "write"
       \/ pkt' = "none" /\ pc' = "return"
    /\ dues' = dues \cup RekeyTimer \cup ProbeTimer
    /\ UNCHANGED <<last_dpd, probes>>

\* KA_DPD, KA_KEEPALIVE, and the queue; what is queued goes out for the keepalive.
SendProbe ==
    /\ last_dpd' = now /\ probes' = probes + 1
    /\ pkt' = "probe" /\ pc' = "write"
    /\ dues' = dues \cup RekeyTimer

SendKeepalive ==
    /\ pkt' = "other" /\ pc' = "write"
    /\ dues' = dues \cup RekeyTimer \cup ProbeTimer
    /\ UNCHANGED <<last_dpd, probes>>

Serve ==
    /\ \/ pkt' = "other" /\ pc' = "write"
       \/ pkt' = "none" /\ pc' = "return"
    /\ dues' = dues \cup RekeyTimer \cup ProbeTimer \cup KeepaliveTimer
    /\ UNCHANGED <<last_dpd, probes>>

\* Fault: a peer is not dead while it may be probed once more.
KeepaliveActionProbes ==
    /\ pc = "judge"
    /\ late' = 0
    /\ IF Due(RekeyTimer) THEN DoRekey
       ELSE /\ IF Due(ProbeTimer) THEN SendProbe
               ELSE IF Dpd > 0 /\ now > Overdue
               THEN pc' = "dead" /\ UNCHANGED <<last_dpd, pkt, dues, probes>>
               ELSE IF Due(KeepaliveTimer) THEN SendKeepalive ELSE Serve
            /\ UNCHANGED last_rekey
    /\ UNCHANGED <<last_rx, last_tx, owe, readable, now, alive, unread, asked, hindered, back>>

\* keepalive_action and what is done for it.
KeepaliveAction ==
    /\ pc = "judge"
    /\ late' = 0
    /\ IF Due(RekeyTimer) THEN DoRekey
       ELSE /\ IF Dpd > 0 /\ now > Overdue
               THEN pc' = "dead" /\ UNCHANGED <<last_dpd, pkt, dues, probes>>
               ELSE IF Due(ProbeTimer) THEN SendProbe
               ELSE IF Due(KeepaliveTimer) THEN SendKeepalive ELSE Serve
            /\ UNCHANGED last_rekey
    /\ UNCHANGED <<last_rx, last_tx, owe, readable, now, alive, unread, asked, hindered, back>>

\* peer_dead.
PeerDead ==
    /\ pc = "dead" /\ pc' = "reconnect"
    /\ UNCHANGED <<times, pkt, owe, readable, dues, now, late, alive, unread, hist>>

\* cstp_handshake takes its time, and what it hears is not noted in last_rx.
Handshake ==
    /\ pc = "handshake"
    /\ \/ pc' = "pass" /\ dues' = {} /\ hindered' = TRUE /\ back' = now
       \/ pc' = "reconnect" /\ UNCHANGED <<dues, hindered, back>>
    /\ UNCHANGED <<times, pkt, owe, readable, now, late, alive, unread, asked, probes>>

\* cstp_reconnect: the packet in hand and the answer owed are kept, but a deflated
\* packet goes back into the queue.
Reconnected ==
    /\ pc = "reconnect" /\ pc' = "pass"
    /\ Heard /\ last_tx' = now /\ last_rekey' = now
    /\ pkt' \in {pkt} \cup (IF pkt = "other" THEN {"none"} ELSE {})
    /\ alive' = TRUE /\ unread' = FALSE
    /\ dues' = {} /\ late' = 0
    /\ UNCHANGED <<last_dpd, owe, readable, now, back>>

\* It failed, was cancelled, or paused.
ReconnectFails ==
    /\ pc = "reconnect" /\ pc' = "gone"
    /\ UNCHANGED <<times, pkt, owe, readable, dues, now, late, alive, unread, hist>>

(***************************************************************************)
(* openconnect_mainloop.                                                   *)
(***************************************************************************)

\* Work was done: another pass, with what the last select() said.
Again ==
    /\ pc = "return" /\ pc' = "pass" /\ dues' = {}
    /\ UNCHANGED <<times, pkt, owe, readable, now, late, alive, unread, hist>>

Sleep ==
    /\ pc = "return" /\ pc' = "sleep"
    /\ UNCHANGED <<times, pkt, owe, readable, dues, now, late, alive, unread, hist>>

\* For a deadline, or anything on any of its descriptors.
Wake ==
    /\ pc = "sleep" /\ pc' = "pass" /\ dues' = {}
    /\ readable' \in {unread, TRUE}
    /\ UNCHANGED <<times, pkt, owe, now, late, alive, unread, hist>>

(***************************************************************************)
(* The peer, and time.                                                     *)
(***************************************************************************)
Arrives ==
    /\ alive /\ pc \notin {"reconnect", "gone"} /\ ~unread
    /\ unread' = TRUE
    /\ UNCHANGED <<pc, times, pkt, owe, readable, dues, now, late, alive, hist>>

Dies ==
    /\ alive /\ pc \notin {"reconnect", "gone"}
    /\ alive' = FALSE
    /\ UNCHANGED <<pc, times, pkt, owe, readable, dues, now, late, unread, hist>>

\* Time that is not the loop's: it sleeps and has no reason to wake, or it waits
\* for a handshake or a connection.
Idle ==
    \/ pc = "sleep" /\ ~unread /\ \A d \in dues : d > now
    \/ pc \in {"handshake", "reconnect"}

Tick ==
    /\ pc \notin {"dead", "gone"} /\ now < MaxTime
    /\ alive /\ asked # 0 /\ ~unread => now < asked + Answer
    /\ now' = now + 1
    /\ IF Idle THEN UNCHANGED late ELSE late < Delay /\ late' = late + 1
    /\ UNCHANGED <<pc, times, pkt, owe, readable, dues, alive, unread, hist>>

Loop ==
    \/ Read \/ ReadFails \/ Sent \/ Stalls \/ WriteFails
    \/ StalledAction \/ KeepaliveAction
    \/ PeerDead \/ Handshake \/ Reconnected \/ ReconnectFails
    \/ Again \/ Sleep \/ Wake

Next == Loop \/ Arrives \/ Dies \/ Tick

Spec == Init /\ [][Next]_vars

(***************************************************************************)
(* Properties.                                                             *)
(***************************************************************************)
Later(t) == IF t > back THEN t ELSE back

\* A peer that is silent is given up in time: half a period after twice dpd, for
\* it is the next probe and not the end that the loop sleeps for.
DeathInTime ==
    Dpd > 0 /\ pc \in Serving => now <= Later(Overdue + Half) + Delay

\* Only a dead peer is given up (peer_dead), unless the loop has not looked at
\* what it sent, could not write, or was away for a handshake.  A peer must have
\* the time to answer a probe.
DeadIsDead ==
    pc = "dead" /\ Answer + 2 * Delay <= Dpd => ~alive \/ unread \/ hindered

\* Keys are not used beyond their time.
RekeyInTime ==
    Rekey > 0 /\ pc \in Serving => now <= Later(last_rekey + Rekey) + Delay

\* The client is never silent for longer than keepalive, unless a packet of its
\* own is stuck; and it does not sleep on an answer it owes.
NeverSilent ==
    pkt = "none" =>
        /\ Keepalive > 0 /\ pc \in Serving => now <= Later(last_tx + Keepalive) + Delay
        /\ pc = "sleep" => ~owe

\* A silent peer is probed at most four times: "If we already have DPD outstanding,
\* don't flood."  A dpd of 1, which only the server can set, has no half.
NoProbeStorm == Dpd # 1 => probes <= 4
=============================================================================
