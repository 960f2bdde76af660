----------------------------- MODULE PauseResume ----------------------------
(***************************************************************************)
(* Pausing, resuming, reconnecting and stopping an Android session: the    *)
(* VPN thread (core/OpenConnectManagementThread.java) with the library it  *)
(* runs, the receiver that watches network and screen                      *)
(* (core/DeviceStateReceiver.java) and the alarm that keeps a paused       *)
(* session alive (core/KeepAlive.java).                                    *)
(*                                                                         *)
(* Actors.  The main thread runs one event after another, each at most one *)
(* section under mMainloopLock; stopVPN may come from any thread.  The VPN *)
(* thread runs beside it, and so does the worker of KeepAlive.  One        *)
(* session is followed from the launch of its thread.                      *)
(***************************************************************************)
EXTENDS Mainloop

CONSTANTS
    NetchangeReconnect,  \* the user's setting netchangereconnect
    MaxEvents            \* bound: events of network, screen, settings and alarm

ASSUME PauseAssumption == NetchangeReconnect \in BOOLEAN /\ MaxEvents \in Nat

VARIABLES
    mRequestPause,
    mRequestDisconnect,
    rcv,                 \* the DeviceStateReceiver
    ka,                  \* the KeepAlive
    nEvents              \* events so far (bound only)

req  == <<mRequestPause, mRequestDisconnect>>
vars == <<pc, lib, req, rcv, ka, nEvents>>

\* "new" is before mOC is made, "after" the return of the main loop for a pause,
\* "wait" and "woken" the wait on mMainloopLock, "nocookie" and "nocstp" the
\* return of a login and of a connection that failed, "alert" the wait for the
\* user to close the error dialog, "end" the way out of run().
InLibrary == {"created", "cookie", "form", "cstp", "tun"} \cup Loop
Alive     == InLibrary \cup {"after", "wait", "woken"}
Leaving   == {"nocookie", "nocstp", "alert", "end"}
Pc        == Alive \cup Leaving \cup {"new", "done"}

\* No network, WiFi, mobile.
Uplinks == {"none", "wifi", "mobile"}

Receiver == [state : {"none", "on", "off"}, pauseOnScreenOff : BOOLEAN, screenOff : BOOLEAN,
             networkOff : BOOLEAN, networkType : {"wifi", "mobile", "unknown"},
             keepalive : BOOLEAN, paused : BOOLEAN]

\* on: mConnectionActive; alarm: one is set; probe: the query a worker makes.
KeepAlive == [on : BOOLEAN, alarm : BOOLEAN, probe : {"none", "query", "answered"}]

TypeOK ==
    /\ LibTypeOK
    /\ pc \in Pc
    /\ mRequestPause \in BOOLEAN /\ mRequestDisconnect \in BOOLEAN
    /\ rcv \in Receiver
    /\ ka \in KeepAlive
    /\ nEvents \in 0..MaxEvents

Init ==
    /\ LibInit
    /\ pc = "new"
    /\ mRequestPause = FALSE /\ mRequestDisconnect = FALSE
    /\ \E b \in BOOLEAN :
         rcv = [state |-> "none", pauseOnScreenOff |-> b, screenOff |-> FALSE,
                networkOff |-> TRUE, networkType |-> "unknown",
                keepalive |-> FALSE, paused |-> FALSE]
    /\ ka = [on |-> FALSE, alarm |-> FALSE, probe |-> "none"]
    /\ nEvents = 0

(***************************************************************************)
(* What other threads may ask of the VPN thread, under mMainloopLock.      *)
(***************************************************************************)
HasLib == pc \notin {"new", "done"}

\* notify(): the VPN thread is the only one that waits.
Notify == pc' = IF pc = "wait" THEN "woken" ELSE pc

LibRest == UNCHANGED <<gotCancel, gotPause, conn>>

\* Fault: a session that is ending may still be paused.
PauseAnyway ==
    /\ IF ~mRequestPause /\ HasLib
       THEN mRequestPause' = TRUE /\ Send("p")
       ELSE UNCHANGED <<mRequestPause, pipe>>
    /\ UNCHANGED <<pc, mRequestDisconnect>> /\ LibRest

Pause ==
    /\ IF ~mRequestPause /\ ~mRequestDisconnect /\ HasLib
       THEN mRequestPause' = TRUE /\ Send("p")
       ELSE UNCHANGED <<mRequestPause, pipe>>
    /\ UNCHANGED <<pc, mRequestDisconnect>> /\ LibRest

\* Fault: the flag alone, and nobody is woken.
ResumeSilent ==
    /\ mRequestPause' = FALSE
    /\ UNCHANGED <<pc, mRequestDisconnect, pipe>> /\ LibRest

\* Fault: only a thread that already waits is resumed.
ResumeWaiting ==
    /\ IF pc = "wait" THEN mRequestPause' = FALSE /\ Notify
                      ELSE UNCHANGED <<mRequestPause, pc>>
    /\ UNCHANGED <<mRequestDisconnect, pipe>> /\ LibRest

Resume ==
    /\ IF mRequestPause THEN mRequestPause' = FALSE /\ Notify
                        ELSE UNCHANGED <<mRequestPause, pc>>
    /\ UNCHANGED <<mRequestDisconnect, pipe>> /\ LibRest

Reconnect ==
    /\ IF HasLib THEN Send("p") ELSE UNCHANGED pipe
    /\ UNCHANGED <<pc, req>> /\ LibRest

\* Fault: a stop leaves the pause as it stands.
StopKeepsPause ==
    /\ ~mRequestDisconnect
    /\ mRequestDisconnect' = TRUE
    /\ IF HasLib THEN Send("x") ELSE UNCHANGED pipe
    /\ Notify
    /\ LibRest
    /\ UNCHANGED <<mRequestPause, rcv, ka, nEvents>>

\* stopVPN; a second one adds nothing.
Stop ==
    /\ ~mRequestDisconnect
    /\ mRequestDisconnect' = TRUE
    /\ mRequestPause' = FALSE
    /\ IF HasLib THEN Send("x") ELSE UNCHANGED pipe
    /\ Notify
    /\ LibRest
    /\ UNCHANGED <<rcv, ka, nEvents>>

Event == nEvents < MaxEvents /\ nEvents' = nEvents + 1

RequestStats ==
    /\ Event
    /\ ~mRequestPause /\ ~mRequestDisconnect /\ HasLib
    /\ Send("s")
    /\ UNCHANGED <<pc, req, rcv, ka>> /\ LibRest

(***************************************************************************)
(* DeviceStateReceiver.                                                    *)
(***************************************************************************)
WantsPause(r) == (r.pauseOnScreenOff /\ r.screenOff /\ ~r.keepalive) \/ r.networkOff

\* updatePauseState, on the receiver as the event leaves it.
UpdatePauseState(r) ==
    /\ IF WantsPause(r) /\ ~r.paused THEN Pause
       ELSE IF ~WantsPause(r) /\ r.paused THEN Resume
       ELSE UNCHANGED <<pc, lib, req>>
    /\ rcv' = [r EXCEPT !.paused = WantsPause(r)]

\* Fault: the kind of a network that is not there is kept as well.
ApplyNetworkRaw(u) ==
    UpdatePauseState([rcv EXCEPT !.networkType = u, !.networkOff = u = "none"])

\* applyNetwork: a change of the kind of network starts the session over.
ApplyNetwork(u) ==
    IF u = "none" THEN UpdatePauseState([rcv EXCEPT !.networkOff = TRUE])
    ELSE LET r == [rcv EXCEPT !.networkType = u, !.networkOff = FALSE]
         IN  IF /\ rcv.networkType \notin {"unknown", u}
                /\ ~rcv.paused /\ NetchangeReconnect
             THEN Reconnect /\ rcv' = r
             ELSE UpdatePauseState(r)

\* start(), right after the thread was launched.
Register ==
    /\ rcv.state = "none"
    /\ \E u \in Uplinks :
         IF u = "none" THEN UpdatePauseState([rcv EXCEPT !.state = "on"])
         ELSE UpdatePauseState([rcv EXCEPT !.state = "on", !.networkType = u,
                                           !.networkOff = FALSE])
    /\ UNCHANGED <<ka, nEvents>>

Network ==
    /\ Event
    /\ rcv.state = "on"
    /\ \E u \in Uplinks : ApplyNetwork(u)
    /\ UNCHANGED ka

\* A network callback that was posted before stop() finds no connectivity manager.
LateNetwork ==
    /\ Event
    /\ rcv.state = "off"
    /\ ApplyNetwork("none")
    /\ UNCHANGED ka

Screen ==
    /\ Event
    /\ rcv.state = "on"
    /\ \E off \in BOOLEAN : UpdatePauseState([rcv EXCEPT !.screenOff = off])
    /\ UNCHANGED ka

PrefChanged ==
    /\ Event
    /\ rcv.state = "on"
    /\ \E b \in BOOLEAN : UpdatePauseState([rcv EXCEPT !.pauseOnScreenOff = b])
    /\ UNCHANGED ka

SetKeepalive(active) == UpdatePauseState([rcv EXCEPT !.keepalive = active])

(***************************************************************************)
(* KeepAlive: now and then a paused session is resumed for one query.      *)
(***************************************************************************)

\* Once STATE_CONNECTED shows: of this session, or of the one before still.
RegisterKeepAlive ==
    /\ rcv.state = "on" /\ ~ka.on /\ ka.probe = "none"
    /\ pc \in Loop \cup {"new", "after", "wait", "woken", "end"}
    /\ ka' = [ka EXCEPT !.on = TRUE, !.alarm = TRUE]
    /\ UNCHANGED <<pc, lib, req, rcv, nEvents>>

Alarm ==
    /\ Event
    /\ ka.alarm
    /\ IF ka.on THEN SetKeepalive(TRUE) /\ ka' = [ka EXCEPT !.alarm = FALSE, !.probe = "query"]
                ELSE ka' = [ka EXCEPT !.alarm = FALSE] /\ UNCHANGED <<pc, lib, req, rcv>>

\* The worker's query, answered or timed out.
Probe ==
    /\ ka.probe = "query"
    /\ ka' = [ka EXCEPT !.probe = "answered"]
    /\ UNCHANGED <<pc, lib, req, rcv, nEvents>>

\* Fault: after a failed query no next one is scheduled.
ProbeDoneOnce ==
    /\ ka.probe = "answered"
    /\ \E ok \in BOOLEAN : ka' = [ka EXCEPT !.alarm = ok, !.probe = "none"]
    /\ SetKeepalive(FALSE)
    /\ UNCHANGED nEvents

\* Scheduled again, also after stop().
ProbeDone ==
    /\ ka.probe = "answered"
    /\ ka' = [ka EXCEPT !.alarm = TRUE, !.probe = "none"]
    /\ SetKeepalive(FALSE)
    /\ UNCHANGED nEvents

\* unregisterReceivers: the thread has been told to stop, or has ended.
Unregister ==
    /\ rcv.state = "on"
    /\ mRequestDisconnect \/ pc = "done"
    /\ rcv' = [rcv EXCEPT !.state = "off"]
    /\ ka' = [ka EXCEPT !.on = FALSE, !.alarm = FALSE]
    /\ UNCHANGED <<pc, lib, req, nEvents>>

MainNext == \/ Register \/ Network \/ LateNetwork \/ Screen \/ PrefChanged
            \/ RegisterKeepAlive \/ Alarm \/ ProbeDone \/ Unregister
            \/ RequestStats \/ Stop

(***************************************************************************)
(* The VPN thread outside the library.                                     *)
(***************************************************************************)
Rest == UNCHANGED <<lib, req, rcv, ka, nEvents>>

Create ==
    /\ pc = "new"
    /\ pc' = IF mRequestDisconnect THEN "done" ELSE "created"
    /\ Rest

\* setPreferences, which may fail, and parseURL, whose failure is shown.
Start ==
    /\ pc = "created"
    /\ \/ pc' = "end"
       \/ ~mRequestDisconnect /\ pc' \in {"cookie", "alert"}
    /\ Rest

\* An authentication form, and the answer to it.
Form ==
    /\ \/ pc = "cookie" /\ pc' = "form"
       \/ pc = "form" /\ pc' = "cookie"
    /\ Rest

\* obtainCookie has returned with a cookie.
Cookie ==
    /\ pc = "cookie"
    /\ pc' = IF mRequestDisconnect THEN "end" ELSE "cstp"
    /\ Rest

\* obtainCookie has failed: an error is shown unless a stop has come, the user
\* refused the certificate or gave up the form.
NoCookie ==
    /\ pc = "nocookie"
    /\ pc' \in IF mRequestDisconnect THEN {"end"} ELSE {"alert", "end"}
    /\ Rest

\* makeCSTPConnection has failed.
NoCstp ==
    /\ pc = "nocstp"
    /\ pc' = IF mRequestDisconnect THEN "end" ELSE "alert"
    /\ Rest

\* establish, which may throw, and setupTunFD, whose failure is shown even to a
\* session that was told to stop.
Tun ==
    /\ pc = "tun"
    /\ pc' \in {"tcp", "alert", "end"}
    /\ Rest

\* errorAlert returns: the user, and nobody else, has closed the dialog.
Dismiss ==
    /\ pc = "alert"
    /\ pc' = "end"
    /\ Rest

\* Fault: the main loop is called again at once.
AfterAtOnce ==
    /\ pc = "after"
    /\ pc' = "tcp"
    /\ Rest

\* The main loop has returned for a pause: it is called again, after a wait if
\* the pause stands and no stop has come.
After ==
    /\ pc = "after"
    /\ pc' = IF ~mRequestDisconnect /\ mRequestPause THEN "wait" ELSE "tcp"
    /\ Rest

Woken ==
    /\ pc = "woken"
    /\ pc' = IF mRequestPause THEN "wait" ELSE "tcp"
    /\ Rest

End ==
    /\ pc = "end"
    /\ pc' = "done"
    /\ Rest

VpnNext == \/ Create \/ Start \/ Form \/ Cookie \/ Tun \/ After \/ Woken \/ End
           \/ NoCookie \/ NoCstp \/ Dismiss
           \/ (LibNext /\ UNCHANGED <<req, rcv, ka, nEvents>>)

-----------------------------------------------------------------------------
Next == MainNext \/ VpnNext \/ Probe

Spec == Init /\ [][Next]_vars

\* The VPN thread runs on.  In a wait for the network it may stay for ever
\* unless the command pipe holds a byte, and so in select(); in a form and in
\* the error dialog it may stay for ever.
VpnProgress ==
    \/ Create \/ Start \/ NoCookie \/ NoCstp \/ Tun \/ After \/ Woken \/ End
    \/ /\ WaitSees("cookie") \/ WaitSees("cstp") \/ RetrySees \/ Tcp \/ Poll
          \/ (pipe # <<>> /\ Awake)
       /\ UNCHANGED <<req, rcv, ka, nEvents>>

FairSpec == Spec /\ WF_vars(VpnProgress)

(***************************************************************************)
(* What the session promises.                                              *)
(***************************************************************************)

\* A stop is never lost: until the thread is on its way out, its byte is in the
\* pipe or has been read and not yet acted on, whatever other bytes come and go.
CancelNotLost ==
    mRequestDisconnect /\ pc \in Alive => Sent("x") \/ gotCancel

\* A pause is never lost either: while it stands, the library has yet to see it
\* or is about to return for it.
PauseNotLost ==
    mRequestPause /\ pc \in InLibrary => Sent("p") \/ gotPause

\* The thread waits only while a pause stands: no resume and no stop is missed
\* between the test and the wait.
NoLostWakeup == pc = "wait" => mRequestPause

\* The session is held only while its receiver wants it held.
RunsWhenWanted == mRequestPause => rcv.paused

\* While KeepAlive is at work the next alarm is set or a query is under way,
\* and the receiver lets the session run for exactly as long as the query.
KeepaliveInStep ==
    /\ ka.on => ka.alarm \/ ka.probe # "none"
    /\ rcv.keepalive <=> ka.probe # "none"

\* What HeldSession promises holds of the thread: it is held only on demand and
\* only once it came up, never after a stop; it never goes back to the login,
\* and every wait ends by a resume or a stop.
Phase == CASE pc = "wait" -> "held"
           [] pc \in Leaving -> "leaving"
           [] pc = "done" -> "over"
           [] pc \in Loop \cup {"after", "woken"} -> "up"
           [] OTHER       -> "coming"

Held == INSTANCE HeldSession WITH phase <- Phase, hold <- mRequestPause,
                                  told <- mRequestDisconnect

ImplementsHeld == Held!Spec

\* openconnect.h: "CANCEL closes network connections".  A session told to stop
\* ends, wherever it was found, unless it sits in a form or comes to show an
\* error that nobody answers: stopVPN does not wake a thread that waits for the
\* user.
CancelEnds == mRequestDisconnect ~> pc \in {"done", "form", "alert"}

\* openconnect.h: "PAUSE closes network connections and returns."  A pause that
\* stands leads to the wait, or to the way out of the session.
PauseTakesHold ==
    mRequestPause ~> ~mRequestPause \/ pc \in Leaving \cup {"wait", "done", "form"}

\* strings.xml: "Pause the connection when the screen is off, to save battery
\* life."  A session that is up does not run on in the dark, keepalive apart.
PauseReachesSession ==
    /\ rcv.state = "on" /\ rcv.pauseOnScreenOff /\ rcv.screenOff /\ ~rcv.keepalive
    /\ pc \in Loop /\ ~mRequestDisconnect
    => mRequestPause
=============================================================================
