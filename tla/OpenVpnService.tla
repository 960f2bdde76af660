--------------------------- MODULE OpenVpnService ---------------------------
(***************************************************************************)
(* The Android VPN service (core/OpenVpnService.java) and the life of its  *)
(* VPN threads (core/OpenConnectManagementThread.java): starting, stopping *)
(* and switching profiles, and going back to the profile before when the   *)
(* new one cannot be reached.                                              *)
(*                                                                         *)
(* Actors.  The main thread handles one request or posted runnable after   *)
(* another.  stopVPN() may also be called from a binder thread (the        *)
(* external API, onRevoke).  Each VPN thread authenticates, runs the       *)
(* tunnel and reports back.  They share the fields of the service, every   *)
(* critical section on its lock being one step of the model; the handlers  *)
(* of the main thread leave the lock between their sections.               *)
(***************************************************************************)
EXTENDS Naturals

CONSTANTS
    Profiles,        \* UUIDs of profiles
    None,            \* null; for mUUID the empty string as well
    Deletable,       \* bound: the profiles the user may delete
    MaxThreads,      \* bound: VPN threads
    MaxRequests,     \* bound: requests to start or to switch
    MaxStops         \* bound: calls of stopVPN

ASSUME ServiceAssumption ==
    /\ None \notin Profiles /\ None \notin Nat /\ Deletable \subseteq Profiles
    /\ MaxThreads \in Nat /\ MaxRequests \in Nat /\ MaxStops \in Nat

VARIABLES
    known,           \* the profiles in the ProfileManager
    mUUID,           \* the profile last begun; from the preferences at first
    switch,          \* mSwitching, mFallingBack, mAbortRestore, mSwitchFromUuid, mSwitchToUuid
    mUserAbort,
    mSwitchResult,   \* message about a failed switch, for the user
    mSwitchToast,    \* message about an aborted one: the profile said to be back
    mConnectionState,
    mVPN,            \* the VPN thread the service listens to
    thr,             \* the VPN threads; the last one begun is mVPNThread
    nThr,            \* VPN threads begun so far
    exits,           \* runnables onVpnThreadExited posted and not yet run
    main,            \* where the main thread is in its handler
    binder,          \* where a binder thread is in stopVPN
    nReq, nStop      \* requests and stops so far

svc   == <<mUUID, switch, mUserAbort, mSwitchResult, mSwitchToast, mConnectionState>>
count == <<nReq, nStop>>
vars  == <<known, svc, mVPN, thr, nThr, exits, main, binder, count>>

Threads == 1..MaxThreads

\* STATE_AUTHENTICATING, STATE_USER_PROMPT and STATE_AUTHENTICATED are one here.
State == {"DISCONNECTED", "CONNECTING", "AUTHENTICATING", "CONNECTED"}

\* Where a VPN thread is; "report" is the moment between setupTunFD and
\* STATE_CONNECTED, "alert" the wait for the user to close the error dialog,
\* "end" and "exit" the end of run().
Running  == {"new", "created", "login", "auth", "cstp", "report", "up", "alert", "end", "exit"}
ThreadPc == Running \cup {"none", "done"}

NoSwitch == [on |-> FALSE, fallingBack |-> FALSE, abortRestore |-> FALSE,
             from |-> None, to |-> None]

Switch == [on : BOOLEAN, fallingBack : BOOLEAN, abortRestore : BOOLEAN,
           from : Profiles \cup {None}, to : Profiles \cup {None}]
Thread == [pc : ThreadPc, profile : Profiles \cup {None}, stop : BOOLEAN]
Result == [kind : {"reverted", "both", "target"}, failed : Profiles, old : Profiles]
Main   == [pc : {"idle", "begin", "halt", "launch", "ask", "connecting",
                 "signal", "stopped", "ended"},
           uuid : Profiles \cup {None}, ask : BOOLEAN]

TypeOK ==
    /\ known \subseteq Profiles
    /\ mUUID \in Profiles \cup {None}
    /\ switch \in Switch
    /\ mUserAbort \in BOOLEAN
    /\ mSwitchResult \in Result \cup {None}
    /\ mSwitchToast \in Profiles \cup {None}
    /\ mConnectionState \in State
    /\ mVPN \in Threads \cup {None}
    /\ thr \in [Threads -> Thread]
    /\ nThr \in 0..MaxThreads
    /\ exits \in Nat
    /\ main \in Main
    /\ binder \in {"idle", "signal", "stopped"}
    /\ nReq \in 0..MaxRequests /\ nStop \in 0..MaxStops

Idle == [pc |-> "idle", uuid |-> None, ask |-> FALSE]

Init ==
    /\ known = Profiles
    /\ mUUID \in Profiles \cup {None}
    /\ switch = NoSwitch
    /\ mUserAbort = FALSE
    /\ mSwitchResult = None /\ mSwitchToast = None
    /\ mConnectionState = "DISCONNECTED"
    /\ mVPN = None
    /\ thr = [i \in Threads |-> [pc |-> "none", profile |-> None, stop |-> FALSE]]
    /\ nThr = 0
    /\ exits = 0
    /\ main = Idle
    /\ binder = "idle"
    /\ nReq = 0 /\ nStop = 0

(***************************************************************************)
(* setConnectionState and the end of a switch.                             *)
(***************************************************************************)

\* Fault: the message is made after the names are forgotten.
SwitchConnectedLate ==
    /\ mSwitchResult' = IF switch.on /\ switch.fallingBack
                        THEN [kind |-> "reverted", failed |-> None, old |-> mUUID]
                        ELSE mSwitchResult
    /\ mSwitchToast' = None
    /\ switch' = NoSwitch
    /\ mUserAbort' = FALSE

\* onSwitchConnectedLocked.
SwitchConnected ==
    IF ~switch.on
    THEN UNCHANGED <<switch, mUserAbort, mSwitchResult, mSwitchToast>>
    ELSE /\ mSwitchResult' = IF switch.fallingBack /\ ~switch.abortRestore
                             THEN [kind |-> "reverted", failed |-> switch.to, old |-> mUUID]
                             ELSE None
         /\ mSwitchToast' = IF switch.fallingBack /\ switch.abortRestore THEN mUUID ELSE None
         /\ switch' = NoSwitch
         /\ mUserAbort' = FALSE

\* A thread that was replaced is not heard, and while switching its end is
\* not shown.
Heard(s, from) ==
    \/ from = None
    \/ mVPN \in {None, from} /\ ~(s = "DISCONNECTED" /\ switch.on)

SetState(s, from) ==
    /\ UNCHANGED mUUID
    /\ IF ~Heard(s, from)
       THEN UNCHANGED <<switch, mUserAbort, mSwitchResult, mSwitchToast, mConnectionState>>
       ELSE /\ mConnectionState' = s
            /\ IF s = "CONNECTED" /\ mConnectionState # "CONNECTED"
               THEN SwitchConnected
               ELSE UNCHANGED <<switch, mUserAbort, mSwitchResult, mSwitchToast>>

\* Fault: the switch that failed is left open.
SwitchFailedOpen ==
    /\ mSwitchResult' = mSwitchResult
    /\ UNCHANGED switch
    /\ mUserAbort' = FALSE

\* completeSwitchFailureLocked.
SwitchFailed ==
    /\ mSwitchResult' = IF ~mUserAbort /\ switch.on
                        THEN [kind |-> IF switch.fallingBack THEN "both" ELSE "target",
                              failed |-> switch.to, old |-> switch.from]
                        ELSE mSwitchResult
    /\ switch' = NoSwitch
    /\ mUserAbort' = FALSE

(***************************************************************************)
(* stopVPN, in three steps: the flags, the signal to the thread, the state *)
(* shown.  What follows only waits.                                        *)
(***************************************************************************)
StopFlags ==
    /\ nStop < MaxStops
    /\ nStop' = nStop + 1
    /\ mUserAbort' = TRUE
    /\ switch' = NoSwitch
    /\ mSwitchResult' = None
    /\ UNCHANGED <<mUUID, mSwitchToast, mConnectionState, mVPN, thr, nThr, exits, nReq>>

\* doStopVPN and stopVPN of the thread: cancel, whatever it is doing.
Signal ==
    thr' = IF mVPN = None THEN thr ELSE [thr EXCEPT ![mVPN].stop = TRUE]

BinderStop ==
    /\ binder = "idle"
    /\ StopFlags
    /\ binder' = "signal"
    /\ UNCHANGED main

BinderSignal ==
    /\ binder = "signal"
    /\ Signal
    /\ binder' = "stopped"
    /\ UNCHANGED <<svc, mVPN, nThr, exits, main, count>>

BinderStopped ==
    /\ binder = "stopped"
    /\ SetState("DISCONNECTED", None)
    /\ binder' = "idle"
    /\ UNCHANGED <<mVPN, thr, nThr, exits, main, count>>

(***************************************************************************)
(* Requests on the main thread.  Each ends in beginProfile or stopVPN.     *)
(***************************************************************************)
\* A profile that has been deleted is not begun, but its state is shown.
BeginProfile(p, ask) ==
    main' = IF p \in known THEN [pc |-> "begin", uuid |-> p, ask |-> ask]
                           ELSE [Idle EXCEPT !.pc = "connecting"]

Asked == /\ main.pc = "idle"
         /\ nReq < MaxRequests
         /\ nReq' = nReq + 1
         /\ UNCHANGED <<mUUID, mSwitchResult, mSwitchToast, mConnectionState, mVPN, thr,
                        nThr, exits, binder, nStop>>

\* The switch to p as it stands once p has been asked for.
SwitchingTo(p) ==
    IF switch.on THEN [switch EXCEPT !.to = p]
    ELSE [on |-> TRUE, fallingBack |-> FALSE, abortRestore |-> FALSE,
          from |-> mUUID, to |-> p]

\* onStartCommand with a profile.  After a disconnect that is not over yet it
\* is no switch.
StartCommand(p) ==
    /\ Asked
    /\ p \in known
    /\ switch' = IF mUserAbort THEN NoSwitch
                 ELSE IF mVPN # None /\ mUUID \notin {None, p} THEN SwitchingTo(p)
                 ELSE switch
    /\ mUserAbort' = FALSE
    /\ BeginProfile(p, TRUE)

\* switchToProfile, from a sheet that was opened while a session existed.
SwitchToProfile(p) ==
    /\ Asked
    /\ nThr > 0
    /\ ~(p = mUUID /\ ~switch.on)
    /\ p \in known
    /\ switch' = SwitchingTo(p)
    /\ mUserAbort' = FALSE
    /\ BeginProfile(p, FALSE)

CanAbortSwitch == switch.on /\ ~switch.fallingBack /\ switch.from # None

AbortSwitch ==
    /\ main.pc = "idle"
    /\ CanAbortSwitch
    /\ switch' = [switch EXCEPT !.fallingBack = TRUE, !.abortRestore = TRUE]
    /\ mUserAbort' = FALSE
    /\ BeginProfile(switch.from, FALSE)
    /\ UNCHANGED <<mUUID, mSwitchResult, mSwitchToast, mConnectionState, mVPN, thr, nThr,
                   exits, binder, count>>

\* stopVPN from the user interface, also what abortSwitch() comes to when there
\* is nothing to abort, and ACTION_DISCONNECT when there is a thread.
Stop ==
    /\ main.pc = "idle"
    /\ StopFlags
    /\ main' = [Idle EXCEPT !.pc = "signal"]
    /\ UNCHANGED binder

MainSignal ==
    /\ main.pc = "signal"
    /\ Signal
    /\ main' = [main EXCEPT !.pc = "stopped"]
    /\ UNCHANGED <<svc, mVPN, nThr, exits, binder, count>>

MainStopped ==
    /\ main.pc = "stopped"
    /\ SetState("DISCONNECTED", None)
    /\ main' = Idle
    /\ UNCHANGED <<mVPN, thr, nThr, exits, binder, count>>

\* ACTION_DISCONNECT without a thread.
Disconnect ==
    /\ main.pc = "idle"
    /\ mVPN = None
    /\ SetState("DISCONNECTED", None)
    /\ UNCHANGED <<mVPN, thr, nThr, exits, main, binder, count>>

(***************************************************************************)
(* beginProfile: the profile, then the end of the thread before, awaited   *)
(* for three seconds at most, then the new thread.                         *)
(***************************************************************************)
Begin ==
    /\ main.pc = "begin"
    /\ mUUID' = main.uuid
    /\ main' = [main EXCEPT !.pc = "halt"]
    /\ UNCHANGED <<switch, mUserAbort, mSwitchResult, mSwitchToast, mConnectionState, mVPN,
                   thr, nThr, exits, binder, count>>

\* Fault: the thread before is not told to stop.
HaltNobody ==
    /\ main.pc = "halt"
    /\ main' = [main EXCEPT !.pc = "launch"]
    /\ UNCHANGED <<svc, mVPN, thr, nThr, exits, binder, count>>

Halt ==
    /\ main.pc = "halt"
    /\ Signal
    /\ main' = [main EXCEPT !.pc = "launch"]
    /\ UNCHANGED <<svc, mVPN, nThr, exits, binder, count>>

\* The join returns when the thread has ended or its time is up.
Launch ==
    /\ main.pc = "launch"
    /\ nThr < MaxThreads
    /\ nThr' = nThr + 1
    /\ mVPN' = nThr + 1
    /\ thr' = [thr EXCEPT ![nThr + 1] = [pc |-> "new", profile |-> mUUID, stop |-> FALSE]]
    /\ main' = [main EXCEPT !.pc = IF main.ask THEN "ask" ELSE "connecting"]
    /\ UNCHANGED <<svc, exits, binder, count>>

\* onStartCommand asks isSwitching() before it shows STATE_CONNECTING.
Ask ==
    /\ main.pc = "ask"
    /\ main' = IF switch.on THEN [main EXCEPT !.pc = "connecting"] ELSE Idle
    /\ UNCHANGED <<svc, mVPN, thr, nThr, exits, binder, count>>

Connecting ==
    /\ main.pc = "connecting"
    /\ SetState("CONNECTING", None)
    /\ main' = Idle
    /\ UNCHANGED <<mVPN, thr, nThr, exits, binder, count>>

(***************************************************************************)
(* onVpnThreadExited: fall back once, or give up.                          *)
(***************************************************************************)
\* Fault: the old profile is tried again when it cannot be reached either.
MayFallBackAgain == ~mUserAbort /\ switch.on /\ switch.from \in known

MayFallBack == ~mUserAbort /\ switch.on /\ ~switch.fallingBack /\ switch.from \in known

ExitedThen(where) ==
    /\ main.pc = "idle"
    /\ exits > 0
    /\ exits' = exits - 1
    /\ IF mVPN # None THEN UNCHANGED <<switch, mUserAbort, mSwitchResult, main>>
       ELSE IF MayFallBack
       THEN /\ switch' = [switch EXCEPT !.fallingBack = TRUE]
            /\ BeginProfile(switch.from, FALSE)
            /\ UNCHANGED <<mUserAbort, mSwitchResult>>
       ELSE /\ SwitchFailed
            /\ main' = [Idle EXCEPT !.pc = where]
    /\ UNCHANGED <<mUUID, mSwitchToast, mConnectionState, mVPN, thr, nThr, binder, count>>

\* Fault: giving up is left to the message and does not show in the state.
ExitedSilent == ExitedThen("idle")

Exited == ExitedThen("ended")

Ended ==
    /\ main.pc = "ended"
    /\ SetState("DISCONNECTED", None)
    /\ main' = Idle
    /\ UNCHANGED <<mVPN, thr, nThr, exits, binder, count>>

MainStep == /\ UNCHANGED known
            /\ \/ MainSignal \/ MainStopped
               \/ Begin \/ Halt \/ Launch \/ Ask \/ Connecting
               \/ Exited \/ Ended

Request == /\ UNCHANGED known
           /\ \/ \E p \in Profiles : StartCommand(p) \/ SwitchToProfile(p)
              \/ AbortSwitch \/ Stop \/ Disconnect

\* The user deletes a profile, whether or not it is in use.
Delete(p) ==
    /\ main.pc = "idle"
    /\ p \in known \cap Deletable
    /\ known' = known \ {p}
    /\ UNCHANGED <<svc, mVPN, thr, nThr, exits, main, binder, count>>

(***************************************************************************)
(* A VPN thread: run() and runVPN().                                       *)
(***************************************************************************)
Go(i, where) == thr' = [thr EXCEPT ![i].pc = where]

ThreadUnchanged == UNCHANGED <<known, nThr, main, binder, count>>

\* A stop that came before the library object exists is seen here.
Create(i) ==
    /\ thr[i].pc = "new"
    /\ Go(i, IF thr[i].stop THEN "end" ELSE "created")
    /\ UNCHANGED <<svc, mVPN, exits>>
    /\ ThreadUnchanged

Start(i) ==
    /\ thr[i].pc = "created"
    /\ SetState("CONNECTING", i)
    /\ Go(i, "login")
    /\ UNCHANGED <<mVPN, exits>>
    /\ ThreadUnchanged

\* An authentication form, and the answer to it.
Prompt(i) ==
    /\ thr[i].pc = "login"
    /\ SetState("AUTHENTICATING", i)
    /\ UNCHANGED <<mVPN, thr, exits>>
    /\ ThreadUnchanged

\* parseURL and obtainCookie: a stopped thread goes no further and shows no
\* error.
Login(i) ==
    /\ thr[i].pc = "login"
    /\ \/ ~thr[i].stop /\ (Go(i, "auth") \/ Go(i, "alert"))
       \/ Go(i, "end")
    /\ UNCHANGED <<svc, mVPN, exits>>
    /\ ThreadUnchanged

\* STATE_AUTHENTICATED, which a stop since the last check does not prevent.
Authenticated(i) ==
    /\ thr[i].pc = "auth"
    /\ SetState("AUTHENTICATING", i)
    /\ Go(i, "cstp")
    /\ UNCHANGED <<mVPN, exits>>
    /\ ThreadUnchanged

\* makeCSTPConnection, establish and setupTunFD: a cancel that comes after the
\* library last looked for one is not noticed, and a tunnel that cannot be set
\* up is reported to the user of a stopped session as well.
SetUp(i) ==
    /\ thr[i].pc = "cstp"
    /\ \E where \in {"report", "alert", "end"} : Go(i, where)
    /\ UNCHANGED <<svc, mVPN, exits>>
    /\ ThreadUnchanged

Report(i) ==
    /\ thr[i].pc = "report"
    /\ SetState("CONNECTED", i)
    /\ Go(i, "up")
    /\ UNCHANGED <<mVPN, exits>>
    /\ ThreadUnchanged

\* The mainloop ends on a cancel or because the session is lost.
Drop(i) ==
    /\ thr[i].pc = "up"
    /\ Go(i, "end")
    /\ UNCHANGED <<svc, mVPN, exits>>
    /\ ThreadUnchanged

\* errorAlert returns: the user has closed the dialog.
Dismiss(i) ==
    /\ thr[i].pc = "alert"
    /\ Go(i, "end")
    /\ UNCHANGED <<svc, mVPN, exits>>
    /\ ThreadUnchanged

End(i) ==
    /\ thr[i].pc = "end"
    /\ SetState("DISCONNECTED", i)
    /\ Go(i, "exit")
    /\ UNCHANGED <<mVPN, exits>>
    /\ ThreadUnchanged

Finish(i) == thr' = [thr EXCEPT ![i] = [pc |-> "done", profile |-> None, stop |-> FALSE]]

\* Fault: the service does not hear of an end the user asked for.
ThreadDoneQuiet(i) ==
    /\ thr[i].pc = "exit"
    /\ Finish(i)
    /\ IF mVPN \in {None, i}
       THEN mVPN' = None /\ exits' = (IF thr[i].stop THEN exits ELSE exits + 1)
       ELSE UNCHANGED <<mVPN, exits>>
    /\ UNCHANGED svc
    /\ ThreadUnchanged

\* threadDone: of a thread that was replaced nothing is noted.
ThreadDone(i) ==
    /\ thr[i].pc = "exit"
    /\ Finish(i)
    /\ IF mVPN \in {None, i} THEN mVPN' = None /\ exits' = exits + 1
                             ELSE UNCHANGED <<mVPN, exits>>
    /\ UNCHANGED svc
    /\ ThreadUnchanged

ThreadNext(i) == \/ Create(i) \/ Start(i) \/ Prompt(i) \/ Login(i) \/ Authenticated(i)
                 \/ SetUp(i) \/ Report(i) \/ Drop(i) \/ Dismiss(i) \/ End(i)
                 \/ ThreadDone(i)

-----------------------------------------------------------------------------
BinderStep == UNCHANGED known /\ (BinderStop \/ BinderSignal \/ BinderStopped)

Next == \/ MainStep \/ Request \/ BinderStep
        \/ \E p \in Profiles : Delete(p)
        \/ \E i \in Threads : ThreadNext(i)

Spec == Init /\ [][Next]_vars

\* The main thread never waits for longer than the join.  A VPN thread that was
\* told to stop, or that has nothing more to wait for, runs to its end: only a
\* form or an error the user does not answer holds it up.
ThreadProgress(i) ==
    /\ thr[i].pc \notin {"login", "alert"}
    /\ thr[i].stop \/ thr[i].pc \in {"end", "exit"}
    /\ ThreadNext(i)

FairSpec == /\ Spec
            /\ WF_vars(MainStep)
            /\ \A i \in Threads : WF_vars(ThreadProgress(i))

(***************************************************************************)
(* What the service promises.                                              *)
(***************************************************************************)

\* At most one VPN thread is wanted: every other that still runs has been told
\* to stop, whatever was started, switched, aborted or timed out.
OneLiveThread ==
    \A i \in Threads : thr[i].pc \in Running /\ ~thr[i].stop => i = mVPN

\* The state shown is some thread's, or is about to be corrected: a session
\* that is over is never shown as connecting or connected for good.
Attended == exits > 0 \/ main.pc # "idle"

StateIsBacked ==
    mConnectionState # "DISCONNECTED" =>
        Attended \/ \E i \in Threads : thr[i].pc \in Running

\* A switch under way has a thread that works for it, or the main thread is
\* about to give it one or to declare it failed.
SwitchIsAttended == switch.on => mVPN # None \/ Attended

\* A switch is settled when the new profile, or the old one again, comes up; it
\* fails, and says so, only after the old one was tried or because that one is
\* gone; otherwise only the user ends it.  It goes back once.
Stage == IF ~switch.on THEN "none"
         ELSE IF ~switch.fallingBack THEN "forth"
         ELSE IF switch.abortRestore THEN "asked" ELSE "failed"

AboutToBegin == IF main.pc = "begin" THEN main.uuid ELSE None

PS == INSTANCE ProfileSwitch
        WITH current <- mUUID, next <- AboutToBegin, stage <- Stage,
             from <- switch.from, to <- switch.to,
             result <- mSwitchResult, toast <- mSwitchToast,
             up <- mConnectionState = "CONNECTED",
             requests <- nReq, stops <- nStop

ImplementsSwitch == PS!Spec

\* Once the service has no thread it comes to rest, disconnected and with no
\* switch open, unless a new thread is begun or one that was replaced and did
\* not end in time still has a form or an error before the user.
AtRest == ~switch.on /\ mConnectionState = "DISCONNECTED"

ComesToRest ==
    mVPN = None ~> \/ mVPN # None
                   \/ AtRest
                   \/ \E i \in Threads : thr[i].pc \in {"login", "alert"}

\* IOpenVPNAPIService.aidl: "Disconnect the VPN".  No session is begun while a
\* disconnect stands that no later request has revoked.
DisconnectStands == [][nThr' > nThr => ~mUserAbort]_vars
=============================================================================
