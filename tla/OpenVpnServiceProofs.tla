------------------------ MODULE OpenVpnServiceProofs ------------------------
(***************************************************************************)
(* The safety properties of the Android VPN service, for any number of     *)
(* profiles, threads, requests and stops.                                  *)
(*                                                                         *)
(* The inductive invariant says what the main thread may rely on half way  *)
(* through a handler, although the lock is free between its sections: by   *)
(* the time it launches a thread the one before has been stopped, once it  *)
(* has launched one the service has a thread or has been told of its end,  *)
(* and while it stops or gives up no switch is open.                       *)
(***************************************************************************)
EXTENDS OpenVpnService, TLAPS

\* A switch has two profiles, and a service with a thread has one.
Named ==
    /\ switch.on => switch.from \in Profiles /\ switch.to \in Profiles
    /\ nThr > 0 => mUUID \in Profiles
    /\ main.pc = "begin" => main.uuid \in Profiles
    /\ main.pc \in {"halt", "launch"} => mUUID \in Profiles

\* Threads are numbered as they begin; the one listened to still runs.
Numbered ==
    /\ \A i \in Threads : thr[i].pc # "none" => i <= nThr
    /\ mVPN # None => thr[mVPN].pc \in Running

Launchable == main.pc = "launch" /\ mVPN # None => thr[mVPN].stop
Launched   == main.pc \in {"ask", "connecting"} => mVPN # None \/ exits > 0
Closed     == main.pc \in {"signal", "stopped", "ended"} => ~switch.on

IInv == /\ TypeOK /\ Named /\ Numbered
        /\ Launchable /\ Launched /\ Closed
        /\ OneLiveThread /\ StateIsBacked /\ SwitchIsAttended

-----------------------------------------------------------------------------
\* setConnectionState changes the switch only by ending it, and shows the new
\* state or leaves the old; called by the service itself it always shows it.
LEMMA SetStateEffect ==
    ASSUME TypeOK, Named, NEW s \in State, NEW from \in Threads \cup {None},
           mUUID \in Profiles \/ s # "CONNECTED", SetState(s, from)
    PROVE  /\ mUUID' = mUUID
           /\ switch' = switch \/ switch' = NoSwitch
           /\ mUserAbort' \in BOOLEAN
           /\ mSwitchResult' \in Result \cup {None}
           /\ mSwitchToast' \in Profiles \cup {None}
           /\ mConnectionState' \in {mConnectionState, s}
           /\ from = None => mConnectionState' = s
<1>1. CASE ~Heard(s, from)
  BY <1>1 DEF SetState, Heard, TypeOK
<1>2. CASE Heard(s, from) /\ ~(s = "CONNECTED" /\ mConnectionState # "CONNECTED")
  BY <1>2 DEF SetState, TypeOK
<1>3. CASE Heard(s, from) /\ s = "CONNECTED" /\ mConnectionState # "CONNECTED"
  <2>1. SwitchConnected /\ mUUID' = mUUID /\ mConnectionState' = s
    BY <1>3 DEF SetState
  <2>2. CASE ~switch.on
    BY <2>1, <2>2 DEF SwitchConnected, TypeOK
  <2>3. CASE switch.on
    <3>1. mUUID \in Profiles
      BY <1>3
    <3>2. switch.to \in Profiles
      BY <2>3 DEF Named
    <3>3. [kind |-> "reverted", failed |-> switch.to, old |-> mUUID] \in Result
      BY <3>1, <3>2 DEF Result
    <3> QED BY <2>1, <2>3, <3>1, <3>3 DEF SwitchConnected
  <2> QED BY <2>2, <2>3
<1> QED BY <1>1, <1>2, <1>3

LEMMA NoSwitchTyped == NoSwitch \in Switch /\ ~NoSwitch.on
BY DEF NoSwitch, Switch

\* A record of Thread stays one when its position or its stop flag changes.
LEMMA GoTyped ==
    ASSUME TypeOK, NEW i \in Threads, NEW where \in ThreadPc, Go(i, where)
    PROVE  /\ thr' \in [Threads -> Thread]
           /\ thr'[i].pc = where /\ thr'[i].stop = thr[i].stop
           /\ \A j \in Threads : thr'[j].stop = thr[j].stop
           /\ \A j \in Threads \ {i} : thr'[j] = thr[j]
BY DEF TypeOK, Go, Thread

LEMMA FinishTyped ==
    ASSUME TypeOK, NEW i \in Threads, Finish(i)
    PROVE  /\ thr' \in [Threads -> Thread]
           /\ thr'[i].pc = "done"
           /\ \A j \in Threads \ {i} : thr'[j] = thr[j]
BY DEF TypeOK, Finish, Thread, ThreadPc, Running

LEMMA SignalTyped ==
    ASSUME TypeOK, Signal
    PROVE  /\ thr' \in [Threads -> Thread]
           /\ \A j \in Threads : /\ thr'[j].pc = thr[j].pc
                                 /\ thr[j].stop => thr'[j].stop
           /\ mVPN # None => thr'[mVPN].stop
<1>1. CASE mVPN = None
  BY <1>1 DEF Signal, TypeOK, Thread
<1>2. CASE mVPN # None
  BY <1>2 DEF Signal, TypeOK, Thread
<1> QED BY <1>1, <1>2

-----------------------------------------------------------------------------
LEMMA InitIInv == Init => IInv
<1> SUFFICES ASSUME Init PROVE IInv
  OBVIOUS
<1> USE ServiceAssumption
<1>1. TypeOK
  <2>1. main \in Main
    BY DEF Init, Main, Idle
  <2>2. thr \in [Threads -> Thread]
    BY DEF Init, Thread, ThreadPc
  <2>3. nThr \in 0..MaxThreads /\ nReq \in 0..MaxRequests /\ nStop \in 0..MaxStops
    BY DEF Init
  <2>4. exits \in Nat /\ mConnectionState \in State
    BY DEF Init, State
  <2> QED BY <2>1, <2>2, <2>3, <2>4, NoSwitchTyped DEF Init, TypeOK
<1>2. Named /\ Numbered
  BY NoSwitchTyped DEF Init, Named, Numbered, Idle
<1>3. Launchable /\ Launched /\ Closed
  BY DEF Init, Launchable, Launched, Closed, Idle
<1>4. OneLiveThread /\ StateIsBacked /\ SwitchIsAttended
  BY NoSwitchTyped DEF Init, OneLiveThread, StateIsBacked, SwitchIsAttended, Running
<1> QED BY <1>1, <1>2, <1>3, <1>4 DEF IInv

\* A step of VPN thread i that moves it on and shows at most a state.
LEMMA ThreadMoves ==
    ASSUME IInv, NEW i \in Threads, NEW where \in Running, Go(i, where),
           thr[i].pc \in Running,
           UNCHANGED svc \/ \E s \in State : SetState(s, i),
           UNCHANGED <<mVPN, exits>>, ThreadUnchanged
    PROVE  IInv'
<1> USE ServiceAssumption
<1>0. /\ mUUID' = mUUID
      /\ switch' = switch \/ switch' = NoSwitch
      /\ mUserAbort' \in BOOLEAN
      /\ mSwitchResult' \in Result \cup {None}
      /\ mSwitchToast' \in Profiles \cup {None}
      /\ mConnectionState' \in State
  <2>1. CASE UNCHANGED svc
    BY <2>1 DEF IInv, TypeOK, svc
  <2>2. CASE \E s \in State : SetState(s, i)
    <3>1. PICK s \in State : SetState(s, i)
      BY <2>2
    <3>2. nThr > 0
      BY DEF IInv, Numbered, Running, TypeOK, Threads
    <3>3. mUUID \in Profiles
      BY <3>2 DEF IInv, Named
    <3> QED BY <3>1, <3>3, SetStateEffect DEF IInv, TypeOK
  <2> QED BY <2>1, <2>2
<1>1. /\ thr' \in [Threads -> Thread]
      /\ thr'[i].pc = where
      /\ \A j \in Threads : thr'[j].stop = thr[j].stop
      /\ \A j \in Threads \ {i} : thr'[j] = thr[j]
  BY GoTyped DEF IInv, ThreadPc
<1>2. TypeOK'
  BY <1>0, <1>1, NoSwitchTyped DEF IInv, TypeOK, ThreadUnchanged, count
<1>3. Named'
  BY <1>0, NoSwitchTyped DEF IInv, Named, ThreadUnchanged
<1>4. Numbered'
  BY <1>1 DEF IInv, Numbered, ThreadUnchanged, Running, TypeOK
<1>5. Launchable' /\ Launched' /\ Closed'
  BY <1>0, <1>1, NoSwitchTyped
  DEF IInv, Launchable, Launched, Closed, ThreadUnchanged, TypeOK
<1>6. OneLiveThread'
  BY <1>1 DEF IInv, OneLiveThread
<1>7. StateIsBacked' /\ SwitchIsAttended'
  BY <1>0, <1>1, NoSwitchTyped
  DEF IInv, StateIsBacked, SwitchIsAttended, Attended, ThreadUnchanged
<1> QED BY <1>2, <1>3, <1>4, <1>5, <1>6, <1>7 DEF IInv

LEMMA ThreadStep ==
    ASSUME IInv, NEW i \in Threads, ThreadNext(i)
    PROVE  IInv'
<1> USE ServiceAssumption
<1>1. CASE Create(i)
  BY <1>1, ThreadMoves DEF Create, Running
<1>2. CASE Start(i)
  BY <1>2, ThreadMoves DEF Start, Running, State
<1>3. CASE Prompt(i)
  <2>1. Go(i, "login")
    <3>1. thr = [thr EXCEPT ![i].pc = "login"]
      BY <1>3 DEF Prompt, IInv, TypeOK, Thread
    <3> QED BY <1>3, <3>1 DEF Prompt, Go
  <2> QED BY <1>3, <2>1, ThreadMoves DEF Prompt, Running, State
<1>4. CASE Login(i)
  BY <1>4, ThreadMoves DEF Login, Running
<1>5. CASE SetUp(i)
  BY <1>5, ThreadMoves DEF SetUp, Running
<1>6. CASE Report(i)
  BY <1>6, ThreadMoves DEF Report, Running, State
<1>7. CASE Drop(i) \/ Dismiss(i)
  BY <1>7, ThreadMoves DEF Drop, Dismiss, Running
<1>8. CASE End(i)
  BY <1>8, ThreadMoves DEF End, Running, State
<1>9. CASE Authenticated(i)
  BY <1>9, ThreadMoves DEF Authenticated, Running, State
<1>10. CASE ThreadDone(i)
  <2>1. /\ thr' \in [Threads -> Thread]
        /\ thr'[i].pc = "done"
        /\ \A j \in Threads \ {i} : thr'[j] = thr[j]
    BY <1>10, FinishTyped DEF ThreadDone, IInv
  <2>2. UNCHANGED <<known, svc, nThr, main, binder, count>>
    BY <1>10 DEF ThreadDone, ThreadUnchanged
  <2>3. \/ mVPN \in {None, i} /\ mVPN' = None /\ exits' = exits + 1
        \/ mVPN \notin {None, i} /\ mVPN' = mVPN /\ exits' = exits
    BY <1>10 DEF ThreadDone
  <2>4. TypeOK'
    BY <2>1, <2>2, <2>3 DEF IInv, TypeOK, svc, count
  <2>5. Named'
    BY <2>2 DEF IInv, Named, svc
  <2>6. Numbered'
    <3>1. i <= nThr
      BY <1>10 DEF ThreadDone, IInv, Numbered
    <3> QED BY <2>1, <2>2, <2>3, <3>1 DEF IInv, Numbered, TypeOK
  <2>7. Launchable' /\ Launched' /\ Closed'
    BY <2>1, <2>2, <2>3 DEF IInv, Launchable, Launched, Closed, TypeOK, svc
  <2>8. OneLiveThread'
    BY <2>1, <2>3 DEF IInv, OneLiveThread, Running
  <2>9. StateIsBacked'
    <3>1. CASE mVPN \in {None, i}
      BY <2>3, <3>1 DEF IInv, TypeOK, StateIsBacked, Attended
    <3>2. CASE mVPN \notin {None, i}
      <4>1. mVPN \in Threads \ {i} /\ thr'[mVPN].pc \in Running
        BY <2>1, <3>2 DEF IInv, TypeOK, Numbered
      <4> QED BY <4>1 DEF StateIsBacked
    <3> QED BY <3>1, <3>2
  <2>10. SwitchIsAttended'
    BY <2>2, <2>3 DEF IInv, TypeOK, SwitchIsAttended, Attended, svc
  <2> QED BY <2>4, <2>5, <2>6, <2>7, <2>8, <2>9, <2>10 DEF IInv
<1> QED BY <1>1, <1>2, <1>3, <1>4, <1>5, <1>6, <1>7, <1>8, <1>9, <1>10 DEF ThreadNext
-----------------------------------------------------------------------------
\* What a step of stopVPN that sets the flags keeps, on either thread.
LEMMA StopFlagsStep ==
    ASSUME IInv, StopFlags
    PROVE  /\ switch' = NoSwitch
           /\ Numbered' /\ OneLiveThread'
           /\ switch' \in Switch /\ mUserAbort' \in BOOLEAN
           /\ mSwitchResult' \in Result \cup {None}
           /\ nStop' \in 0..MaxStops
<1> USE ServiceAssumption
<1> QED BY NoSwitchTyped
    DEF IInv, StopFlags, Numbered, OneLiveThread, TypeOK

\* The service itself shows a state: "DISCONNECTED" when it stops or gives up,
\* "CONNECTING" once it has launched a thread.
LEMMA ShowStep ==
    ASSUME IInv, UNCHANGED <<known, mVPN, thr, nThr, exits, count>>,
           \/ SetState("DISCONNECTED", None) /\ main' = main /\ binder' \in {binder, "idle"}
           \/ /\ SetState("DISCONNECTED", None)
              /\ main' = Idle /\ binder' = binder
              /\ main.pc \in {"stopped", "ended"}
           \/ /\ SetState("CONNECTING", None)
              /\ main' = Idle /\ binder' = binder
              /\ main.pc = "connecting"
    PROVE  IInv'
<1> USE ServiceAssumption
<1>1. Idle \in Main /\ Idle.pc = "idle"
  BY DEF Idle, Main
<1>2. /\ mUUID' = mUUID
      /\ switch' = switch \/ switch' = NoSwitch
      /\ mUserAbort' \in BOOLEAN
      /\ mSwitchResult' \in Result \cup {None}
      /\ mSwitchToast' \in Profiles \cup {None}
      /\ \/ mConnectionState' = "DISCONNECTED"
         \/ mConnectionState' = "CONNECTING" /\ main.pc = "connecting"
      /\ mConnectionState' \in State
  BY SetStateEffect DEF IInv, State
<1>3. TypeOK'
  BY <1>1, <1>2, NoSwitchTyped DEF IInv, TypeOK, count
<1>4. Named' /\ Numbered'
  BY <1>1, <1>2, NoSwitchTyped DEF IInv, Named, Numbered
<1>5. Launchable' /\ Launched' /\ Closed' /\ OneLiveThread'
  BY <1>1, <1>2, NoSwitchTyped
  DEF IInv, Launchable, Launched, Closed, OneLiveThread
<1>6. StateIsBacked' /\ SwitchIsAttended'
  <2>1. /\ main.pc = "connecting" => exits > 0 \/ mVPN # None
        /\ mVPN # None => mVPN \in Threads /\ thr[mVPN].pc \in Running
    BY DEF IInv, Launched, Numbered, TypeOK
  <2>2. main.pc \in {"stopped", "ended"} => ~switch.on
    BY DEF IInv, Closed
  <2>3. StateIsBacked'
    <3>1. mConnectionState' # "DISCONNECTED" => exits > 0 \/ mVPN # None
      BY <1>2, <2>1
    <3> QED BY <2>1, <3>1 DEF StateIsBacked, Attended
  <2>4. SwitchIsAttended'
    <3>1. CASE main' = main
      BY <1>2, <3>1, NoSwitchTyped DEF IInv, SwitchIsAttended, Attended
    <3>2. CASE main.pc \in {"stopped", "ended"}
      BY <1>2, <2>2, <3>2, NoSwitchTyped DEF SwitchIsAttended
    <3>3. CASE main.pc = "connecting"
      BY <2>1, <3>3 DEF SwitchIsAttended, Attended
    <3> QED BY <3>1, <3>2, <3>3
  <2> QED BY <2>3, <2>4
<1> QED BY <1>3, <1>4, <1>5, <1>6 DEF IInv

\* The main thread tells the VPN thread to stop, and goes on from there.
LEMMA HaltStep ==
    ASSUME IInv, Signal,
           UNCHANGED <<known, svc, mVPN, nThr, exits, binder, count>>,
           \/ main.pc = "signal" /\ main' = [main EXCEPT !.pc = "stopped"]
           \/ main.pc = "halt" /\ main' = [main EXCEPT !.pc = "launch"]
    PROVE  IInv'
<1> USE ServiceAssumption
<1>1. /\ thr' \in [Threads -> Thread]
      /\ \A j \in Threads : /\ thr'[j].pc = thr[j].pc
                            /\ thr[j].stop => thr'[j].stop
      /\ mVPN # None => thr'[mVPN].stop
  BY SignalTyped DEF IInv
<1>2. /\ main' \in Main
      /\ \/ main.pc = "signal" /\ main'.pc = "stopped"
         \/ main.pc = "halt" /\ main'.pc = "launch"
  BY DEF IInv, TypeOK, Main
<1>3. TypeOK'
  BY <1>1, <1>2 DEF IInv, TypeOK, svc, count
<1>4. Named' /\ Numbered'
  BY <1>1, <1>2 DEF IInv, Named, Numbered, TypeOK, svc
<1>5. Launchable' /\ Launched' /\ Closed'
  BY <1>1, <1>2 DEF IInv, Launchable, Launched, Closed, svc
<1>6. OneLiveThread' /\ StateIsBacked' /\ SwitchIsAttended'
  BY <1>1, <1>2
  DEF IInv, OneLiveThread, StateIsBacked, SwitchIsAttended, Attended, svc
<1> QED BY <1>3, <1>4, <1>5, <1>6 DEF IInv

LEMMA ExitedStep ==
    ASSUME IInv, Exited, UNCHANGED known
    PROVE  IInv'
<1> USE ServiceAssumption
<1>0. /\ UNCHANGED <<mUUID, mSwitchToast, mConnectionState, mVPN, thr, nThr, binder, count>>
      /\ main.pc = "idle" /\ exits' \in Nat
  BY DEF Exited, ExitedThen, IInv, TypeOK
<1>1. CASE mVPN # None
  <2>1. UNCHANGED <<switch, mUserAbort, mSwitchResult, main>>
    BY <1>1 DEF Exited, ExitedThen
  <2>2. TypeOK'
    BY <1>0, <2>1 DEF IInv, TypeOK, count
  <2>3. Named' /\ Numbered' /\ Launchable' /\ Launched' /\ Closed' /\ OneLiveThread'
    BY <1>0, <1>1, <2>1
    DEF IInv, Named, Numbered, Launchable, Launched, Closed, OneLiveThread
  <2>4. StateIsBacked' /\ SwitchIsAttended'
    BY <1>0, <1>1
    DEF IInv, TypeOK, Numbered, StateIsBacked, SwitchIsAttended, Attended
  <2> QED BY <2>2, <2>3, <2>4 DEF IInv
<1>2. CASE mVPN = None /\ MayFallBack
  <2>1. /\ switch' = [switch EXCEPT !.fallingBack = TRUE]
        /\ main' = [pc |-> "begin", uuid |-> switch.from, ask |-> FALSE]
        /\ UNCHANGED <<mUserAbort, mSwitchResult>>
    BY <1>2 DEF Exited, ExitedThen, BeginProfile, MayFallBack
  <2>2. /\ switch' \in Switch /\ switch'.on = switch.on
        /\ switch'.from = switch.from /\ switch'.to = switch.to
        /\ switch.from \in Profiles
    BY <1>2, <2>1 DEF IInv, TypeOK, Switch, MayFallBack
  <2>3. TypeOK'
    BY <1>0, <2>1, <2>2 DEF IInv, TypeOK, Main, count
  <2>4. Named' /\ Numbered' /\ Launchable' /\ Launched' /\ Closed' /\ OneLiveThread'
    BY <1>0, <2>1, <2>2
    DEF IInv, Named, Numbered, Launchable, Launched, Closed, OneLiveThread
  <2>5. StateIsBacked' /\ SwitchIsAttended'
    BY <2>1 DEF StateIsBacked, SwitchIsAttended, Attended
  <2> QED BY <2>3, <2>4, <2>5 DEF IInv
<1>3. CASE mVPN = None /\ ~MayFallBack
  <2>1. SwitchFailed /\ main' = [Idle EXCEPT !.pc = "ended"]
    BY <1>3 DEF Exited, ExitedThen
  <2>2. mSwitchResult' \in Result \cup {None}
    <3>1. CASE ~mUserAbort /\ switch.on
      BY <2>1, <3>1 DEF SwitchFailed, IInv, Named, Result
    <3>2. CASE ~(~mUserAbort /\ switch.on)
      BY <2>1, <3>2 DEF SwitchFailed, IInv, TypeOK
    <3> QED BY <3>1, <3>2
  <2>3. switch' = NoSwitch /\ mUserAbort' = FALSE
    BY <2>1 DEF SwitchFailed
  <2>4. main' \in Main /\ main'.pc = "ended"
    BY <2>1 DEF Idle, Main
  <2>5. TypeOK'
    BY <1>0, <2>2, <2>3, <2>4, NoSwitchTyped DEF IInv, TypeOK, count
  <2>6. Named' /\ Numbered' /\ Launchable' /\ Launched' /\ Closed' /\ OneLiveThread'
    BY <1>0, <2>3, <2>4, NoSwitchTyped
    DEF IInv, Named, Numbered, Launchable, Launched, Closed, OneLiveThread
  <2>7. StateIsBacked' /\ SwitchIsAttended'
    BY <2>4 DEF StateIsBacked, SwitchIsAttended, Attended
  <2> QED BY <2>5, <2>6, <2>7 DEF IInv
<1> QED BY <1>1, <1>2, <1>3

LEMMA BinderStepInv ==
    ASSUME IInv, BinderStep
    PROVE  IInv'
<1> USE ServiceAssumption
<1>0. UNCHANGED known
  BY DEF BinderStep
<1>1. CASE BinderStop
  <2>1. StopFlags /\ binder' = "signal" /\ main' = main
    BY <1>1 DEF BinderStop
  <2>2. TypeOK'
    BY <1>0, <2>1, StopFlagsStep DEF IInv, TypeOK, StopFlags
  <2>3. Named' /\ Launchable' /\ Launched' /\ Closed'
    BY <2>1, NoSwitchTyped, StopFlagsStep
    DEF IInv, Named, Launchable, Launched, Closed, StopFlags
  <2>4. StateIsBacked' /\ SwitchIsAttended'
    BY <2>1, NoSwitchTyped, StopFlagsStep
    DEF IInv, StateIsBacked, SwitchIsAttended, Attended, StopFlags
  <2> QED BY <2>1, <2>2, <2>3, <2>4, StopFlagsStep DEF IInv
<1>2. CASE BinderSignal
  <2>1. /\ thr' \in [Threads -> Thread]
        /\ \A j \in Threads : /\ thr'[j].pc = thr[j].pc
                              /\ thr[j].stop => thr'[j].stop
    BY <1>2, SignalTyped DEF IInv, BinderSignal
  <2>2. UNCHANGED <<known, svc, mVPN, nThr, exits, main, count>> /\ binder' = "stopped"
    BY <1>0, <1>2 DEF BinderSignal
  <2>3. TypeOK'
    BY <2>1, <2>2 DEF IInv, TypeOK, svc, count
  <2>4. Named' /\ Numbered'
    BY <2>1, <2>2 DEF IInv, Named, Numbered, svc, TypeOK
  <2>5. Launchable' /\ Launched' /\ Closed'
    BY <2>1, <2>2 DEF IInv, Launchable, Launched, Closed, svc, TypeOK
  <2>6. OneLiveThread' /\ StateIsBacked' /\ SwitchIsAttended'
    BY <2>1, <2>2
    DEF IInv, OneLiveThread, StateIsBacked, SwitchIsAttended, Attended, svc
  <2> QED BY <2>3, <2>4, <2>5, <2>6 DEF IInv
<1>3. CASE BinderStopped
  <2>1. SetState("DISCONNECTED", None)
    BY <1>3 DEF BinderStopped
  <2>2. UNCHANGED <<known, mVPN, thr, nThr, exits, main, count>> /\ binder' = "idle"
    BY <1>0, <1>3 DEF BinderStopped
  <2> QED BY <2>1, <2>2, ShowStep
<1> QED BY <1>1, <1>2, <1>3 DEF BinderStep

LEMMA MainStepInv ==
    ASSUME IInv, MainStep
    PROVE  IInv'
<1> USE ServiceAssumption
<1>0. UNCHANGED known
  BY DEF MainStep
<1>1. CASE MainSignal
  <2>1. /\ Signal
        /\ UNCHANGED <<known, svc, mVPN, nThr, exits, binder, count>>
        /\ main.pc = "signal" /\ main' = [main EXCEPT !.pc = "stopped"]
    BY <1>0, <1>1 DEF MainSignal
  <2> QED BY <2>1, HaltStep
<1>2. CASE MainStopped
  BY <1>0, <1>2, ShowStep DEF MainStopped
<1>3. CASE Begin
  <2>1. main' \in Main /\ main'.pc = "halt" /\ main.pc = "begin" /\ mUUID' \in Profiles
    BY <1>3 DEF Begin, IInv, Named, TypeOK, Main
  <2>2. TypeOK'
    BY <1>0, <1>3, <2>1 DEF Begin, IInv, TypeOK, count
  <2>3. Named' /\ Numbered' /\ Launchable' /\ Launched' /\ Closed'
    BY <1>3, <2>1 DEF Begin, IInv, Named, Numbered, Launchable, Launched, Closed
  <2>4. OneLiveThread' /\ StateIsBacked' /\ SwitchIsAttended'
    BY <1>3, <2>1 DEF Begin, IInv, OneLiveThread, StateIsBacked, SwitchIsAttended, Attended
  <2> QED BY <2>2, <2>3, <2>4 DEF IInv
<1>4. CASE Halt
  BY <1>0, <1>4, HaltStep, SignalTyped DEF Halt, IInv
<1>5. CASE Launch
  <2> DEFINE n == nThr + 1
  <2>1. /\ n \in Threads /\ n \in 0..MaxThreads /\ mUUID \in Profiles
        /\ n > 0 /\ ~(n <= nThr)
    BY <1>5 DEF Launch, IInv, TypeOK, Named, Threads
  <2>2. /\ thr' \in [Threads -> Thread]
        /\ thr'[n].pc = "new" /\ ~thr'[n].stop
        /\ \A j \in Threads \ {n} : thr'[j] = thr[j]
    BY <1>5, <2>1 DEF Launch, IInv, TypeOK, Thread, ThreadPc, Running
  <2>3. main' \in Main /\ main'.pc \in {"ask", "connecting"}
    BY <1>5 DEF Launch, IInv, TypeOK, Main
  <2>4. mVPN' = n /\ nThr' = n /\ UNCHANGED <<known, svc, exits, binder, count>>
    BY <1>0, <1>5 DEF Launch
  <2> HIDE DEF n
  <2>5. TypeOK'
    BY <2>1, <2>2, <2>3, <2>4 DEF IInv, TypeOK, svc, count
  <2>6. Named'
    BY <2>1, <2>3, <2>4 DEF IInv, Named, svc
  <2>7. Numbered'
    <3>1. \A i \in Threads : i <= nThr => i <= n
      BY DEF n, IInv, TypeOK, Threads
    <3>2. n <= n
      BY <2>1
    <3> QED BY <2>1, <2>2, <2>4, <3>1, <3>2 DEF IInv, Numbered, Running
  <2>8. Launchable' /\ Launched' /\ Closed'
    BY <2>1, <2>3, <2>4 DEF Launchable, Launched, Closed, Threads
  <2>9. OneLiveThread'
    <3>1. \A i \in Threads : thr[i].pc \in Running => thr[i].stop
      <4>1. mVPN # None => thr[mVPN].stop
        BY <1>5 DEF Launch, IInv, Launchable
      <4>2. \A i \in Threads : i # None
        BY DEF Threads
      <4> QED BY <4>1, <4>2 DEF IInv, OneLiveThread
    <3> QED BY <2>2, <2>4, <3>1 DEF OneLiveThread
  <2>10. StateIsBacked' /\ SwitchIsAttended'
    BY <2>3 DEF StateIsBacked, SwitchIsAttended, Attended
  <2> QED BY <2>5, <2>6, <2>7, <2>8, <2>9, <2>10 DEF IInv
<1>6. CASE Ask
  <2>1. /\ main' \in Main /\ main'.pc \in {"connecting", "idle"} /\ main.pc = "ask"
        /\ main'.pc = "idle" => ~switch.on
    BY <1>6 DEF Ask, IInv, TypeOK, Main, Idle
  <2>2. UNCHANGED <<known, svc, mVPN, thr, nThr, exits, binder, count>>
    BY <1>0, <1>6 DEF Ask
  <2>3. mVPN # None \/ exits > 0
    BY <2>1 DEF IInv, Launched
  <2>4. TypeOK'
    BY <2>1, <2>2 DEF IInv, TypeOK, svc, count
  <2>5. Named' /\ Numbered' /\ Launchable' /\ Launched' /\ Closed' /\ OneLiveThread'
    BY <2>1, <2>2, <2>3
    DEF IInv, Named, Numbered, Launchable, Launched, Closed, OneLiveThread, svc
  <2>6. StateIsBacked' /\ SwitchIsAttended'
    BY <2>1, <2>2, <2>3
    DEF IInv, TypeOK, Numbered, StateIsBacked, SwitchIsAttended, Attended, svc
  <2> QED BY <2>4, <2>5, <2>6 DEF IInv
<1>7. CASE Connecting
  BY <1>0, <1>7, ShowStep DEF Connecting
<1>8. CASE Exited
  BY <1>0, <1>8, ExitedStep
<1>9. CASE Ended
  BY <1>0, <1>9, ShowStep DEF Ended
<1> QED BY <1>1, <1>2, <1>3, <1>4, <1>5, <1>6, <1>7, <1>8, <1>9 DEF MainStep
-----------------------------------------------------------------------------
\* A request that begins a profile: whatever switch it leaves is a named one.
LEMMA BeginStep ==
    ASSUME IInv, NEW p \in known, NEW ask \in BOOLEAN,
           main.pc = "idle", BeginProfile(p, ask),
           switch' \in Switch, mUserAbort' \in BOOLEAN,
           switch'.on => switch'.from \in Profiles /\ switch'.to \in Profiles,
           nReq' \in 0..MaxRequests,
           UNCHANGED <<known, mUUID, mSwitchResult, mSwitchToast, mConnectionState, mVPN,
                       thr, nThr, exits, binder, nStop>>
    PROVE  IInv'
<1> USE ServiceAssumption
<1>1. main' \in Main /\ main'.pc = "begin" /\ main'.uuid = p /\ p \in Profiles
  BY DEF BeginProfile, Main, IInv, TypeOK
<1>2. TypeOK'
  BY <1>1 DEF IInv, TypeOK
<1>3. Named' /\ Numbered' /\ Launchable' /\ Launched' /\ Closed' /\ OneLiveThread'
  BY <1>1 DEF IInv, Named, Numbered, Launchable, Launched, Closed, OneLiveThread
<1>4. StateIsBacked' /\ SwitchIsAttended'
  BY <1>1 DEF StateIsBacked, SwitchIsAttended, Attended
<1> QED BY <1>2, <1>3, <1>4 DEF IInv

LEMMA SwitchingToNamed ==
    ASSUME TypeOK, Named, NEW p \in Profiles, mUUID \in Profiles \/ switch.on
    PROVE  /\ SwitchingTo(p) \in Switch
           /\ SwitchingTo(p).from \in Profiles /\ SwitchingTo(p).to \in Profiles
<1>1. CASE switch.on
  BY <1>1 DEF SwitchingTo, TypeOK, Named, Switch
<1>2. CASE ~switch.on
  BY <1>2 DEF SwitchingTo, Switch
<1> QED BY <1>1, <1>2

LEMMA RequestStep ==
    ASSUME IInv, Request
    PROVE  IInv'
<1> USE ServiceAssumption
<1>0. nReq < MaxRequests /\ nReq' = nReq + 1 => nReq' \in 0..MaxRequests
  BY DEF IInv, TypeOK
<1> UNCHANGED known
  BY DEF Request
<1>1. ASSUME NEW p \in Profiles, StartCommand(p)
      PROVE  IInv'
  <2>1. /\ switch' \in Switch
        /\ switch'.on => switch'.from \in Profiles /\ switch'.to \in Profiles
    <3>1. CASE mUserAbort
      BY <1>1, <3>1, NoSwitchTyped DEF StartCommand
    <3>2. CASE ~mUserAbort /\ mVPN # None /\ mUUID \notin {None, p}
      <4>1. switch' = SwitchingTo(p) /\ mUUID \in Profiles
        BY <1>1, <3>2 DEF StartCommand, IInv, TypeOK
      <4> QED BY <4>1, SwitchingToNamed DEF IInv
    <3>3. CASE ~mUserAbort /\ ~(mVPN # None /\ mUUID \notin {None, p})
      BY <1>1, <3>3 DEF StartCommand, IInv, TypeOK, Named
    <3> QED BY <3>1, <3>2, <3>3
  <2>2. main.pc = "idle" /\ p \in known /\ BeginProfile(p, TRUE) /\ mUserAbort' \in BOOLEAN
    BY <1>1 DEF StartCommand, Asked
  <2> QED BY <1>0, <1>1, <2>1, <2>2, BeginStep DEF StartCommand, Asked
<1>2. ASSUME NEW p \in Profiles, SwitchToProfile(p)
      PROVE  IInv'
  <2>1. switch' = SwitchingTo(p) /\ mUUID \in Profiles
    BY <1>2 DEF SwitchToProfile, IInv, Named
  <2>2. /\ switch' \in Switch
        /\ switch'.from \in Profiles /\ switch'.to \in Profiles
    BY <2>1, SwitchingToNamed DEF IInv
  <2>3. main.pc = "idle" /\ p \in known /\ BeginProfile(p, FALSE) /\ mUserAbort' \in BOOLEAN
    BY <1>2 DEF SwitchToProfile, Asked
  <2> QED BY <1>0, <1>2, <2>2, <2>3, BeginStep DEF SwitchToProfile, Asked
<1>3. CASE AbortSwitch
  <2>1. /\ switch' \in Switch
        /\ switch'.from \in Profiles /\ switch'.to \in Profiles
        /\ switch.from \in Profiles
    BY <1>3 DEF AbortSwitch, CanAbortSwitch, IInv, TypeOK, Named, Switch
  <2>2. main.pc = "idle" /\ BeginProfile(switch.from, FALSE) /\ mUserAbort' \in BOOLEAN
    BY <1>3 DEF AbortSwitch
  <2>3. nReq' \in 0..MaxRequests
    BY <1>3 DEF AbortSwitch, count, IInv, TypeOK
  <2>4. CASE switch.from \in known
    BY <1>3, <2>1, <2>2, <2>3, <2>4, BeginStep DEF AbortSwitch, count
  <2>5. CASE switch.from \notin known
    <3>1. main' \in Main /\ main'.pc = "connecting" /\ main.pc = "idle"
      BY <2>2, <2>5 DEF BeginProfile, Idle, Main
    <3>2. mVPN # None \/ exits > 0
      BY <1>3, <3>1
      DEF AbortSwitch, CanAbortSwitch, IInv, SwitchIsAttended, Attended
    <3>3. UNCHANGED <<mUUID, mSwitchResult, mSwitchToast, mConnectionState, mVPN, thr,
                      nThr, exits, binder, nReq, nStop>>
      BY <1>3 DEF AbortSwitch, count
    <3>4. TypeOK'
      BY <2>1, <2>2, <3>1, <3>3 DEF IInv, TypeOK
    <3>5. Named' /\ Numbered' /\ Launchable' /\ Launched' /\ Closed' /\ OneLiveThread'
      BY <2>1, <3>1, <3>2, <3>3
      DEF IInv, Named, Numbered, Launchable, Launched, Closed, OneLiveThread
    <3>6. StateIsBacked' /\ SwitchIsAttended'
      BY <3>1 DEF StateIsBacked, SwitchIsAttended, Attended
    <3> QED BY <3>4, <3>5, <3>6 DEF IInv
  <2> QED BY <2>4, <2>5
<1>4. CASE Stop
  <2>1. StopFlags /\ binder' = binder /\ main.pc = "idle"
    BY <1>4 DEF Stop
  <2>2. main' \in Main /\ main'.pc = "signal"
    BY <1>4 DEF Stop, Idle, Main
  <2>3. TypeOK'
    BY <2>1, <2>2, StopFlagsStep DEF IInv, TypeOK, StopFlags
  <2>4. Named' /\ Launchable' /\ Launched' /\ Closed'
    BY <2>1, <2>2, NoSwitchTyped, StopFlagsStep
    DEF IInv, Named, Launchable, Launched, Closed, StopFlags
  <2>5. StateIsBacked' /\ SwitchIsAttended'
    BY <2>2 DEF StateIsBacked, SwitchIsAttended, Attended
  <2> QED BY <2>1, <2>3, <2>4, <2>5, StopFlagsStep DEF IInv
<1>5. CASE Disconnect
  BY <1>5, ShowStep DEF Disconnect
<1> QED BY <1>1, <1>2, <1>3, <1>4, <1>5 DEF Request

LEMMA DeleteStep ==
    ASSUME IInv, NEW p \in Profiles, Delete(p)
    PROVE  IInv'
<1>1. known' \subseteq Profiles
  BY DEF Delete, IInv, TypeOK
<1>2. UNCHANGED <<svc, mVPN, thr, nThr, exits, main, binder, count>>
  BY DEF Delete
<1> QED BY <1>1, <1>2
    DEF svc, count, IInv, TypeOK, Named, Numbered, Launchable, Launched,
        Closed, OneLiveThread, StateIsBacked, SwitchIsAttended, Attended

-----------------------------------------------------------------------------
\* The invariant holds in every state the service can reach: whatever order
\* requests, binder calls, joins that time out and late threads come in.
THEOREM Inductive == Spec => []IInv
<1>1. IInv /\ [Next]_vars => IInv'
  <2> SUFFICES ASSUME IInv, [Next]_vars PROVE IInv'
    OBVIOUS
  <2>1. CASE MainStep
    BY <2>1, MainStepInv
  <2>2. CASE Request
    BY <2>2, RequestStep
  <2>3. CASE BinderStep
    BY <2>3, BinderStepInv
  <2>4. CASE \E i \in Threads : ThreadNext(i)
    BY <2>4, ThreadStep
  <2>5. CASE UNCHANGED vars
    BY <2>5 DEF vars, svc, count, IInv, TypeOK, Named, Numbered, Launchable, Launched,
       Closed, OneLiveThread, StateIsBacked, SwitchIsAttended, Attended
  <2>6. CASE \E p \in Profiles : Delete(p)
    BY <2>6, DeleteStep
  <2> QED BY <2>1, <2>2, <2>3, <2>4, <2>5, <2>6 DEF Next
<1> QED BY InitIInv, <1>1, PTL DEF Spec

\* Every field keeps its type, the messages made of a switch among them: no
\* message is ever made of a switch that has been forgotten.
THEOREM TypeCorrect == Spec => []TypeOK
BY Inductive, PTL DEF IInv

\* However many threads outlive their join, all but the one the service
\* listens to have been told to stop.
THEOREM OneLive == Spec => []OneLiveThread
BY Inductive, PTL DEF IInv

\* What the service shows is some running thread's, or is about to be corrected.
THEOREM StateBacked == Spec => []StateIsBacked
BY Inductive, PTL DEF IInv

\* A switch is never forgotten half way: it has a thread, or the main thread
\* is to give it one or to declare it failed.
THEOREM SwitchAttended == Spec => []SwitchIsAttended
BY Inductive, PTL DEF IInv

(***************************************************************************)
(* The service implements ProfileSwitch, step by step.                     *)
(***************************************************************************)

\* A switch is open only as long as no disconnect stands, and a closed one has
\* no profiles.
Told == /\ mUserAbort => ~switch.on
        /\ ~switch.on => switch.from = None /\ switch.to = None

Step == [PS!Next]_(PS!vars)

LEMMA NoSwitchIs ==
    /\ NoSwitch.on = FALSE /\ NoSwitch.fallingBack = FALSE
    /\ NoSwitch.from = None /\ NoSwitch.to = None
BY DEF NoSwitch

\* A step that changes none of what the user sees of a switch.
LEMMA Stutter ==
    ASSUME Told, UNCHANGED <<known, mUUID, switch, mSwitchResult, mSwitchToast>>,
           AboutToBegin' = AboutToBegin,
           mConnectionState' = mConnectionState,
           mUserAbort' = mUserAbort, UNCHANGED count
    PROVE  Step /\ Told'
BY DEF Told, Step, PS!vars, PS!switch, PS!user, count, Stage

\* Whoever shows a state: a session that comes up settles the switch, and
\* nothing else does.
LEMMA ShowMaps ==
    ASSUME IInv, Told, NEW s \in State, NEW from \in Threads \cup {None},
           SetState(s, from), UNCHANGED <<known, count>>, AboutToBegin' = AboutToBegin
    PROVE  Step /\ Told'
<1>1. mUUID' = mUUID
  BY DEF SetState
<1>2. CASE ~Heard(s, from)
  BY <1>1, <1>2, Stutter DEF SetState
<1>3. CASE Heard(s, from) /\ ~(s = "CONNECTED" /\ mConnectionState # "CONNECTED")
  <2>1. /\ UNCHANGED <<switch, mUserAbort, mSwitchResult, mSwitchToast>>
        /\ mConnectionState' = s
    BY <1>3 DEF SetState
  <2>2. CASE s = "CONNECTED"
    BY <1>1, <1>3, <2>1, <2>2, Stutter
  <2>3. CASE s # "CONNECTED"
    <3>1. PS!GoDown
      BY <1>1, <2>1, <2>3 DEF PS!GoDown, PS!switch, PS!user, count, Stage
    <3> QED BY <2>1, <3>1 DEF Step, PS!Next, Told
  <2> QED BY <2>2, <2>3
<1>4. CASE Heard(s, from) /\ s = "CONNECTED" /\ mConnectionState # "CONNECTED"
  <2>1. SwitchConnected /\ mConnectionState' = "CONNECTED"
    BY <1>4 DEF SetState
  <2>2. CASE ~switch.on
    <3>1. UNCHANGED <<switch, mUserAbort, mSwitchResult, mSwitchToast>>
      BY <2>1, <2>2 DEF SwitchConnected
    <3>2. Stage = "none" /\ Stage' = "none" /\ switch'.from = None /\ switch'.to = None
      BY <2>2, <3>1 DEF Stage, Told
    <3>3. PS!ComeUp
      BY <1>1, <1>4, <2>1, <3>1, <3>2 DEF PS!ComeUp, PS!Close, PS!user, count
    <3> QED BY <3>1, <3>3 DEF Step, PS!Next, Told
  <2>3. CASE switch.on
    <3>1. switch' = NoSwitch /\ mUserAbort' = FALSE
      BY <2>1, <2>3 DEF SwitchConnected
    <3>2. PS!Close
      BY <3>1, NoSwitchIs DEF PS!Close, Stage
    <3>3. /\ Stage # "none"
          /\ Stage = "failed" <=> switch.fallingBack /\ ~switch.abortRestore
          /\ Stage = "asked" <=> switch.fallingBack /\ switch.abortRestore
      BY <2>3 DEF Stage
    <3>4. PS!ComeUp
      BY <1>1, <1>4, <2>1, <2>3, <3>2, <3>3 DEF PS!ComeUp, PS!user, count, SwitchConnected
    <3> QED BY <3>1, <3>4, NoSwitchIs DEF Step, PS!Next, Told
  <2> QED BY <2>2, <2>3
<1> QED BY <1>2, <1>3, <1>4

\* A disconnect, on whichever thread.
LEMMA StopMaps ==
    ASSUME StopFlags, known' = known, AboutToBegin' = AboutToBegin
    PROVE  Step /\ Told'
<1>1. PS!Cancel
  BY NoSwitchIs DEF StopFlags, PS!Cancel, PS!Close, Stage
<1> QED BY <1>1, NoSwitchIs DEF Step, PS!Next, Told, StopFlags

LEMMA ThreadMaps ==
    ASSUME IInv, Told, NEW i \in Threads, ThreadNext(i)
    PROVE  Step /\ Told'
<1>1. UNCHANGED svc \/ \E s \in State : SetState(s, i)
  BY DEF ThreadNext, Create, Start, Prompt, Login, Authenticated, SetUp, Report, Drop, Dismiss,
         End, ThreadDone, State
<1>2. UNCHANGED <<known, count>> /\ AboutToBegin' = AboutToBegin
  BY DEF ThreadNext, Create, Start, Prompt, Login, Authenticated, SetUp, Report, Drop, Dismiss,
         End, ThreadDone, ThreadUnchanged, AboutToBegin
<1>3. CASE UNCHANGED svc
  BY <1>2, <1>3, Stutter DEF svc
<1>4. CASE \E s \in State : SetState(s, i)
  BY <1>2, <1>4, ShowMaps
<1> QED BY <1>1, <1>3, <1>4

LEMMA BinderMaps ==
    ASSUME IInv, Told, BinderStep
    PROVE  Step /\ Told'
<1>1. CASE BinderStop
  BY <1>1, StopMaps DEF BinderStop, BinderStep, AboutToBegin
<1>2. CASE BinderSignal
  BY <1>2, Stutter DEF BinderSignal, BinderStep, AboutToBegin, svc
<1>3. CASE BinderStopped
  BY <1>3, ShowMaps DEF BinderStopped, BinderStep, AboutToBegin, State
<1> QED BY <1>1, <1>2, <1>3 DEF BinderStep

\* A thread has ended: the switch goes back, or fails and says so.
LEMMA ExitedMaps ==
    ASSUME IInv, Told, Exited, known' = known
    PROVE  Step /\ Told'
<1>1. /\ main.pc = "idle"
      /\ UNCHANGED <<known, mUUID, mSwitchToast, mConnectionState, count>>
  BY DEF Exited, ExitedThen
<1>2. AboutToBegin = None
  BY <1>1 DEF AboutToBegin
<1>3. CASE mVPN # None
  BY <1>1, <1>3, Stutter DEF Exited, ExitedThen, AboutToBegin
<1>4. CASE mVPN = None /\ MayFallBack
  <2>1. /\ switch' = [switch EXCEPT !.fallingBack = TRUE]
        /\ AboutToBegin' = switch.from /\ switch.from \in known
        /\ UNCHANGED <<mUserAbort, mSwitchResult>>
    BY <1>4 DEF Exited, ExitedThen, BeginProfile, MayFallBack, AboutToBegin
  <2>2. /\ switch'.on = switch.on /\ switch'.from = switch.from /\ switch'.to = switch.to
        /\ switch'.fallingBack /\ switch'.abortRestore = switch.abortRestore
    BY <2>1 DEF IInv, TypeOK, Switch
  <2>3. Stage = "forth" /\ Stage' \in {"failed", "asked"}
    BY <1>4, <2>2 DEF MayFallBack, Stage
  <2>4. PS!GoBack
    BY <1>1, <1>2, <2>1, <2>2, <2>3 DEF PS!GoBack, PS!user, count
  <2> QED BY <2>1, <2>2, <2>4 DEF Step, PS!Next, Told
<1>5. CASE mVPN = None /\ ~MayFallBack
  <2>1. SwitchFailed /\ AboutToBegin' = None
    BY <1>5 DEF Exited, ExitedThen, AboutToBegin, Idle
  <2>2. switch' = NoSwitch /\ mUserAbort' = FALSE
    BY <2>1 DEF SwitchFailed
  <2>3. PS!Close /\ Told'
    BY <2>2, NoSwitchIs DEF PS!Close, Stage, Told
  <2>4. CASE ~switch.on
    <3>1. /\ mSwitchResult' = mSwitchResult
          /\ Stage = "none" /\ switch.from = None /\ switch.to = None
      BY <2>1, <2>4 DEF SwitchFailed, Stage, Told
    <3> QED BY <1>1, <1>2, <2>1, <2>3, <3>1 DEF Step, PS!vars, PS!switch, PS!user, PS!Close, count
  <2>5. CASE switch.on
    <3>1. /\ ~mUserAbort
          /\ Stage # "none"
          /\ Stage = "forth" <=> ~switch.fallingBack
          /\ Stage = "forth" => switch.from \notin known
      BY <1>5, <2>5 DEF Told, MayFallBack, Stage
    <3>2. PS!Fail
      BY <1>1, <1>2, <2>1, <2>3, <2>5, <3>1 DEF PS!Fail, PS!user, count, SwitchFailed
    <3> QED BY <2>3, <3>2 DEF Step, PS!Next
  <2> QED BY <2>4, <2>5
<1> QED BY <1>3, <1>4, <1>5

LEMMA MainMaps ==
    ASSUME IInv, Told, MainStep
    PROVE  Step /\ Told'
<1>0. known' = known
  BY DEF MainStep
<1>1. CASE MainSignal
  BY <1>0, <1>1, Stutter DEF MainSignal, IInv, TypeOK, Main, AboutToBegin, svc
<1>2. CASE MainStopped
  BY <1>0, <1>2, ShowMaps DEF MainStopped, AboutToBegin, Idle, State
<1>3. CASE Begin
  <2>1. /\ AboutToBegin = main.uuid /\ main.uuid \in Profiles
        /\ AboutToBegin' = None /\ mUUID' = main.uuid
        /\ UNCHANGED <<switch, mUserAbort, mSwitchResult, mSwitchToast, mConnectionState, count>>
    BY <1>3 DEF Begin, AboutToBegin, IInv, Named, TypeOK, Main
  <2>2. PS!Begin
    BY <1>0, <2>1, ServiceAssumption DEF PS!Begin, PS!switch, PS!user, count, Stage
  <2> QED BY <2>1, <2>2 DEF Step, PS!Next, Told
<1>4. CASE Halt
  BY <1>0, <1>4, Stutter DEF Halt, IInv, TypeOK, Main, AboutToBegin, svc
<1>5. CASE Launch
  BY <1>0, <1>5, Stutter DEF Launch, IInv, TypeOK, Main, AboutToBegin, svc
<1>6. CASE Ask
  BY <1>0, <1>6, Stutter DEF Ask, IInv, TypeOK, Main, Idle, AboutToBegin, svc
<1>7. CASE Connecting
  BY <1>0, <1>7, ShowMaps DEF Connecting, AboutToBegin, Idle, State
<1>8. CASE Exited
  BY <1>0, <1>8, ExitedMaps
<1>9. CASE Ended
  BY <1>0, <1>9, ShowMaps DEF Ended, AboutToBegin, Idle, State
<1> QED BY <1>1, <1>2, <1>3, <1>4, <1>5, <1>6, <1>7, <1>8, <1>9 DEF MainStep

\* A request opens a switch, gives it a new target, or leaves it as it is.
LEMMA RequestMaps ==
    ASSUME IInv, Told, NEW p \in Profiles, known' = known,
           StartCommand(p) \/ SwitchToProfile(p)
    PROVE  Step /\ Told'
<1>1. /\ main.pc = "idle" /\ p \in known /\ mUserAbort' = FALSE
      /\ AboutToBegin = None /\ AboutToBegin' = p
      /\ UNCHANGED <<known, mUUID, mSwitchResult, mSwitchToast, mConnectionState, nStop>>
      /\ nReq' = nReq + 1
  BY DEF StartCommand, SwitchToProfile, Asked, BeginProfile, AboutToBegin
<1>2. CASE switch' = SwitchingTo(p) /\ ~switch.on /\ mUUID \notin {None, p}
  <2>1. /\ switch'.on /\ ~switch'.fallingBack
        /\ switch'.from = mUUID /\ switch'.to = p
    BY <1>2 DEF SwitchingTo
  <2>2. Stage = "none" /\ Stage' = "forth"
    BY <1>2, <2>1 DEF Stage
  <2>3. PS!Request(p)
    BY <1>1, <1>2, <2>1, <2>2 DEF PS!Request
  <2> QED BY <1>1, <2>1, <2>3 DEF Step, PS!Next, Told
<1>3. CASE switch' = SwitchingTo(p) /\ switch.on
  <2>1. switch' = [switch EXCEPT !.to = p]
    BY <1>3 DEF SwitchingTo
  <2>2. /\ switch'.on = switch.on /\ switch'.fallingBack = switch.fallingBack
        /\ switch'.abortRestore = switch.abortRestore
        /\ switch'.from = switch.from /\ switch'.to = p
    BY <2>1 DEF IInv, TypeOK, Switch
  <2>3. Stage # "none" /\ Stage' = Stage
    BY <1>3, <2>2 DEF Stage
  <2>4. PS!Request(p)
    BY <1>1, <2>2, <2>3 DEF PS!Request
  <2> QED BY <1>1, <1>3, <2>2, <2>4 DEF Step, PS!Next, Told
<1>4. CASE /\ switch'.on = switch.on /\ Stage' = Stage
           /\ switch'.from = switch.from /\ switch'.to = switch.to
  <2>1. PS!Request(p)
    BY <1>1, <1>4 DEF PS!Request, PS!switch
  <2> QED BY <1>1, <1>4, <2>1 DEF Step, PS!Next, Told
<1>5. CASE StartCommand(p)
  <2>1. CASE mUserAbort
    <3>1. switch' = NoSwitch /\ ~switch.on
      BY <1>5, <2>1 DEF StartCommand, Told
    <3>2. Stage = "none" /\ Stage' = "none" /\ switch'.on = switch.on
          /\ switch'.from = switch.from /\ switch'.to = switch.to
      BY <3>1, NoSwitchIs DEF Stage, Told, IInv, TypeOK, Switch
    <3> QED BY <1>4, <3>2
  <2>2. CASE ~mUserAbort /\ mVPN # None /\ mUUID \notin {None, p}
    BY <1>2, <1>3, <1>5, <2>2 DEF StartCommand
  <2>3. CASE ~mUserAbort /\ ~(mVPN # None /\ mUUID \notin {None, p})
    <3>1. switch' = switch
      BY <1>5, <2>3 DEF StartCommand
    <3> QED BY <1>4, <3>1 DEF Stage
  <2> QED BY <2>1, <2>2, <2>3
<1>6. CASE SwitchToProfile(p)
  <2>1. switch' = SwitchingTo(p) /\ mUUID \in Profiles /\ ~(p = mUUID /\ ~switch.on)
    BY <1>6 DEF SwitchToProfile, IInv, Named
  <2> QED BY <1>2, <1>3, <2>1, ServiceAssumption
<1> QED BY <1>5, <1>6

LEMMA AbortMaps ==
    ASSUME IInv, Told, AbortSwitch, known' = known
    PROVE  Step /\ Told'
<1>1. /\ switch.on /\ ~switch.fallingBack /\ mUserAbort' = FALSE
      /\ switch' = [switch EXCEPT !.fallingBack = TRUE, !.abortRestore = TRUE]
      /\ UNCHANGED <<mUUID, mSwitchResult, mSwitchToast, mConnectionState, count>>
      /\ AboutToBegin = None
      /\ \/ switch.from \in known /\ AboutToBegin' = switch.from
         \/ switch.from \notin known /\ AboutToBegin' = None
  BY DEF AbortSwitch, CanAbortSwitch, BeginProfile, AboutToBegin, Idle
<1>2. /\ switch'.on /\ switch'.fallingBack /\ switch'.abortRestore
      /\ switch'.from = switch.from /\ switch'.to = switch.to
  BY <1>1 DEF IInv, TypeOK, Switch
<1>3. Stage = "forth" /\ Stage' = "asked"
  BY <1>1, <1>2 DEF Stage
<1>4. PS!GoBack
  BY <1>1, <1>2, <1>3 DEF PS!GoBack, PS!user, count
<1> QED BY <1>1, <1>2, <1>4 DEF Step, PS!Next, Told

LEMMA AskedMaps ==
    ASSUME IInv, Told, Request
    PROVE  Step /\ Told'
<1>0. known' = known
  BY DEF Request
<1>1. CASE \E p \in Profiles : StartCommand(p) \/ SwitchToProfile(p)
  BY <1>0, <1>1, RequestMaps
<1>2. CASE AbortSwitch
  BY <1>0, <1>2, AbortMaps
<1>3. CASE Stop
  BY <1>0, <1>3, StopMaps DEF Stop, Idle, AboutToBegin
<1>4. CASE Disconnect
  BY <1>0, <1>4, ShowMaps DEF Disconnect, AboutToBegin, State
<1> QED BY <1>1, <1>2, <1>3, <1>4 DEF Request

\* Whatever the threads, the joins and the disconnects from outside do, a switch
\* is settled, fails and says so, or is ended by the user; it goes back once, and
\* does not fail before it has, unless the old profile was deleted.
THEOREM ServiceImplementsSwitch == Spec => ImplementsSwitch
<1>1. Init => PS!Init /\ Told
  <2> SUFFICES ASSUME Init PROVE PS!Init /\ Told
    OBVIOUS
  <2>1. AboutToBegin = None /\ Stage = "none" /\ Told
    BY NoSwitchIs DEF Init, AboutToBegin, Idle, Stage, Told
  <2> QED BY <2>1, NoSwitchIs DEF Init, PS!Init
<1>2. IInv /\ Told /\ [Next]_vars => Step /\ Told'
  <2> SUFFICES ASSUME IInv, Told, [Next]_vars PROVE Step /\ Told'
    OBVIOUS
  <2>1. CASE MainStep
    BY <2>1, MainMaps
  <2>2. CASE Request
    BY <2>2, AskedMaps
  <2>3. CASE BinderStep
    BY <2>3, BinderMaps
  <2>4. CASE \E i \in Threads : ThreadNext(i)
    BY <2>4, ThreadMaps
  <2>5. CASE \E p \in Profiles : Delete(p)
    <3>1. PICK p \in Profiles : Delete(p)
      BY <2>5
    <3>2. PS!Delete(p)
      BY <3>1 DEF Delete, AboutToBegin, svc, PS!Delete, PS!switch, PS!user, count, Stage
    <3> QED BY <3>1, <3>2 DEF Step, PS!Next, Told, Delete, svc
  <2>6. CASE UNCHANGED vars
    BY <2>6, Stutter DEF vars, svc, AboutToBegin
  <2> QED BY <2>1, <2>2, <2>3, <2>4, <2>5, <2>6 DEF Next
<1> QED BY <1>1, <1>2, Inductive, PTL DEF Spec, Step, ImplementsSwitch, PS!Spec
=============================================================================
