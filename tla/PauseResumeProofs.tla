------------------------- MODULE PauseResumeProofs --------------------------
(***************************************************************************)
(* The safety properties of pausing, resuming and stopping an Android       *)
(* session, for any number of events and any length of the command pipe.   *)
(*                                                                         *)
(* The inductive invariant adds two facts to the properties: a stop clears *)
(* the pause, so a thread that goes round the main loop to be stopped does  *)
(* not leave a pause behind; and no pause stands before the library exists.*)
(* Calls is what is said of the VPN thread and those who call it, the rest  *)
(* of the receiver and of KeepAlive.                                       *)
(***************************************************************************)
EXTENDS PauseResume, TLAPS

Typed      == /\ LibTypeOK /\ pc \in Pc
              /\ mRequestPause \in BOOLEAN /\ mRequestDisconnect \in BOOLEAN
StopClears == mRequestDisconnect => ~mRequestPause
Fresh      == pc = "new" => ~mRequestPause

Calls == /\ Typed /\ StopClears /\ Fresh
         /\ CancelNotLost /\ PauseNotLost /\ NoLostWakeup

IInv == TypeOK /\ Calls /\ RunsWhenWanted /\ KeepaliveInStep

-----------------------------------------------------------------------------
\* A byte written is in the pipe, with all that was there before.
LEMMA SendKeeps ==
    ASSUME pipe \in Seq(Commands), NEW d \in Commands, Send(d)
    PROVE  /\ pipe' \in Seq(Commands)
           /\ Sent(d)'
           /\ \A c \in Commands : Sent(c) => Sent(c)'
<1>1. pipe' \in Seq(Commands) /\ Len(pipe') = Len(pipe) + 1
  BY DEF Send
<1>2. pipe'[Len(pipe) + 1] = d /\ \A i \in 1..Len(pipe) : pipe'[i] = pipe[i]
  BY DEF Send
<1>3. Len(pipe) \in Nat
  OBVIOUS
<1>4. Sent(d)'
  BY <1>1, <1>2, <1>3 DEF Sent
<1>5. ASSUME NEW c \in Commands, Sent(c) PROVE Sent(c)'
  BY <1>1, <1>2, <1>3, <1>5 DEF Sent
<1> QED BY <1>1, <1>4, <1>5

\* A byte read leaves all the others.
LEMMA ReadKeeps ==
    ASSUME pipe \in Seq(Commands), pipe # <<>>, pipe' = Tail(pipe)
    PROVE  /\ pipe' \in Seq(Commands) /\ Head(pipe) \in Commands
           /\ \A c \in Commands : Sent(c) => Head(pipe) = c \/ Sent(c)'
<1>1. Len(pipe) \in Nat /\ Len(pipe) # 0 /\ Head(pipe) = pipe[1]
  OBVIOUS
<1>2. pipe' \in Seq(Commands) /\ Len(pipe') = Len(pipe) - 1
  OBVIOUS
<1>3. \A i \in 1..Len(pipe') : pipe'[i] = pipe[i + 1]
  OBVIOUS
<1>4. Head(pipe) \in Commands
  BY <1>1
<1>5. ASSUME NEW c \in Commands, Sent(c), Head(pipe) # c PROVE Sent(c)'
  <2>1. PICK i \in 1..Len(pipe) : pipe[i] = c
    BY <1>5 DEF Sent
  <2>2. i # 1 /\ i - 1 \in 1..Len(pipe')
    BY <1>1, <1>2, <1>5, <2>1
  <2>3. pipe'[i - 1] = c
    BY <1>3, <2>1, <2>2
  <2> QED BY <2>2, <2>3 DEF Sent
<1> QED BY <1>2, <1>4, <1>5

\* check_cmd_fd: what was on its way is still, or is a flag now.
LEMMA CheckKeeps ==
    ASSUME LibTypeOK, CheckCmd
    PROVE  /\ pipe' \in Seq(Commands)
           /\ gotCancel' \in BOOLEAN /\ gotPause' \in BOOLEAN
           /\ Sent("x") \/ gotCancel => Sent("x")' \/ gotCancel'
           /\ Sent("p") \/ gotPause => Sent("p")' \/ gotPause'
<1>1. CASE pipe = <<>>
  BY <1>1 DEF CheckCmd, LibTypeOK, Sent
<1>2. CASE pipe # <<>>
  <2>1. /\ pipe' = Tail(pipe)
        /\ gotCancel' = (gotCancel \/ Head(pipe) = "x")
        /\ gotPause' = (gotPause \/ Head(pipe) = "p")
    BY <1>2 DEF CheckCmd
  <2>2. /\ pipe' \in Seq(Commands) /\ Head(pipe) \in Commands
        /\ \A c \in Commands : Sent(c) => Head(pipe) = c \/ Sent(c)'
    BY <1>2, <2>1, ReadKeeps DEF LibTypeOK
  <2>3. /\ Sent("x") => Head(pipe) = "x" \/ Sent("x")'
        /\ Sent("p") => Head(pipe) = "p" \/ Sent("p")'
    BY <2>2 DEF Commands
  <2> QED BY <2>1, <2>2, <2>3 DEF LibTypeOK
<1> QED BY <1>1, <1>2

-----------------------------------------------------------------------------
\* The calls made under mMainloopLock.
LEMMA PauseStep ==
    ASSUME Calls, Pause
    PROVE  Calls' /\ (mRequestPause' => mRequestPause \/ ~mRequestDisconnect)
<1> USE DEF Calls, Typed
<1>1. CASE ~mRequestPause /\ ~mRequestDisconnect /\ HasLib
  <2>1. /\ mRequestPause' = TRUE /\ Send("p") /\ pc' = pc /\ mRequestDisconnect' = FALSE
        /\ gotCancel' = gotCancel /\ gotPause' = gotPause /\ conn' = conn
    BY <1>1 DEF Pause, LibRest
  <2>2. "p" \in Commands
    BY DEF Commands
  <2>3. pipe' \in Seq(Commands) /\ Sent("p")'
    BY <2>1, <2>2, SendKeeps DEF LibTypeOK
  <2> QED BY <1>1, <2>1, <2>3
          DEF LibTypeOK, StopClears, Fresh, CancelNotLost, PauseNotLost, NoLostWakeup, HasLib
<1>2. CASE ~(~mRequestPause /\ ~mRequestDisconnect /\ HasLib)
  BY <1>2 DEF Pause, LibRest, LibTypeOK, StopClears, Fresh, CancelNotLost, PauseNotLost,
              NoLostWakeup, Sent
<1> QED BY <1>1, <1>2

LEMMA ResumeStep ==
    ASSUME Calls, Resume
    PROVE  Calls' /\ ~mRequestPause'
<1> USE DEF Calls, Typed
<1>1. /\ ~mRequestPause' /\ mRequestPause' \in BOOLEAN
      /\ mRequestDisconnect' = mRequestDisconnect /\ pipe' = pipe
      /\ gotCancel' = gotCancel /\ gotPause' = gotPause /\ conn' = conn
  BY DEF Resume, LibRest
<1>2. pc' \in Pc /\ pc' # "wait" /\ (pc' = pc \/ (pc = "wait" /\ pc' = "woken"))
  BY DEF Resume, Notify, NoLostWakeup, Pc, Alive
<1>3. CancelNotLost'
  BY <1>1, <1>2 DEF CancelNotLost, Alive, Sent
<1> QED BY <1>1, <1>2, <1>3
        DEF LibTypeOK, StopClears, Fresh, PauseNotLost, NoLostWakeup

LEMMA ReconnectStep ==
    ASSUME Calls, Reconnect
    PROVE  Calls' /\ mRequestPause' = mRequestPause
<1> USE DEF Calls, Typed
<1>1. /\ pc' = pc /\ mRequestPause' = mRequestPause /\ mRequestDisconnect' = mRequestDisconnect
      /\ gotCancel' = gotCancel /\ gotPause' = gotPause /\ conn' = conn
  BY DEF Reconnect, LibRest, req
<1>2. pipe' \in Seq(Commands) /\ \A c \in Commands : Sent(c) => Sent(c)'
  <2>1. CASE HasLib
    <3>1. Send("p") /\ "p" \in Commands
      BY <2>1 DEF Reconnect, Commands
    <3> QED BY <3>1, SendKeeps DEF LibTypeOK
  <2>2. CASE ~HasLib
    BY <2>2 DEF Reconnect, LibTypeOK, Sent
  <2> QED BY <2>1, <2>2
<1>3. (Sent("x") => Sent("x")') /\ (Sent("p") => Sent("p")')
  BY <1>2 DEF Commands
<1> QED BY <1>1, <1>2, <1>3
        DEF LibTypeOK, StopClears, Fresh, CancelNotLost, PauseNotLost, NoLostWakeup

LEMMA StatsStep ==
    ASSUME Calls, RequestStats
    PROVE  Calls'
<1> USE DEF Calls, Typed
<1>1. /\ pc' = pc /\ mRequestPause' = mRequestPause /\ mRequestDisconnect' = mRequestDisconnect
      /\ gotCancel' = gotCancel /\ gotPause' = gotPause /\ conn' = conn
      /\ ~mRequestPause /\ ~mRequestDisconnect /\ Send("s")
  BY DEF RequestStats, LibRest, req
<1>2. pipe' \in Seq(Commands)
  <2>1. "s" \in Commands
    BY DEF Commands
  <2> QED BY <1>1, <2>1, SendKeeps DEF LibTypeOK
<1> QED BY <1>1, <1>2
        DEF LibTypeOK, StopClears, Fresh, CancelNotLost, PauseNotLost, NoLostWakeup

LEMMA StopStep ==
    ASSUME Calls, Stop
    PROVE  Calls' /\ ~mRequestPause'
<1> USE DEF Calls, Typed
<1>1. /\ mRequestPause' = FALSE /\ mRequestDisconnect' = TRUE
      /\ gotCancel' = gotCancel /\ gotPause' = gotPause /\ conn' = conn
  BY DEF Stop, LibRest
<1>2. pc' \in Pc /\ pc' # "wait" /\ (pc' = pc \/ (pc = "wait" /\ pc' = "woken"))
  BY DEF Stop, Notify, Pc, Alive
<1>3. pipe' \in Seq(Commands) /\ (HasLib => Sent("x")')
  <2>1. CASE HasLib
    <3>1. Send("x") /\ "x" \in Commands
      BY <2>1 DEF Stop, Commands
    <3> QED BY <3>1, SendKeeps DEF LibTypeOK
  <2>2. CASE ~HasLib
    BY <2>2 DEF Stop, LibTypeOK
  <2> QED BY <2>1, <2>2
<1>4. CancelNotLost'
  BY <1>2, <1>3 DEF CancelNotLost, HasLib, Alive, InLibrary, Loop
<1> QED BY <1>1, <1>2, <1>3, <1>4
        DEF LibTypeOK, StopClears, Fresh, PauseNotLost, NoLostWakeup

-----------------------------------------------------------------------------
\* The VPN thread in the library.
LEMMA LibStep ==
    ASSUME Calls, LibNext, UNCHANGED req
    PROVE  Calls'
<1> USE DEF Calls, Typed
<1>1. mRequestPause' = mRequestPause /\ mRequestDisconnect' = mRequestDisconnect
  BY DEF req
<1>2. ASSUME NEW there \in {"cookie", "cstp"}, WaitSees(there) PROVE Calls'
  <2>1. /\ pc = there /\ CheckCmd /\ conn' = conn
        /\ pc' = IF gotCancel' \/ gotPause' THEN Failed[there] ELSE there
    BY <1>2 DEF WaitSees
  <2>2. pc' \in Pc /\ (pc' = pc \/ pc' \in Leaving) /\ pc # "new" /\ pc # "wait"
    BY <2>1 DEF Pc, Leaving, Failed
  <2> QED BY <1>1, <2>1, <2>2, CheckKeeps
          DEF LibTypeOK, StopClears, Fresh, CancelNotLost, PauseNotLost, NoLostWakeup,
              Alive, InLibrary, Loop, Leaving
<1>3. CASE RetrySees
  <2>1. /\ pc = "retry" /\ CheckCmd /\ conn' = conn
        /\ pc' \in {"end", "poll", "retry"} /\ (gotCancel' => pc' = "end")
    BY <1>3 DEF RetrySees
  <2>2. pc' \in Pc
    BY <2>1 DEF Pc, Alive, InLibrary, Loop, Leaving
  <2> QED BY <1>1, <2>1, <2>2, CheckKeeps
          DEF LibTypeOK, StopClears, Fresh, CancelNotLost, PauseNotLost, NoLostWakeup,
              Alive, InLibrary, Loop
<1>4. CASE \/ Connected("cstp", "tun") \/ Connected("retry", "poll") \/ Tcp \/ Awake
           \/ Refused("cookie") \/ Refused("cstp") \/ Refused("retry")
  <2>1. /\ pipe' = pipe /\ gotCancel' = gotCancel /\ gotPause' = gotPause
        /\ conn' \in BOOLEAN
        /\ pc \in InLibrary /\ pc' \in InLibrary \cup Leaving
    BY <1>4 DEF Connected, Refused, Tcp, Awake, lib, LibTypeOK, InLibrary, Loop, Leaving,
                Failed
  <2>2. pc' \in Pc /\ pc' # "new" /\ pc' # "wait"
    BY <2>1 DEF Pc, Alive, InLibrary, Loop, Leaving
  <2> QED BY <1>1, <2>1, <2>2
          DEF LibTypeOK, StopClears, Fresh, CancelNotLost, PauseNotLost, NoLostWakeup,
              Alive, InLibrary, Loop, Leaving, Sent
<1>5. CASE Poll
  <2> DEFINE idle   == gotCancel \/ gotPause \/ pipe = <<>>
             c      == IF idle THEN "s" ELSE Head(pipe)
             cancel == gotCancel \/ c = "x"
             pause  == gotPause \/ c = "p"
  <2>1. /\ pc = "poll"
        /\ pipe' = IF idle THEN pipe ELSE Tail(pipe)
        /\ gotCancel' = FALSE /\ gotPause' = (cancel /\ pause)
        /\ pc' = IF cancel THEN "end" ELSE IF pause THEN "after" ELSE "sleep"
        /\ conn' = (conn /\ (cancel \/ ~pause))
    BY <1>5 DEF Poll
  <2>2. pc' \in Pc /\ pc' # "new" /\ pc' # "wait" /\ pc \in InLibrary /\ pc \in Alive
    BY <2>1 DEF Pc, Alive, InLibrary, Loop, Leaving
  <2>3. pipe' \in Seq(Commands)
    BY <2>1, ReadKeeps DEF LibTypeOK
  <2>4. ~cancel => (Sent("x") => Sent("x")')
    <3>1. CASE idle
      BY <2>1, <3>1 DEF Sent
    <3>2. CASE ~idle
      BY <2>1, <3>2, ReadKeeps DEF LibTypeOK, Commands
    <3> QED BY <3>1, <3>2
  <2>5. ~pause => (Sent("p") => Sent("p")')
    <3>1. CASE idle
      BY <2>1, <3>1 DEF Sent
    <3>2. CASE ~idle
      BY <2>1, <3>2, ReadKeeps DEF LibTypeOK, Commands
    <3> QED BY <3>1, <3>2
  <2> HIDE DEF idle, c, cancel, pause
  <2>6. CancelNotLost'
    <3>1. CASE cancel
      BY <2>1, <3>1 DEF CancelNotLost, Alive, InLibrary, Loop
    <3>2. CASE ~cancel
      <4>1. ~gotCancel
        BY <3>2 DEF cancel
      <4> QED BY <1>1, <2>2, <2>4, <3>2, <4>1 DEF CancelNotLost
    <3> QED BY <3>1, <3>2
  <2>7. PauseNotLost'
    <3>1. CASE cancel \/ pause
      BY <2>1, <3>1 DEF PauseNotLost, InLibrary, Loop
    <3>2. CASE ~cancel /\ ~pause
      <4>1. ~gotPause
        BY <3>2 DEF pause
      <4> QED BY <1>1, <2>2, <2>5, <3>2, <4>1 DEF PauseNotLost
    <3> QED BY <3>1, <3>2
  <2> QED BY <1>1, <2>1, <2>2, <2>3, <2>6, <2>7
          DEF LibTypeOK, StopClears, Fresh, NoLostWakeup
<1> QED BY <1>2, <1>3, <1>4, <1>5 DEF LibNext

\* The steps of the VPN thread outside the library.
Outside == \/ Create \/ Start \/ Form \/ Cookie \/ NoCookie \/ NoCstp \/ Tun \/ Dismiss
           \/ After \/ Woken \/ End

\* The VPN thread outside the library: it goes back into the main loop without
\* a wait only when no pause stands.
LEMMA OutsideStep ==
    ASSUME Calls, Outside
    PROVE  Calls'
<1> USE DEF Calls, Typed, Outside, Create, Start, Form, Cookie, NoCookie, NoCstp, Tun,
            Dismiss, After, Woken, End
<1>1. /\ pipe' = pipe /\ gotCancel' = gotCancel /\ gotPause' = gotPause /\ conn' = conn
      /\ mRequestPause' = mRequestPause /\ mRequestDisconnect' = mRequestDisconnect
  BY DEF Rest, lib, req
<1>2. pc' \in Pc
  BY DEF Pc, Alive, InLibrary, Loop, Leaving
<1>3. CancelNotLost'
  BY <1>1 DEF CancelNotLost, Alive, InLibrary, Loop, Sent
<1>4. PauseNotLost'
  BY <1>1 DEF PauseNotLost, InLibrary, Loop, Fresh, StopClears, Sent
<1>5. NoLostWakeup' /\ Fresh'
  BY <1>1 DEF NoLostWakeup, Fresh
<1> QED BY <1>1, <1>2, <1>3, <1>4, <1>5 DEF LibTypeOK, StopClears

-----------------------------------------------------------------------------
\* updatePauseState leaves the session as the receiver notes it.
LEMMA UpdateStep ==
    ASSUME Calls, RunsWhenWanted, NEW r \in Receiver, r.paused = rcv.paused,
           UpdatePauseState(r)
    PROVE  /\ Calls' /\ RunsWhenWanted'
           /\ rcv' \in Receiver /\ rcv'.keepalive = r.keepalive
<1>1. WantsPause(r) \in BOOLEAN
  BY DEF WantsPause, Receiver
<1>2. rcv' = [r EXCEPT !.paused = WantsPause(r)]
  BY DEF UpdatePauseState
<1>3. rcv' \in Receiver /\ rcv'.keepalive = r.keepalive /\ rcv'.paused = WantsPause(r)
  BY <1>1, <1>2 DEF Receiver
<1>4. CASE WantsPause(r) /\ ~r.paused
  BY <1>3, <1>4, PauseStep DEF UpdatePauseState, RunsWhenWanted
<1>5. CASE ~WantsPause(r) /\ r.paused
  BY <1>3, <1>5, ResumeStep DEF UpdatePauseState, RunsWhenWanted
<1>6. CASE WantsPause(r) = r.paused
  <2>1. UNCHANGED <<pc, lib, req>>
    BY <1>6 DEF UpdatePauseState
  <2>2. Calls'
    BY <2>1 DEF lib, req, Calls, Typed, LibTypeOK, StopClears, Fresh, CancelNotLost,
                PauseNotLost, NoLostWakeup, Sent
  <2> QED BY <1>3, <1>6, <2>1, <2>2 DEF RunsWhenWanted, req
<1>7. r.paused \in BOOLEAN
  BY DEF Receiver
<1> QED BY <1>1, <1>3, <1>4, <1>5, <1>6, <1>7

LEMMA NetworkStep ==
    ASSUME Calls, RunsWhenWanted, rcv \in Receiver, NEW u \in Uplinks, ApplyNetwork(u)
    PROVE  /\ Calls' /\ RunsWhenWanted'
           /\ rcv' \in Receiver /\ rcv'.keepalive = rcv.keepalive
<1> DEFINE r == [rcv EXCEPT !.networkType = u, !.networkOff = FALSE]
           off == [rcv EXCEPT !.networkOff = TRUE]
<1>1. off \in Receiver /\ off.paused = rcv.paused /\ off.keepalive = rcv.keepalive
  BY DEF Receiver
<1>2. u # "none" => r \in Receiver /\ r.paused = rcv.paused /\ r.keepalive = rcv.keepalive
  BY DEF Receiver, Uplinks
<1>3. \/ UpdatePauseState(off)
      \/ u # "none" /\ UpdatePauseState(r)
      \/ u # "none" /\ Reconnect /\ rcv' = r
  BY DEF ApplyNetwork
<1> HIDE DEF r, off
<1>4. CASE UpdatePauseState(off)
  BY <1>1, <1>4, UpdateStep
<1>5. CASE u # "none" /\ UpdatePauseState(r)
  BY <1>2, <1>5, UpdateStep
<1>6. CASE u # "none" /\ Reconnect /\ rcv' = r
  BY <1>2, <1>6, ReconnectStep DEF RunsWhenWanted
<1> QED BY <1>3, <1>4, <1>5, <1>6

LEMMA KeepaliveStep ==
    ASSUME Calls, RunsWhenWanted, rcv \in Receiver, NEW active \in BOOLEAN,
           SetKeepalive(active)
    PROVE  /\ Calls' /\ RunsWhenWanted'
           /\ rcv' \in Receiver /\ rcv'.keepalive = active
<1> DEFINE r == [rcv EXCEPT !.keepalive = active]
<1>1. r \in Receiver /\ r.paused = rcv.paused /\ r.keepalive = active
  BY DEF Receiver
<1>2. UpdatePauseState(r)
  BY DEF SetKeepalive
<1> HIDE DEF r
<1> QED BY <1>1, <1>2, UpdateStep

-----------------------------------------------------------------------------
LEMMA InitIInv == Init => IInv
<1> SUFFICES ASSUME Init PROVE IInv
  OBVIOUS
<1> USE PauseAssumption
<1>1. rcv \in Receiver /\ rcv.keepalive = FALSE
  BY DEF Init, Receiver
<1>2. ka \in KeepAlive /\ ka.on = FALSE /\ ka.probe = "none"
  BY DEF Init, KeepAlive
<1>3. LibTypeOK /\ pc \in Pc
  <2>1. pipe \in Seq(Commands)
    <3>1. pipe = <<>>
      BY DEF Init, LibInit
    <3> QED BY <3>1
  <2> QED BY <2>1 DEF Init, LibInit, LibTypeOK, Pc
<1>4. nEvents \in 0..MaxEvents
  BY DEF Init
<1>5. rcv.paused = FALSE /\ mRequestPause = FALSE /\ mRequestDisconnect = FALSE /\ pc = "new"
  BY DEF Init
<1> QED BY <1>1, <1>2, <1>3, <1>4, <1>5
        DEF IInv, TypeOK, Calls, Typed, StopClears, Fresh, CancelNotLost, PauseNotLost,
            NoLostWakeup, RunsWhenWanted, KeepaliveInStep, Alive, InLibrary, Loop

\* What a step of the receiver, of KeepAlive or of the VPN thread leaves to show.
LEMMA Whole ==
    ASSUME Calls', RunsWhenWanted', rcv' \in Receiver, ka' \in KeepAlive,
           nEvents' \in 0..MaxEvents, KeepaliveInStep'
    PROVE  IInv'
BY DEF IInv, Calls, Typed, TypeOK

LEMMA EventStep ==
    ASSUME IInv, Event \/ nEvents' = nEvents
    PROVE  nEvents' \in 0..MaxEvents
BY PauseAssumption DEF IInv, TypeOK, Event

LEMMA MainStep ==
    ASSUME IInv, MainNext
    PROVE  IInv'
<1>0. /\ Calls /\ RunsWhenWanted /\ KeepaliveInStep
      /\ rcv \in Receiver /\ ka \in KeepAlive /\ nEvents \in 0..MaxEvents
  BY DEF IInv, TypeOK
<1>1. CASE Register
  <2>1. PICK u \in Uplinks :
          IF u = "none" THEN UpdatePauseState([rcv EXCEPT !.state = "on"])
          ELSE UpdatePauseState([rcv EXCEPT !.state = "on", !.networkType = u,
                                            !.networkOff = FALSE])
    BY <1>1 DEF Register
  <2> DEFINE none == [rcv EXCEPT !.state = "on"]
             some == [rcv EXCEPT !.state = "on", !.networkType = u, !.networkOff = FALSE]
  <2>2. PICK r \in Receiver : /\ UpdatePauseState(r) /\ r.paused = rcv.paused
                              /\ r.keepalive = rcv.keepalive
    <3>1. none \in Receiver /\ none.paused = rcv.paused /\ none.keepalive = rcv.keepalive
      BY <1>0 DEF Receiver
    <3>2. u # "none" => /\ some \in Receiver /\ some.paused = rcv.paused
                        /\ some.keepalive = rcv.keepalive
      BY <1>0 DEF Receiver, Uplinks
    <3>3. IF u = "none" THEN UpdatePauseState(none) ELSE UpdatePauseState(some)
      BY <2>1
    <3> HIDE DEF none, some
    <3> QED BY <3>1, <3>2, <3>3
  <2>3. Calls' /\ RunsWhenWanted' /\ rcv' \in Receiver /\ rcv'.keepalive = rcv.keepalive
    BY <1>0, <2>2, UpdateStep
  <2> QED BY <1>0, <1>1, <2>3, Whole DEF Register, KeepaliveInStep
<1>2. CASE Network \/ LateNetwork
  <2>1. PICK u \in Uplinks : ApplyNetwork(u)
    BY <1>2 DEF Network, LateNetwork, Uplinks
  <2>2. ka' = ka /\ nEvents' \in 0..MaxEvents
    BY <1>2, EventStep DEF Network, LateNetwork
  <2>3. Calls' /\ RunsWhenWanted' /\ rcv' \in Receiver /\ rcv'.keepalive = rcv.keepalive
    BY <1>0, <2>1, NetworkStep
  <2> QED BY <1>0, <2>2, <2>3, Whole DEF KeepaliveInStep
<1>3. CASE Screen \/ PrefChanged
  <2>1. PICK r \in Receiver : /\ UpdatePauseState(r) /\ r.paused = rcv.paused
                              /\ r.keepalive = rcv.keepalive
    <3>1. CASE Screen
      <4>1. PICK off \in BOOLEAN : UpdatePauseState([rcv EXCEPT !.screenOff = off])
        BY <3>1 DEF Screen
      <4> DEFINE r == [rcv EXCEPT !.screenOff = off]
      <4>2. r \in Receiver /\ r.paused = rcv.paused /\ r.keepalive = rcv.keepalive
        BY <1>0 DEF Receiver
      <4>3. UpdatePauseState(r)
        BY <4>1
      <4> HIDE DEF r
      <4> QED BY <4>2, <4>3
    <3>2. CASE PrefChanged
      <4>1. PICK b \in BOOLEAN : UpdatePauseState([rcv EXCEPT !.pauseOnScreenOff = b])
        BY <3>2 DEF PrefChanged
      <4> DEFINE r == [rcv EXCEPT !.pauseOnScreenOff = b]
      <4>2. r \in Receiver /\ r.paused = rcv.paused /\ r.keepalive = rcv.keepalive
        BY <1>0 DEF Receiver
      <4>3. UpdatePauseState(r)
        BY <4>1
      <4> HIDE DEF r
      <4> QED BY <4>2, <4>3
    <3> QED BY <1>3, <3>1, <3>2
  <2>2. ka' = ka /\ nEvents' \in 0..MaxEvents
    BY <1>3, EventStep DEF Screen, PrefChanged
  <2>3. Calls' /\ RunsWhenWanted' /\ rcv' \in Receiver /\ rcv'.keepalive = rcv.keepalive
    BY <1>0, <2>1, UpdateStep
  <2> QED BY <1>0, <2>2, <2>3, Whole DEF KeepaliveInStep
<1>4. CASE RegisterKeepAlive
  <2>1. /\ ka' = [ka EXCEPT !.on = TRUE, !.alarm = TRUE] /\ rcv' = rcv /\ nEvents' = nEvents
        /\ UNCHANGED <<pc, lib, req>>
    BY <1>4 DEF RegisterKeepAlive
  <2>2. ka' \in KeepAlive /\ ka'.alarm = TRUE /\ ka'.probe = ka.probe
    BY <1>0, <2>1 DEF KeepAlive
  <2>3. Calls' /\ RunsWhenWanted'
    BY <1>0, <2>1 DEF lib, req, Calls, Typed, LibTypeOK, StopClears, Fresh, CancelNotLost,
                      PauseNotLost, NoLostWakeup, Sent, RunsWhenWanted
  <2> QED BY <1>0, <2>1, <2>2, <2>3, Whole DEF KeepaliveInStep
<1>5. CASE Alarm /\ ka.on
  <2>1. /\ SetKeepalive(TRUE) /\ ka' = [ka EXCEPT !.alarm = FALSE, !.probe = "query"]
        /\ nEvents' \in 0..MaxEvents
    BY <1>5, EventStep DEF Alarm
  <2>2. ka' \in KeepAlive /\ ka'.probe = "query"
    BY <1>0, <2>1 DEF KeepAlive
  <2>3. Calls' /\ RunsWhenWanted' /\ rcv' \in Receiver /\ rcv'.keepalive = TRUE
    BY <1>0, <2>1, KeepaliveStep
  <2> QED BY <2>1, <2>2, <2>3, Whole DEF KeepaliveInStep
<1>6. CASE Alarm /\ ~ka.on
  <2>1. /\ ka' = [ka EXCEPT !.alarm = FALSE] /\ UNCHANGED <<pc, lib, req, rcv>>
        /\ nEvents' \in 0..MaxEvents
    BY <1>6, EventStep DEF Alarm
  <2>2. ka' \in KeepAlive /\ ka'.on = FALSE /\ ka'.probe = ka.probe
    BY <1>0, <1>6, <2>1 DEF KeepAlive
  <2>3. Calls' /\ RunsWhenWanted'
    BY <1>0, <2>1 DEF lib, req, Calls, Typed, LibTypeOK, StopClears, Fresh, CancelNotLost,
                      PauseNotLost, NoLostWakeup, Sent, RunsWhenWanted
  <2> QED BY <1>0, <2>1, <2>2, <2>3, Whole DEF KeepaliveInStep
<1>7. CASE ProbeDone
  <2>1. /\ SetKeepalive(FALSE) /\ ka' = [ka EXCEPT !.alarm = TRUE, !.probe = "none"]
        /\ nEvents' \in 0..MaxEvents
    BY <1>7, EventStep DEF ProbeDone
  <2>2. ka' \in KeepAlive /\ ka'.alarm = TRUE /\ ka'.probe = "none"
    BY <1>0, <2>1 DEF KeepAlive
  <2>3. Calls' /\ RunsWhenWanted' /\ rcv' \in Receiver /\ rcv'.keepalive = FALSE
    BY <1>0, <2>1, KeepaliveStep
  <2> QED BY <2>1, <2>2, <2>3, Whole DEF KeepaliveInStep
<1>8. CASE Unregister
  <2>1. /\ rcv' = [rcv EXCEPT !.state = "off"]
        /\ ka' = [ka EXCEPT !.on = FALSE, !.alarm = FALSE]
        /\ UNCHANGED <<pc, lib, req>> /\ nEvents' = nEvents
    BY <1>8 DEF Unregister
  <2>2. /\ ka' \in KeepAlive /\ ka'.on = FALSE /\ ka'.probe = ka.probe
        /\ rcv' \in Receiver /\ rcv'.paused = rcv.paused /\ rcv'.keepalive = rcv.keepalive
    BY <1>0, <2>1 DEF KeepAlive, Receiver
  <2>3. Calls' /\ RunsWhenWanted'
    BY <1>0, <2>1, <2>2 DEF lib, req, Calls, Typed, LibTypeOK, StopClears, Fresh,
       CancelNotLost, PauseNotLost, NoLostWakeup, Sent, RunsWhenWanted
  <2> QED BY <1>0, <2>1, <2>2, <2>3, Whole DEF KeepaliveInStep
<1>9. CASE RequestStats
  <2>1. rcv' = rcv /\ ka' = ka /\ mRequestPause' = mRequestPause /\ nEvents' \in 0..MaxEvents
    BY <1>9, EventStep DEF RequestStats, req
  <2>2. Calls'
    BY <1>0, <1>9, StatsStep
  <2> QED BY <1>0, <2>1, <2>2, Whole DEF RunsWhenWanted, KeepaliveInStep
<1>10. CASE Stop
  <2>1. rcv' = rcv /\ ka' = ka /\ nEvents' = nEvents
    BY <1>10 DEF Stop
  <2>2. Calls' /\ ~mRequestPause'
    BY <1>0, <1>10, StopStep
  <2> QED BY <1>0, <2>1, <2>2, Whole DEF RunsWhenWanted, KeepaliveInStep
<1> QED BY <1>1, <1>2, <1>3, <1>4, <1>5, <1>6, <1>7, <1>8, <1>9, <1>10 DEF MainNext

\* The invariant holds whenever events, calls, answers and bytes come.
THEOREM Inductive == Spec => []IInv
<1>1. IInv /\ [Next]_vars => IInv'
  <2> SUFFICES ASSUME IInv, [Next]_vars PROVE IInv'
    OBVIOUS
  <2>0. /\ Calls /\ RunsWhenWanted /\ KeepaliveInStep
        /\ rcv \in Receiver /\ ka \in KeepAlive /\ nEvents \in 0..MaxEvents
    BY DEF IInv, TypeOK
  <2>1. CASE MainNext
    BY <2>1, MainStep
  <2>2. CASE VpnNext
    <3>1. rcv' = rcv /\ ka' = ka /\ nEvents' = nEvents /\ UNCHANGED req
      BY <2>2 DEF VpnNext, Create, Start, Form, Cookie, NoCookie, NoCstp, Tun, Dismiss, After,
                     Woken, End, Rest
    <3>2. Calls'
      BY <2>0, <2>2, <3>1, LibStep, OutsideStep DEF VpnNext, Outside
    <3> QED BY <2>0, <3>1, <3>2, Whole DEF RunsWhenWanted, KeepaliveInStep, req
  <2>3. CASE Probe
    <3>1. /\ ka' = [ka EXCEPT !.probe = "answered"] /\ ka.probe = "query"
          /\ UNCHANGED <<pc, lib, req>> /\ rcv' = rcv /\ nEvents' = nEvents
      BY <2>3 DEF Probe
    <3>2. ka' \in KeepAlive /\ ka'.probe = "answered"
      BY <2>0, <3>1 DEF KeepAlive
    <3>3. Calls' /\ RunsWhenWanted'
      BY <2>0, <3>1 DEF lib, req, Calls, Typed, LibTypeOK, StopClears, Fresh, CancelNotLost,
                        PauseNotLost, NoLostWakeup, Sent, RunsWhenWanted
    <3> QED BY <2>0, <3>1, <3>2, <3>3, Whole DEF KeepaliveInStep
  <2>4. CASE UNCHANGED vars
    BY <2>4 DEF vars, lib, req, IInv, TypeOK, Calls, Typed, LibTypeOK, StopClears, Fresh,
       CancelNotLost, PauseNotLost, NoLostWakeup, Sent, RunsWhenWanted, KeepaliveInStep
  <2> QED BY <2>1, <2>2, <2>3, <2>4 DEF Next
<1> QED BY InitIInv, <1>1, PTL DEF Spec

\* Every field keeps its type, the kind of network among them: no network is
\* never taken for a kind of network.
THEOREM TypeCorrect == Spec => []TypeOK
BY Inductive, PTL DEF IInv

\* No stop is lost, however many bytes come before and after it.
THEOREM NoStopLost == Spec => []CancelNotLost
BY Inductive, PTL DEF IInv, Calls

\* No pause is lost while it stands.
THEOREM NoPauseLost == Spec => []PauseNotLost
BY Inductive, PTL DEF IInv, Calls

\* The thread never waits for a call that has already been made.
THEOREM Wakes == Spec => []NoLostWakeup
BY Inductive, PTL DEF IInv, Calls

\* A session is held only while its receiver wants it held.
THEOREM HeldAsWanted == Spec => []RunsWhenWanted
BY Inductive, PTL DEF IInv

\* KeepAlive never runs out of alarms, and never leaves the session running.
THEOREM KeepaliveSteps == Spec => []KeepaliveInStep
BY Inductive, PTL DEF IInv

-----------------------------------------------------------------------------
(***************************************************************************)
(* The session implements HeldSession, step by step.                       *)
(***************************************************************************)
Step == [Held!Next]_(Held!vars)

\* Where the thread is tells the phase.
LEMMA PhaseIs ==
    ASSUME pc \in Pc
    PROVE  /\ pc = "wait" <=> Phase = "held"
           /\ pc \in Leaving <=> Phase = "leaving"
           /\ pc = "done" <=> Phase = "over"
           /\ pc \in Loop \cup {"after", "woken"} <=> Phase = "up"
           /\ pc \in {"new", "created", "cookie", "form", "cstp", "tun"} <=> Phase = "coming"
BY DEF Phase, Pc, Alive, InLibrary, Loop, Leaving

\* A step that leaves the thread where it is and the flags as they are.
LEMMA Stutter ==
    ASSUME Phase' = Phase, mRequestPause' = mRequestPause,
           mRequestDisconnect' = mRequestDisconnect
    PROVE  Step
BY DEF Step, Held!vars

LEMMA PauseMaps == Calls /\ Pause => Step
<1> SUFFICES ASSUME Calls, Pause PROVE Step
  OBVIOUS
<1>1. pc' = pc /\ mRequestDisconnect' = mRequestDisconnect /\ Phase' = Phase
  BY DEF Pause, Phase
<1>2. CASE ~mRequestPause /\ ~mRequestDisconnect /\ HasLib
  <2>1. pc \in Pc /\ pc # "done"
    BY <1>2 DEF Calls, Typed, HasLib
  <2>2. Phase # "over"
    BY <2>1, PhaseIs
  <2>3. Held!Hold
    BY <1>1, <1>2, <2>2 DEF Pause, Held!Hold
  <2> QED BY <2>3 DEF Step, Held!Next
<1>3. CASE ~(~mRequestPause /\ ~mRequestDisconnect /\ HasLib)
  BY <1>1, <1>3, Stutter DEF Pause
<1> QED BY <1>2, <1>3

\* notify() wakes a session that is held, and nobody else.
LEMMA NotifyWakes == pc \in Pc /\ Notify => Held!Wakes
<1> SUFFICES ASSUME pc \in Pc, Notify PROVE Held!Wakes
  OBVIOUS
<1>1. CASE pc = "wait"
  <2>1. pc' = "woken" /\ Phase = "held"
    BY <1>1 DEF Notify, Phase, Loop, Leaving
  <2>2. Phase' = "up"
    BY <2>1 DEF Phase, Loop, Leaving
  <2> QED BY <2>1, <2>2 DEF Held!Wakes
<1>2. CASE pc # "wait"
  <2>1. pc' = pc /\ Phase # "held"
    BY <1>2, PhaseIs DEF Notify
  <2> QED BY <2>1 DEF Held!Wakes, Phase
<1> QED BY <1>1, <1>2

LEMMA ResumeMaps == Calls /\ Resume => Step
<1> SUFFICES ASSUME Calls, Resume PROVE Step
  OBVIOUS
<1>1. CASE mRequestPause
  <2>1. mRequestPause' = FALSE /\ mRequestDisconnect' = mRequestDisconnect /\ Notify
    BY <1>1 DEF Resume
  <2>2. Held!Release
    BY <2>1, NotifyWakes DEF Calls, Typed, Held!Release
  <2> QED BY <2>2 DEF Step, Held!Next
<1>2. CASE ~mRequestPause
  BY <1>2, Stutter DEF Resume, Phase
<1> QED BY <1>1, <1>2

LEMMA StopMaps == Calls /\ Stop => Step
<1> SUFFICES ASSUME Calls, Stop PROVE Step
  OBVIOUS
<1>1. Held!Tell
  BY NotifyWakes DEF Calls, Typed, Stop, Held!Tell
<1> QED BY <1>1 DEF Step, Held!Next

LEMMA UpdateMaps ==
    ASSUME Calls, NEW r, UpdatePauseState(r)
    PROVE  Step
<1>1. Pause \/ Resume \/ UNCHANGED <<pc, lib, req>>
  BY DEF UpdatePauseState
<1>2. CASE UNCHANGED <<pc, lib, req>>
  BY <1>2, Stutter DEF req, Phase
<1> QED BY <1>1, <1>2, PauseMaps, ResumeMaps

\* The events of the main thread.
LEMMA MainMaps == Calls /\ MainNext => Step
<1> SUFFICES ASSUME Calls, MainNext PROVE Step
  OBVIOUS
<1>1. CASE Register
  BY <1>1, UpdateMaps DEF Register
<1>2. CASE Network \/ LateNetwork
  <2>1. PICK u : ApplyNetwork(u)
    BY <1>2 DEF Network, LateNetwork
  <2>2. Reconnect \/ \E r : UpdatePauseState(r)
    BY <2>1 DEF ApplyNetwork
  <2>3. CASE Reconnect
    BY <2>3, Stutter DEF Reconnect, req, Phase
  <2> QED BY <2>2, <2>3, UpdateMaps
<1>3. CASE Screen \/ PrefChanged
  BY <1>3, UpdateMaps DEF Screen, PrefChanged
<1>4. CASE RegisterKeepAlive \/ Unregister \/ (Alarm /\ ~ka.on) \/ RequestStats
  BY <1>4, Stutter DEF RegisterKeepAlive, Unregister, Alarm, RequestStats, req, Phase
<1>5. CASE (Alarm /\ ka.on) \/ ProbeDone
  BY <1>5, UpdateMaps DEF Alarm, ProbeDone, SetKeepalive
<1>6. CASE Stop
  BY <1>6, StopMaps
<1> QED BY <1>1, <1>2, <1>3, <1>4, <1>5, <1>6 DEF MainNext

\* What the thread does in the library shows only where it comes up, and where
\* it leaves.
LEMMA LibMaps == Calls /\ LibNext /\ UNCHANGED req => Step
<1> SUFFICES ASSUME Calls, LibNext, UNCHANGED req PROVE Step
  OBVIOUS
<1>1. mRequestPause' = mRequestPause /\ mRequestDisconnect' = mRequestDisconnect
  BY DEF req
<1>2. /\ pc \in Loop \cup {"cookie", "cstp"}
      /\ pc' \in Leaving \/ pc' = pc \/ (pc = "cstp" /\ pc' = "tun")
         \/ (pc \in Loop /\ pc' \in Loop \cup {"after"})
  BY DEF LibNext, WaitSees, Connected, Refused, Tcp, RetrySees, Poll, Awake, Loop, Leaving,
         Failed
<1>3. CASE pc' \in Leaving
  <2>1. Phase' = "leaving"
    BY <1>3 DEF Phase, Loop, Leaving
  <2>2. Phase \in {"coming", "up"}
    BY <1>2, PhaseIs DEF Calls, Typed
  <2>3. Held!Leave
    BY <1>1, <2>1, <2>2 DEF Held!Leave
  <2> QED BY <2>3 DEF Step, Held!Next
<1>4. CASE pc' = pc
  BY <1>1, <1>4, Stutter DEF Phase
<1>5. CASE pc = "cstp" /\ pc' = "tun"
  <2>1. Phase' = Phase
    BY <1>5 DEF Phase, Loop, Leaving
  <2> QED BY <1>1, <2>1, Stutter
<1>6. CASE pc \in Loop /\ pc' \in Loop \cup {"after"}
  <2>1. Phase' = Phase
    BY <1>6 DEF Phase, Loop, Leaving
  <2> QED BY <1>1, <2>1, Stutter
<1> QED BY <1>2, <1>3, <1>4, <1>5, <1>6

\* A wait begins while the pause stands and, since a stop clears it, before any
\* stop; and only notify() ends it.
LEMMA OutsideMaps == Calls /\ Outside => Step
<1> SUFFICES ASSUME Calls, Outside PROVE Step
  OBVIOUS
<1>1. mRequestPause' = mRequestPause /\ mRequestDisconnect' = mRequestDisconnect
  BY DEF Outside, Create, Start, Form, Cookie, NoCookie, NoCstp, Tun, Dismiss, After, Woken,
         End, Rest, req
<1>2. CASE (Start \/ Cookie \/ Tun) /\ pc' \in Leaving
  <2>1. Phase = "coming" /\ Phase' = "leaving"
    BY <1>2 DEF Start, Cookie, Tun, Phase, Loop, Leaving
  <2> QED BY <1>1, <2>1 DEF Step, Held!Next, Held!Leave
<1>3. CASE Tun /\ pc' = "tcp"
  <2>1. Phase = "coming" /\ Phase' = "up"
    BY <1>3 DEF Tun, Phase, Loop, Leaving
  <2> QED BY <1>1, <2>1 DEF Step, Held!Next, Held!ComeUp
<1>4. CASE End \/ (Create /\ pc' = "done")
  <2>1. /\ Phase' = "over"
        /\ Phase = "leaving" \/ (Phase = "coming" /\ mRequestDisconnect)
    BY <1>4 DEF End, Create, Phase, Loop, Leaving
  <2> QED BY <1>1, <2>1 DEF Step, Held!Next, Held!End
<1>5. CASE (After \/ Woken) /\ pc' = "wait"
  <2>1. mRequestPause /\ ~mRequestDisconnect /\ Phase = "up" /\ Phase' = "held"
    BY <1>5 DEF After, Woken, Calls, Typed, StopClears, Phase, Loop, Leaving
  <2> QED BY <1>1, <2>1 DEF Step, Held!Next, Held!Rest
<1>6. CASE \/ (Create /\ pc' = "created") \/ (Start /\ pc' = "cookie") \/ Form
           \/ (Cookie /\ pc' = "cstp") \/ NoCookie \/ NoCstp \/ Dismiss \/ ((After \/ Woken) /\ pc' = "tcp")
  <2>1. Phase' = Phase
    BY <1>6 DEF Create, Start, Form, Cookie, NoCookie, NoCstp, Dismiss, After, Woken, Phase,
                Loop, Leaving
  <2> QED BY <1>1, <2>1, Stutter
<1> QED BY <1>2, <1>3, <1>4, <1>5, <1>6
        DEF Outside, Create, Start, Cookie, Tun, After, Woken, Leaving

\* For any number of events and any length of the pipe the session is one that
\* is held on demand, released by every resume and every stop, and ends once.
THEOREM SessionImplementsHeld == Spec => ImplementsHeld
<1>1. Init => Held!Init
  BY DEF Init, Held!Init, Phase, Loop, Leaving
<1>2. IInv /\ [Next]_vars => Step
  <2> SUFFICES ASSUME IInv, [Next]_vars PROVE Step
    OBVIOUS
  <2>0. Calls
    BY DEF IInv
  <2>1. CASE MainNext
    BY <2>0, <2>1, MainMaps
  <2>2. CASE VpnNext
    <3>1. CASE LibNext /\ UNCHANGED <<req, rcv, ka, nEvents>>
      BY <2>0, <3>1, LibMaps
    <3>2. CASE Outside
      BY <2>0, <3>2, OutsideMaps
    <3> QED BY <2>2, <3>1, <3>2 DEF VpnNext, Outside
  <2>3. CASE Probe \/ UNCHANGED vars
    BY <2>3, Stutter DEF Probe, vars, req, Phase
  <2> QED BY <2>1, <2>2, <2>3 DEF Next
<1> QED BY <1>1, <1>2, Inductive, PTL DEF Spec, Step, ImplementsHeld, Held!Spec
=============================================================================
