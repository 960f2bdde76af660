-------------------------- MODULE WinSessionProofs --------------------------
(***************************************************************************)
(* Proofs that the safety invariants of WinSession hold for any number of  *)
(* profiles, sessions, switches and disconnects.                           *)
(***************************************************************************)
EXTENDS WinSession, TLAPS

\* Slots of sessions not yet spawned are untouched: what ties a session's
\* number to its first step, and makes the new slot of connect() a fresh one.
FreshSlots == \A i \in Sessions : i > nSess => sess[i].pc = "none"

\* A switch under way on the main thread still has its thread to spawn.
SwitchRoom == main.target # None => nSw < MaxSwitches

\* A switch thread still running has a profile to connect to.
SwitchTargets == \A k \in Switches : sw[k].pc \notin {"none", "done"} => sw[k].target \in Profiles

\* In the gap nothing counts as connecting or up, which is what keeps a lookup
\* from writing.
GapIdle == /\ GapHidesExit
           /\ gap = "open" => status.state \notin {"Connecting", "Connected"}

\* What the steps of the main, switch and worker threads preserve by themselves.
SafeInv == /\ TypeOK
        /\ FreshSlots
        /\ SwitchRoom
        /\ SwitchTargets
        /\ ConnectedIsBacked
        /\ ConnectingIsBacked
        /\ GapIdle

\* A session has a profile from its first step, before its geo thread exists.
SpawnedHaveProfile ==
    \A i \in Sessions : sess[i].pc # "none" \/ geo[i].pc # "none" => sess[i].profile \in Profiles

\* Beside a session that began alone only sessions are left that are over, and
\* until a disconnect or a switch is accepted no switch thread.
Solo == alone => nSess \in Sessions /\ \A i \in Sessions : i # nSess => Ended(sess[i].pc)
Quiet == alone /\ gap = "none" =>
             main.pc # "teardown" /\ \A k \in Switches : Ended(sw[k].pc)

\* A command socket exists from set-up to vpninfo_free, CMD_PIPE names one that
\* exists or has just been closed, and an error is on its way to be reported.
SocketInUse == \A i \in Sessions : sess[i].fd => sess[i].pc \in {"setup", "publish", "free"} \cup Up
PipeOwned == \A i \in Sessions : pipe = i => sess[i].fd \/ sess[i].pc = "clear"
ErrOnWayOut == \A i \in Sessions : sess[i].err => sess[i].pc \in Leaving \cup {"failed"}

\* What a session that began alone can rely on.
LoneInv == /\ Solo /\ Quiet
           /\ SocketInUse /\ PipeOwned /\ ErrOnWayOut
           /\ LoneStatusExact
           /\ LonePipeExact

\* The inductive invariant.
IInv == SafeInv /\ SpawnedHaveProfile /\ LoneInv

(***************************************************************************)
(* What the helpers of the worker steps do to the record of a session.     *)
(***************************************************************************)

\* Go moves session i alone, keeps its profile, and forgets its locals only
\* on return.
LEMMA GoEffect ==
    ASSUME TypeOK, NEW i \in Sessions, NEW where \in WorkerPc, Go(i, where)
    PROVE  /\ sess' \in [Sessions -> WorkerRec]
           /\ sess'[i].pc = where
           /\ sess'[i].profile = sess[i].profile
           /\ where # "done" => sess'[i].err = sess[i].err /\ sess'[i].fd = sess[i].fd
           /\ where = "done" => ~sess'[i].err /\ ~sess'[i].fd
           /\ \A j \in Sessions : j # i => sess'[j] = sess[j]
<1>1. CASE where = "done"
  BY <1>1 DEF TypeOK, Go, WorkerRec
<1>2. CASE where # "done"
  BY <1>2 DEF TypeOK, Go, WorkerRec
<1>3. QED
  BY <1>1, <1>2

\* Fail sends session i to the clean-up, marked.
LEMMA FailEffect ==
    ASSUME TypeOK, NEW i \in Sessions, Fail(i)
    PROVE  /\ sess' \in [Sessions -> WorkerRec]
           /\ sess'[i].pc = "free" /\ sess'[i].err
           /\ sess'[i].profile = sess[i].profile /\ sess'[i].fd = sess[i].fd
           /\ \A j \in Sessions : j # i => sess'[j] = sess[j]
BY DEF TypeOK, Fail, WorkerRec, WorkerPc, Leaving

\* setup_cmd_pipe and vpninfo_free move session i and set its socket.
LEMMA SocketEffect ==
    ASSUME TypeOK, NEW i \in Sessions, NEW where \in WorkerPc, NEW b \in BOOLEAN,
           sess' = [sess EXCEPT ![i].pc = where, ![i].fd = b]
    PROVE  /\ sess' \in [Sessions -> WorkerRec]
           /\ sess'[i].pc = where /\ sess'[i].fd = b
           /\ sess'[i].profile = sess[i].profile /\ sess'[i].err = sess[i].err
           /\ \A j \in Sessions : j # i => sess'[j] = sess[j]
BY DEF TypeOK, WorkerRec

\* A worker moves its own session, which is under way, and no other.
LEMMA WorkerEffect ==
    ASSUME TypeOK, NEW i \in Sessions, WorkerNext(i)
    PROVE  /\ ~Ended(sess[i].pc) /\ sess[i].pc # "none"
           /\ sess'[i].profile = sess[i].profile
           /\ \A j \in Sessions : j # i => sess'[j] = sess[j]
           /\ WorkerUnchanged
           /\ gap' = gap \/ (gap = "open" /\ gap' = "broken")
<1>1. {"failed", "pipe", "setup", "publish", "geo", "mainloop", "free", "clear", "end",
       "done"} \subseteq WorkerPc
  BY DEF WorkerPc, Coming, Up, Leaving
<1>2. /\ ~Ended(sess[i].pc) /\ sess[i].pc # "none"
      /\ WorkerUnchanged
      /\ gap' = gap \/ (gap = "open" /\ gap' = "broken")
  BY DEF WorkerNext, Prelude, Body, SetupPipe, SetUp, PublishConnected, SpawnGeo, EndMainloop,
         FreeSession, ClearPipe, EndStatus, ReportError, Ended
<1>3. CASE \E where \in WorkerPc : Go(i, where)
  BY <1>2, <1>3, GoEffect
<1>4. CASE Fail(i)
  BY <1>2, <1>4, FailEffect
<1>5. CASE \E b \in BOOLEAN : \E where \in {"setup", "clear"} :
             sess' = [sess EXCEPT ![i].pc = where, ![i].fd = b]
  BY <1>1, <1>2, <1>5, SocketEffect
<1>6. QED
  BY <1>1, <1>3, <1>4, <1>5
     DEF WorkerNext, Prelude, Body, SetupPipe, SetUp, PublishConnected, SpawnGeo, EndMainloop,
         FreeSession, ClearPipe, EndStatus, ReportError

\* connect() fills the next slot and leaves the sessions before it alone.
LEMMA ConnectEffect ==
    ASSUME TypeOK, NEW p \in Profiles, NEW others, ConnectTo(p, others)
    PROVE  /\ status' \in StatusRec
           /\ status'.state = "Connecting"
           /\ epoch' \in Nat
           /\ nSess' = nSess + 1 /\ nSess' \in 0..MaxSessions /\ nSess' \in Sessions
           /\ sess' \in [Sessions -> WorkerRec]
           /\ sess'[nSess'].pc = "prelude"
           /\ \A j \in Sessions : j # nSess' => sess'[j] = sess[j]
           /\ gap' = "none" /\ alone' \in BOOLEAN
<1>1. /\ nSess + 1 \in Sessions /\ nSess + 1 \in 0..MaxSessions
  BY ConstantsAssumption DEF TypeOK, ConnectTo, Sessions
<1>2. status' \in StatusRec
  BY DEF ConnectTo, StatusRec, ConnState
<1>3. QED
  BY <1>1, <1>2 DEF TypeOK, ConnectTo, WorkerRec, WorkerPc, Coming

\* request_cancel() marks a session and moves none.
LEMMA CancelEffect ==
    ASSUME TypeOK, CancelNamed
    PROVE  /\ sess' \in [Sessions -> WorkerRec]
           /\ \A j \in Sessions : sess'[j].pc = sess[j].pc /\ sess'[j].err = sess[j].err
<1>1. ASSUME NEW j \in Sessions
      PROVE  /\ sess'[j] \in WorkerRec
             /\ sess'[j].pc = sess[j].pc /\ sess'[j].err = sess[j].err
  BY <1>1 DEF TypeOK, CancelNamed, WorkerRec
<1>2. sess' = [j \in Sessions |-> sess'[j]]
  BY DEF CancelNamed
<1>3. QED
  BY <1>1, <1>2

(***************************************************************************)
(* One lemma per group of actions.                                         *)
(***************************************************************************)

\* connect(), from the main thread or from a switch thread.
LEMMA ConnectStep ==
    ASSUME SafeInv, NEW p \in Profiles, NEW others, ConnectTo(p, others), UNCHANGED <<pipe, geo>>
    PROVE  /\ FreshSlots' /\ ConnectedIsBacked' /\ ConnectingIsBacked'
           /\ GapIdle'
<1>1. TypeOK
  BY DEF SafeInv
<1>2. /\ status'.state = "Connecting"
      /\ nSess' = nSess + 1 /\ nSess' \in Sessions
      /\ sess'[nSess'].pc = "prelude"
      /\ \A j \in Sessions : j # nSess' => sess'[j] = sess[j]
      /\ gap' = "none"
  BY <1>1, ConnectEffect
<1>3. nSess \in Nat /\ \A j \in Sessions : j \in Nat
  BY <1>1, ConstantsAssumption DEF TypeOK, Sessions
<1>4. FreshSlots'
  BY <1>2, <1>3 DEF SafeInv, FreshSlots
<1>5. ConnectedIsBacked' /\ GapIdle'
  BY <1>2 DEF ConnectedIsBacked, GapIdle, GapHidesExit
<1>6. ConnectingIsBacked'
  BY <1>2 DEF ConnectingIsBacked, Undecided, Coming
<1>7. QED
  BY <1>4, <1>5, <1>6

\* The main thread: a new session, or a status that claims nothing.
LEMMA MainStep ==
    ASSUME SafeInv, MainNext
    PROVE  SafeInv'
<1> USE DEF SafeInv
<1>1. ASSUME NEW p \in Profiles, Connect(p)
      PROVE  SafeInv'
  <2>1. ConnectTo(p, Switches) /\ UNCHANGED <<pipe, geo>>
    BY <1>1 DEF Connect
  <2>2. TypeOK'
    BY <1>1, <2>1, ConnectEffect DEF TypeOK, Connect
  <2>3. SwitchRoom' /\ SwitchTargets'
    BY <1>1 DEF Connect, SwitchRoom, SwitchTargets
  <2>4. QED
    BY <2>1, <2>2, <2>3, ConnectStep
<1>2. ASSUME NEW p \in Profiles, SwitchIdle(p)
      PROVE  SafeInv'
  BY <1>1, <1>2 DEF SwitchIdle
<1>3. ASSUME NEW p \in Profiles, SwitchCall(p)
      PROVE  SafeInv'
  <2>1. TypeOK'
    BY <1>3 DEF SwitchCall, TypeOK, history
  <2>2. QED
    BY <1>3, <2>1 DEF SwitchCall, FreshSlots, SwitchRoom, SwitchTargets, ConnectedIsBacked,
                      ConnectingIsBacked, Undecided, GapIdle, GapHidesExit, history
<1>4. CASE SwitchLock
  <2>1. TypeOK'
    BY <1>4 DEF SwitchLock, TypeOK, StatusRec, ConnState
  <2>2. FreshSlots' /\ SwitchRoom' /\ SwitchTargets'
    BY <1>4 DEF SwitchLock, FreshSlots, SwitchRoom, SwitchTargets, TypeOK
  <2>3. ConnectedIsBacked' /\ ConnectingIsBacked' /\ GapIdle'
    BY <1>4 DEF SwitchLock, ConnectedIsBacked, ConnectingIsBacked, GapIdle, GapHidesExit, history
  <2>4. QED
    BY <2>1, <2>2, <2>3
<1>5. CASE Disconnect
  <2>1. TypeOK'
    BY <1>5, ConstantsAssumption DEF Disconnect, TypeOK, history
  <2>2. QED
    BY <1>5, <2>1 DEF Disconnect, FreshSlots, SwitchRoom, SwitchTargets, ConnectedIsBacked,
                      ConnectingIsBacked, Undecided, GapIdle, GapHidesExit, history
<1>6. CASE DisconnectLock
  <2>1. FreshSlots' /\ SwitchRoom' /\ SwitchTargets'
    BY <1>6 DEF DisconnectLock, FreshSlots, SwitchRoom, SwitchTargets, TypeOK
  <2>2. CASE UNCHANGED <<status, gap>>
    <3>1. TypeOK'
      BY <1>6, <2>2 DEF DisconnectLock, TypeOK
    <3>2. ConnectedIsBacked' /\ ConnectingIsBacked' /\ GapIdle'
      BY <1>6, <2>2 DEF DisconnectLock, ConnectedIsBacked, ConnectingIsBacked, Undecided,
                        GapIdle, GapHidesExit, history
    <3>3. QED
      BY <2>1, <3>1, <3>2
  <2>3. CASE /\ status' = [status EXCEPT !.state = "Disconnecting", !.exit = None]
             /\ gap' = "open"
    <3>1. status' \in StatusRec /\ status'.state = "Disconnecting" /\ status'.exit = None
      BY <2>3 DEF TypeOK, StatusRec, ConnState
    <3>2. TypeOK'
      BY <1>6, <2>3, <3>1 DEF DisconnectLock, TypeOK
    <3>3. ConnectedIsBacked' /\ ConnectingIsBacked' /\ GapIdle'
      BY <3>1 DEF ConnectedIsBacked, ConnectingIsBacked, GapIdle, GapHidesExit, history
    <3>4. QED
      BY <2>1, <3>2, <3>3
  <2>4. QED
    BY <1>6, <2>2, <2>3 DEF DisconnectLock
<1>7. CASE Teardown
  <2>1. /\ sess' \in [Sessions -> WorkerRec]
        /\ \A j \in Sessions : sess'[j].pc = sess[j].pc /\ sess'[j].err = sess[j].err
    BY <1>7, CancelEffect DEF Teardown
  <2>2. sw' \in [Switches -> SwitchRec] /\ nSw' \in 0..MaxSwitches /\ SwitchTargets'
    <3>1. CASE main.target = None
      BY <1>7, <3>1 DEF Teardown, TypeOK, SwitchTargets
    <3>2. CASE main.target # None
      <4>1. [pc |-> "wait", token |-> gen, target |-> main.target] \in SwitchRec
        BY DEF TypeOK, SwitchRec
      <4>2. sw' \in [Switches -> SwitchRec]
        BY <1>7, <3>2, <4>1 DEF Teardown, TypeOK
      <4>3. nSw' \in 0..MaxSwitches
        BY <1>7, <3>2, ConstantsAssumption DEF Teardown, TypeOK, SwitchRoom
      <4>4. SwitchTargets'
        <5>1. main.target \in Profiles
          BY <3>2 DEF TypeOK
        <5>2. /\ nSw + 1 \in Switches
              /\ sw' = [sw EXCEPT ![nSw + 1] =
                          [pc |-> "wait", token |-> gen, target |-> main.target]]
          BY <1>7, <3>2, <4>3, ConstantsAssumption DEF Teardown, TypeOK, Switches
        <5>3. QED
          BY <5>1, <5>2 DEF TypeOK, SwitchTargets
      <4>5. QED
        BY <4>2, <4>3, <4>4
    <3>3. QED
      BY <3>1, <3>2
  <2>3. TypeOK'
    BY <1>7, <2>1, <2>2 DEF Teardown, TypeOK, history
  <2>4. FreshSlots' /\ SwitchRoom'
    BY <1>7, <2>1 DEF Teardown, FreshSlots, SwitchRoom
  <2>5. ConnectedIsBacked' /\ ConnectingIsBacked' /\ GapIdle'
    BY <1>7, <2>1 DEF Teardown, ConnectedIsBacked, ConnectingIsBacked, Undecided,
                      GapIdle, GapHidesExit, history
  <2>6. QED
    BY <2>2, <2>3, <2>4, <2>5
<1>8. QED
  BY <1>1, <1>2, <1>3, <1>4, <1>5, <1>6, <1>7 DEF MainNext

\* A switch thread: a new session, or an Error status.
LEMMA SwitchStep ==
    ASSUME SafeInv, NEW k \in Switches, SwitchNext(k)
    PROVE  SafeInv'
<1> USE DEF SafeInv
<1>1. ASSUME NEW where \in {"settle", "go", "refused", "done"}, SwPc(k, where)
      PROVE  sw' \in [Switches -> SwitchRec] /\ SwitchTargets'
  <2>0. sw[k].pc \notin {"none", "done"}
    BY DEF SwitchNext, WaitIdle, Recheck, SwitchConnect, SwitchRefused
  <2>1. CASE where = "done"
    BY <1>1, <2>1 DEF TypeOK, SwPc, SwitchRec, SwitchTargets
  <2>2. CASE where # "done"
    BY <1>1, <2>0, <2>2 DEF TypeOK, SwPc, SwitchRec, SwitchTargets
  <2>3. QED
    BY <2>1, <2>2
<1>2. SwitchUnchanged
  BY DEF SwitchNext, WaitIdle, Recheck, SwitchConnect, SwitchRefused
<1>3. SwitchRoom'
  BY <1>2 DEF SwitchUnchanged, SwitchRoom
<1>4. CASE WaitIdle(k) \/ Recheck(k)
  <2>1. sw' \in [Switches -> SwitchRec] /\ SwitchTargets'
    BY <1>1, <1>4 DEF WaitIdle, Recheck
  <2>2. UNCHANGED <<status, epoch, sess, nSess, history>>
    BY <1>4 DEF WaitIdle, Recheck
  <2>3. TypeOK'
    BY <1>2, <2>1, <2>2 DEF SwitchUnchanged, TypeOK, history
  <2>4. QED
    BY <1>2, <1>3, <2>1, <2>2, <2>3
       DEF SwitchUnchanged, FreshSlots, ConnectedIsBacked, ConnectingIsBacked,
           Undecided, GapIdle, GapHidesExit, history
<1>5. CASE SwitchConnect(k)
  <2>1. sw' \in [Switches -> SwitchRec] /\ SwitchTargets'
    BY <1>1, <1>5 DEF SwitchConnect
  <2>2. CASE UNCHANGED <<status, epoch, sess, nSess, history>>
    <3>1. TypeOK'
      BY <1>2, <2>1, <2>2 DEF SwitchUnchanged, TypeOK, history
    <3>2. QED
      BY <1>2, <1>3, <2>1, <2>2, <3>1
         DEF SwitchUnchanged, FreshSlots, ConnectedIsBacked, ConnectingIsBacked,
             Undecided, GapIdle, GapHidesExit, history
  <2>3. CASE sw[k].target \in Profiles /\ ConnectTo(sw[k].target, Switches \ {k})
    <3>1. UNCHANGED <<pipe, geo>>
      BY <1>2 DEF SwitchUnchanged
    <3>2. TypeOK'
      BY <1>2, <2>1, <2>3, ConnectEffect DEF SwitchUnchanged, TypeOK
    <3>3. QED
      BY <1>3, <2>1, <2>3, <3>1, <3>2, ConnectStep
  <2>4. QED
    BY <1>5, <2>2, <2>3 DEF SwitchConnect, SwitchTargets
<1>6. CASE SwitchRefused(k)
  <2>1. sw' \in [Switches -> SwitchRec] /\ SwitchTargets'
    BY <1>1, <1>6 DEF SwitchRefused
  <2>2. /\ status' \in StatusRec /\ status'.state = "Error"
        /\ status'.exit = status.exit
    BY <1>6 DEF SwitchRefused, TypeOK, StatusRec, ConnState
  <2>3. TypeOK'
    BY <1>2, <1>6, <2>1, <2>2 DEF SwitchRefused, SwitchUnchanged, TypeOK, history
  <2>4. QED
    BY <1>2, <1>3, <1>6, <2>1, <2>2, <2>3
       DEF SwitchRefused, SwitchUnchanged, FreshSlots, ConnectedIsBacked,
           ConnectingIsBacked, GapIdle, GapHidesExit, history
<1>7. QED
  BY <1>4, <1>5, <1>6 DEF SwitchNext

\* A worker thread.
LEMMA WorkerStep ==
    ASSUME SafeInv, NEW i \in Sessions, WorkerNext(i)
    PROVE  SafeInv'
<1> USE DEF SafeInv
<1>1. WorkerUnchanged
  BY WorkerEffect
<1>2. sess[i].pc # "none"
  BY WorkerEffect
<1>3. SwitchRoom' /\ SwitchTargets'
  BY <1>1 DEF WorkerUnchanged, SwitchRoom, SwitchTargets
\* What every worker step has in common, from the effect of Go or Fail.
<1>4. ASSUME sess' \in [Sessions -> WorkerRec],
             \A j \in Sessions : j # i => sess'[j] = sess[j]
      PROVE  FreshSlots'
  <2>1. ~(i > nSess)
    BY <1>2 DEF FreshSlots
  <2>2. QED
    BY <1>1, <1>4, <2>1 DEF WorkerUnchanged, FreshSlots
<1>5. ASSUME sess' \in [Sessions -> WorkerRec], status' \in StatusRec,
             pipe' \in Sessions \cup {None},
             geo' \in [Sessions -> GeoRec], gap' \in {"none", "open", "broken"}
      PROVE  TypeOK'
  BY <1>1, <1>5 DEF WorkerUnchanged, TypeOK
<1>6. {"failed", "pipe", "setup", "publish", "geo", "mainloop", "free", "clear",
       "end", "done"} \subseteq WorkerPc
  BY DEF WorkerPc, Coming, Up, Leaving
<1> HIDE DEF SafeInv
<1>7. TypeOK /\ FreshSlots /\ ConnectedIsBacked /\ ConnectingIsBacked
      /\ GapIdle
  BY DEF SafeInv
\* A step inside the part of a session that has not reported Connected.
<1>8. CASE Prelude(i) \/ Body(i)
  <2>1. /\ sess' \in [Sessions -> WorkerRec]
        /\ \A j \in Sessions : j # i => sess'[j] = sess[j]
        /\ Undecided(i)'
    <3>1. CASE Go(i, "failed")
      BY <1>6, <1>7, <3>1, GoEffect DEF Undecided
    <3>2. CASE Go(i, "pipe")
      BY <1>6, <1>7, <3>2, GoEffect DEF Undecided, Coming
    <3>3. CASE Fail(i)
      BY <1>7, <3>3, FailEffect DEF Undecided, Leaving
    <3>4. QED
      BY <1>8, <3>1, <3>2, <3>3 DEF Prelude, Body
  <2>2. UNCHANGED <<status, pipe, geo, gap>> /\ sess[i].pc = "prelude"
    BY <1>8 DEF Prelude, Body
  <2>3. TypeOK' /\ FreshSlots'
    BY <1>4, <1>5, <1>7, <2>1, <2>2 DEF TypeOK
  <2>4. ConnectedIsBacked'
    BY <1>7, <2>1, <2>2 DEF ConnectedIsBacked, Up, Leaving
  <2>5. ConnectingIsBacked'
    BY <1>7, <2>1, <2>2 DEF ConnectingIsBacked, Undecided
  <2>6. GapIdle'
    BY <1>7, <2>2 DEF GapIdle, GapHidesExit
  <2>8. QED
    BY <1>3, <2>3, <2>4, <2>5, <2>6 DEF SafeInv
<1>9. CASE SetupPipe(i)
  <2>1. /\ sess' \in [Sessions -> WorkerRec] /\ sess'[i].pc = "setup"
        /\ \A j \in Sessions : j # i => sess'[j] = sess[j]
    BY <1>6, <1>7, <1>9, SocketEffect DEF SetupPipe
  <2>2. /\ UNCHANGED <<status, geo, gap>> /\ pipe' \in {i, None}
        /\ sess[i].pc = "pipe"
    BY <1>9 DEF SetupPipe
  <2>3. TypeOK' /\ FreshSlots'
    BY <1>4, <1>5, <1>7, <2>1, <2>2 DEF TypeOK
  <2>4. ConnectedIsBacked'
    BY <1>7, <2>1, <2>2 DEF ConnectedIsBacked, Up, Leaving
  <2>5. ConnectingIsBacked'
    BY <1>7, <2>1, <2>2 DEF ConnectingIsBacked, Undecided, Coming
  <2>6. GapIdle'
    BY <1>7, <2>2 DEF GapIdle, GapHidesExit
  <2>8. QED
    BY <1>3, <2>3, <2>4, <2>5, <2>6 DEF SafeInv
<1>10. CASE SetUp(i)
  <2>1. /\ sess' \in [Sessions -> WorkerRec]
        /\ sess'[i].pc \in {"publish", "free"}
        /\ \A j \in Sessions : j # i => sess'[j] = sess[j]
        /\ Undecided(i)'
    <3>1. CASE Go(i, "publish")
      BY <1>6, <1>7, <3>1, GoEffect DEF Undecided, Coming
    <3>2. CASE Fail(i)
      BY <1>7, <3>2, FailEffect DEF Undecided, Leaving
    <3>3. QED
      BY <1>10, <3>1, <3>2 DEF SetUp
  <2>2. UNCHANGED <<status, pipe, geo, gap>> /\ sess[i].pc = "setup"
    BY <1>10 DEF SetUp
  <2>3. TypeOK' /\ FreshSlots'
    BY <1>4, <1>5, <1>7, <2>1, <2>2 DEF TypeOK
  <2>4. ConnectedIsBacked'
    BY <1>7, <2>1, <2>2 DEF ConnectedIsBacked, Up, Leaving
  <2>5. ConnectingIsBacked'
    BY <1>7, <2>1, <2>2 DEF ConnectingIsBacked, Undecided
  <2>6. GapIdle'
    BY <1>7, <2>2 DEF GapIdle, GapHidesExit
  <2>8. QED
    BY <1>3, <2>3, <2>4, <2>5, <2>6 DEF SafeInv
<1>11. CASE PublishConnected(i)
  <2>1. /\ sess' \in [Sessions -> WorkerRec] /\ sess'[i].pc = "geo"
        /\ \A j \in Sessions : j # i => sess'[j] = sess[j]
    BY <1>6, <1>7, <1>11, GoEffect DEF PublishConnected
  <2>2. UNCHANGED <<pipe, geo>> /\ sess[i].pc = "publish"
    BY <1>11 DEF PublishConnected
  <2>3. /\ status' \in StatusRec /\ status'.state = "Connected"
        /\ gap' \in {"none", "broken"}
    BY <1>7, <1>11 DEF PublishConnected, TypeOK, StatusRec, ConnState, WorkerRec
  <2>4. TypeOK' /\ FreshSlots'
    BY <1>4, <1>5, <1>7, <2>1, <2>2, <2>3 DEF TypeOK
  <2>5. ConnectedIsBacked'
    BY <2>1 DEF ConnectedIsBacked, Up
  <2>6. ConnectingIsBacked' /\ GapIdle'
    BY <2>3 DEF ConnectingIsBacked, GapIdle, GapHidesExit
  <2>8. QED
    BY <1>3, <2>4, <2>5, <2>6 DEF SafeInv
\* From here on the session counts for Connected until EndStatus.
<1>12. CASE SpawnGeo(i) \/ EndMainloop(i)
  <2>1. /\ sess' \in [Sessions -> WorkerRec]
        /\ sess'[i].pc \in {"mainloop", "free"}
        /\ \A j \in Sessions : j # i => sess'[j] = sess[j]
    BY <1>6, <1>7, <1>12, GoEffect DEF SpawnGeo, EndMainloop
  <2>2. UNCHANGED <<status, pipe, gap>> /\ sess[i].pc \in {"geo", "mainloop"}
    BY <1>7, <1>12 DEF SpawnGeo, EndMainloop, TypeOK
  <2>3. geo' \in [Sessions -> GeoRec]
    <3>1. [pc |-> "guard", epoch |-> epoch] \in GeoRec
      BY <1>7 DEF TypeOK, GeoRec
    <3>2. QED
      BY <1>7, <1>12, <3>1 DEF SpawnGeo, EndMainloop, TypeOK
  <2>4. TypeOK' /\ FreshSlots'
    BY <1>4, <1>5, <1>7, <2>1, <2>2, <2>3 DEF TypeOK
  <2>5. ConnectedIsBacked'
    BY <1>7, <2>1, <2>2 DEF ConnectedIsBacked, Up, Leaving
  <2>6. ConnectingIsBacked'
    BY <1>7, <2>1, <2>2 DEF ConnectingIsBacked, Undecided, Coming, Leaving
  <2>7. GapIdle'
    BY <1>7, <2>1, <2>2 DEF GapIdle, GapHidesExit, Up
  <2>8. QED
    BY <1>3, <2>4, <2>5, <2>6, <2>7 DEF SafeInv
<1>13. CASE FreeSession(i) \/ ClearPipe(i)
  <2>1. /\ sess' \in [Sessions -> WorkerRec]
        /\ \/ sess[i].pc = "free" /\ sess'[i].pc = "clear" /\ pipe' = pipe
           \/ sess[i].pc = "clear" /\ sess'[i].pc = "end" /\ pipe' = None
        /\ sess'[i].err = sess[i].err
        /\ \A j \in Sessions : j # i => sess'[j] = sess[j]
    BY <1>6, <1>7, <1>13, GoEffect, SocketEffect DEF FreeSession, ClearPipe
  <2>2. UNCHANGED <<status, geo, gap>>
    BY <1>13 DEF FreeSession, ClearPipe
  <2>3. TypeOK' /\ FreshSlots'
    BY <1>4, <1>5, <1>7, <2>1, <2>2 DEF TypeOK
  <2>4. ConnectedIsBacked'
    BY <1>7, <2>1, <2>2 DEF ConnectedIsBacked, Up, Leaving
  <2>5. ConnectingIsBacked'
    BY <1>7, <2>1, <2>2 DEF ConnectingIsBacked, Undecided, Coming, Leaving
  <2>6. GapIdle'
    BY <1>7, <2>2 DEF GapIdle, GapHidesExit
  <2>8. QED
    BY <1>3, <2>3, <2>4, <2>5, <2>6 DEF SafeInv
<1>14. CASE EndStatus(i)
  <2>1. /\ sess' \in [Sessions -> WorkerRec]
        /\ sess'[i].pc = IF sess[i].err THEN "failed" ELSE "done"
        /\ \A j \in Sessions : j # i => sess'[j] = sess[j]
    BY <1>6, <1>7, <1>14, GoEffect DEF EndStatus
  <2>2. UNCHANGED <<pipe, geo, gap>> /\ sess[i].pc = "end"
    BY <1>14 DEF EndStatus
  <2>3. \/ status' = status /\ status.state \in {"Error", "Connecting"}
        \/ status' = Default
    BY <1>14 DEF EndStatus
  <2>4. status' \in StatusRec
    BY <1>7, <2>3 DEF TypeOK, Default, StatusRec, ConnState
  <2>5. TypeOK' /\ FreshSlots'
    BY <1>4, <1>5, <1>7, <2>1, <2>2, <2>4 DEF TypeOK
  <2>6. ConnectedIsBacked' /\ GapIdle'
    BY <1>7, <2>2, <2>3 DEF ConnectedIsBacked, GapIdle, GapHidesExit, Default
  <2>7. ConnectingIsBacked'
    BY <1>7, <2>1, <2>2, <2>3 DEF ConnectingIsBacked, Undecided, Coming, Leaving, Default
  <2>9. QED
    BY <1>3, <2>5, <2>6, <2>7 DEF SafeInv
<1>15. CASE ReportError(i)
  <2>1. /\ sess' \in [Sessions -> WorkerRec]
        /\ \A j \in Sessions : j # i => sess'[j] = sess[j]
    BY <1>6, <1>7, <1>15, GoEffect DEF ReportError
  <2>2. UNCHANGED <<pipe, geo, gap>> /\ sess[i].pc = "failed"
    BY <1>15 DEF ReportError
  <2>3. /\ status' \in StatusRec
        /\ status'.exit = status.exit
        /\ \/ status'.state = "Error"
           \/ status' = status /\ status.state \notin {"Connecting", "Connected"}
    BY <1>7, <1>15 DEF ReportError, TypeOK, StatusRec, ConnState
  <2>4. TypeOK' /\ FreshSlots'
    BY <1>4, <1>5, <1>7, <2>1, <2>2, <2>3 DEF TypeOK
  <2>5. ConnectedIsBacked' /\ ConnectingIsBacked' /\ GapIdle'
    BY <1>7, <2>2, <2>3 DEF ConnectedIsBacked, ConnectingIsBacked, GapIdle, GapHidesExit
  <2>7. QED
    BY <1>3, <2>4, <2>5 DEF SafeInv
<1>16. QED
  BY <1>8, <1>9, <1>10, <1>11, <1>12, <1>13, <1>14, <1>15 DEF WorkerNext

\* A geo lookup thread: at most the exit address changes, and only to the
\* profile's own while Connected.
LEMMA GeoStep ==
    ASSUME IInv, NEW i \in Sessions, GeoNext(i)
    PROVE  SafeInv'
<1>1. TypeOK /\ SafeInv /\ geo[i].pc # "none" /\ GeoUnchanged
  BY DEF IInv, SafeInv, GeoNext, GeoGuard, GeoCheck, GeoWrite
<1>2. geo' \in [Sessions -> GeoRec]
  <2>1. ASSUME NEW where \in {"guard", "check", "write", "done"}, GeoPc(i, where)
        PROVE  geo' \in [Sessions -> GeoRec]
    BY <1>1, <2>1 DEF TypeOK, GeoPc, GeoRec
  <2>2. QED
    BY <2>1 DEF GeoNext, GeoGuard, GeoCheck, GeoWrite
<1>3. status' \in StatusRec
      /\ (status' = status \/ (status.state = "Connected" /\ status'.state = "Connected"))
  <2>1. CASE UNCHANGED status
    BY <1>1, <2>1 DEF TypeOK
  <2>2. CASE GeoWrite(i) /\ status' # status
    <3>1. sess[i].profile \in Profiles
      BY <1>1 DEF IInv, SpawnedHaveProfile
    <3>2. status.state = "Connected"
          /\ status' = [status EXCEPT !.exit = sess[i].profile]
      BY <2>2 DEF GeoWrite, MayWriteExit
    <3>3. QED
      BY <1>1, <3>1, <3>2 DEF TypeOK, StatusRec, ConnState
  <2>3. QED
    BY <2>1, <2>2 DEF GeoNext, GeoGuard, GeoCheck
<1>4. TypeOK'
  BY <1>1, <1>2, <1>3 DEF GeoUnchanged, TypeOK, history
<1>5. FreshSlots' /\ SwitchRoom' /\ SwitchTargets'
  BY <1>1 DEF GeoUnchanged, SafeInv, FreshSlots, SwitchRoom, SwitchTargets
<1>6. ConnectedIsBacked' /\ ConnectingIsBacked' /\ GapIdle'
  BY <1>1, <1>3 DEF GeoUnchanged, SafeInv, ConnectedIsBacked, ConnectingIsBacked, Undecided,
                    GapIdle, GapHidesExit, history
<1>7. QED
  BY <1>4, <1>5, <1>6 DEF SafeInv

(***************************************************************************)
(* Profiles of sessions, for every action at once.                         *)
(***************************************************************************)

\* A step spawns a session with its profile, or moves sessions already
\* spawned and leaves every profile as it is.
LEMMA ProfileStep ==
    ASSUME TypeOK, SwitchTargets, SpawnedHaveProfile, [Next]_vars
    PROVE  SpawnedHaveProfile'
<1>1. ASSUME NEW p \in Profiles, NEW others, ConnectTo(p, others), UNCHANGED geo
      PROVE  SpawnedHaveProfile'
  <2>1. nSess + 1 \in Sessions
        /\ sess' = [sess EXCEPT ![nSess + 1] =
                      [pc |-> "prelude", profile |-> p, err |-> FALSE, fd |-> FALSE,
                       cancel |-> FALSE]]
    BY <1>1, ConstantsAssumption DEF ConnectTo, TypeOK, Sessions
  <2>2. QED
    BY <1>1, <2>1 DEF SpawnedHaveProfile, TypeOK
<1>2. ASSUME UNCHANGED <<sess, geo>>
      PROVE  SpawnedHaveProfile'
  BY <1>2 DEF SpawnedHaveProfile
<1>3. CASE MainNext
  <2>1. CASE Teardown
    <3>1. \A j \in Sessions : sess'[j].pc = sess[j].pc /\ sess'[j].profile = sess[j].profile
      BY <2>1 DEF Teardown, CancelNamed, TypeOK, WorkerRec
    <3>2. QED
      BY <2>1, <3>1 DEF Teardown, SpawnedHaveProfile
  <2>2. CASE SwitchLock \/ Disconnect \/ DisconnectLock
    BY <1>2, <2>2 DEF SwitchLock, Disconnect, DisconnectLock
  <2>3. ASSUME NEW p \in Profiles, Connect(p) \/ SwitchIdle(p) \/ SwitchCall(p)
        PROVE  SpawnedHaveProfile'
    BY <1>1, <1>2, <2>3 DEF Connect, SwitchIdle, SwitchCall
  <2>4. QED
    BY <1>3, <2>1, <2>2, <2>3 DEF MainNext
<1>4. ASSUME NEW k \in Switches, SwitchNext(k)
      PROVE  SpawnedHaveProfile'
  <2>1. UNCHANGED geo
    BY <1>4 DEF SwitchNext, WaitIdle, Recheck, SwitchConnect, SwitchRefused, SwitchUnchanged
  <2>2. CASE UNCHANGED sess
    BY <1>2, <2>1, <2>2
  <2>3. CASE sw[k].target \in Profiles /\ ConnectTo(sw[k].target, Switches \ {k})
    BY <1>1, <2>1, <2>3
  <2>4. QED
    BY <1>4, <2>2, <2>3
       DEF SwitchNext, WaitIdle, Recheck, SwitchConnect, SwitchRefused, SwitchTargets
<1>5. ASSUME NEW i \in Sessions, WorkerNext(i)
      PROVE  SpawnedHaveProfile'
  <2>1. sess[i].pc # "none"
    BY <1>5, WorkerEffect
  <2>2. \A j \in Sessions : /\ sess'[j].profile = sess[j].profile
                            /\ j # i => sess'[j] = sess[j]
    BY <1>5, WorkerEffect
  <2>3. \A j \in Sessions : j # i => geo'[j] = geo[j]
    BY <1>5 DEF WorkerNext, Prelude, Body, SetupPipe, SetUp, PublishConnected, SpawnGeo,
                EndMainloop, FreeSession, ClearPipe, EndStatus, ReportError, TypeOK
  <2>4. QED
    BY <2>1, <2>2, <2>3 DEF SpawnedHaveProfile
<1>6. ASSUME NEW i \in Sessions, GeoNext(i)
      PROVE  SpawnedHaveProfile'
  <2>1. UNCHANGED sess /\ geo[i].pc # "none"
    BY <1>6 DEF GeoNext, GeoGuard, GeoCheck, GeoWrite, GeoUnchanged
  <2>2. \A j \in Sessions : j # i => geo'[j] = geo[j]
    BY <1>6 DEF GeoNext, GeoGuard, GeoCheck, GeoWrite, GeoPc, TypeOK
  <2>3. QED
    BY <2>1, <2>2 DEF SpawnedHaveProfile
<1>7. CASE UNCHANGED vars
  BY <1>2, <1>7 DEF vars
<1>8. QED
  BY <1>3, <1>4, <1>5, <1>6, <1>7 DEF Next

(***************************************************************************)
(* Sessions that began alone.                                              *)
(***************************************************************************)

\* connect() begins a session, alone or not: before it CMD_PIPE is empty when
\* every other session is over.
LEMMA LoneConnect ==
    ASSUME IInv, NEW p \in Profiles, NEW others, ConnectTo(p, others), UNCHANGED pipe
    PROVE  Quiet' => LoneInv'
<1>0. TypeOK /\ FreshSlots /\ LoneInv
  BY DEF IInv, SafeInv
<1>1. /\ nSess' = nSess + 1 /\ nSess' \in Sessions /\ nSess \in Nat
      /\ \A j \in Sessions : j # nSess' => sess'[j] = sess[j]
      /\ sess'[nSess'] = [pc |-> "prelude", profile |-> p, err |-> FALSE, fd |-> FALSE,
                          cancel |-> FALSE]
      /\ sess[nSess'].pc = "none"
  <2>1. /\ nSess' = nSess + 1 /\ nSess' \in Sessions
        /\ \A j \in Sessions : j # nSess' => sess'[j] = sess[j]
    BY <1>0, ConnectEffect
  <2>2. nSess \in Nat
    BY <1>0, ConstantsAssumption DEF TypeOK
  <2>3. sess[nSess'].pc = "none"
    BY <1>0, <2>1, <2>2 DEF FreshSlots, Sessions
  <2>4. QED
    BY <1>0, <2>1, <2>2, <2>3 DEF ConnectTo, TypeOK
<1>2. alone' => \A i \in Sessions : Ended(sess[i].pc)
  BY DEF ConnectTo
<1>3. Solo'
  BY <1>1, <1>2 DEF Solo
<1>4. SocketInUse' /\ ErrOnWayOut'
  BY <1>0, <1>1 DEF LoneInv, SocketInUse, ErrOnWayOut
<1>5. pipe # nSess'
  BY <1>0, <1>1 DEF LoneInv, PipeOwned, SocketInUse, Up
<1>6. PipeOwned'
  BY <1>0, <1>1, <1>5 DEF LoneInv, PipeOwned
<1>7. LoneStatusExact'
  <2>1. status' = [state |-> "Connecting", active |-> p,
                   exit |-> IF p \in CachedExit THEN p ELSE None]
    BY DEF ConnectTo
  <2>2. QED
    BY <1>1, <2>1 DEF LoneStatusExact, Up, Leaving
<1>8. LonePipeExact'
  <2>1. alone' => pipe = None
    <3>1. ASSUME alone', NEW i \in Sessions
          PROVE  pipe # i
      BY <1>0, <1>2, <3>1 DEF LoneInv, PipeOwned, SocketInUse, Up, Ended
    <3>2. QED
      BY <1>0, <3>1 DEF TypeOK
  <2>2. QED
    BY <1>1, <2>1 DEF LonePipeExact
<1>9. QED
  BY <1>3, <1>4, <1>6, <1>7, <1>8 DEF LoneInv

\* The main thread: a session begun alone, or a session that stays as it is
\* while a switch or a disconnect gets under way.
LEMMA LoneMain ==
    ASSUME IInv, MainNext
    PROVE  LoneInv'
<1>0. TypeOK /\ LoneInv
  BY DEF IInv, SafeInv
<1>1. ASSUME NEW p \in Profiles, Connect(p)
      PROVE  LoneInv'
  <2>1. ConnectTo(p, Switches) /\ UNCHANGED <<pipe, main, sw>>
    BY <1>1 DEF Connect
  <2>2. Quiet'
    BY <2>1 DEF ConnectTo, Quiet
  <2>3. QED
    BY <2>1, <2>2, LoneConnect
<1>2. ASSUME UNCHANGED <<sess, pipe, nSess, alone>>
      PROVE  Solo' /\ SocketInUse' /\ PipeOwned' /\ ErrOnWayOut' /\ LonePipeExact'
  BY <1>0, <1>2 DEF LoneInv, Solo, SocketInUse, PipeOwned, ErrOnWayOut, LonePipeExact
<1>3. ASSUME UNCHANGED <<sess, pipe, nSess, status, sw, gap, alone>>, main'.pc # "teardown"
      PROVE  LoneInv'
  <2>1. Quiet' /\ LoneStatusExact'
    BY <1>0, <1>3 DEF LoneInv, Quiet, LoneStatusExact
  <2>2. QED
    BY <1>2, <1>3, <2>1 DEF LoneInv
<1>4. ASSUME UNCHANGED <<sess, pipe, nSess, alone>>, gap' = "open"
      PROVE  LoneInv'
  <2>1. Quiet' /\ LoneStatusExact'
    BY <1>4 DEF Quiet, LoneStatusExact
  <2>2. QED
    BY <1>2, <1>4, <2>1 DEF LoneInv
<1>5. ASSUME NEW p \in Profiles, SwitchCall(p)
      PROVE  LoneInv'
  BY <1>3, <1>5 DEF SwitchCall, history
<1>6. CASE Disconnect
  BY <1>3, <1>6 DEF Disconnect, history
<1>7. CASE SwitchLock
  BY <1>4, <1>7 DEF SwitchLock
<1>8. CASE DisconnectLock
  <2>1. CASE gap' = "open"
    BY <1>4, <1>8, <2>1 DEF DisconnectLock
  <2>2. CASE UNCHANGED <<status, gap>> /\ main' = [main EXCEPT !.pc = "ready"]
    <3>1. main'.pc = "ready"
      BY <1>0, <2>2 DEF TypeOK
    <3>2. QED
      BY <1>3, <1>8, <2>2, <3>1 DEF DisconnectLock
  <2>3. QED
    BY <1>8, <2>1, <2>2 DEF DisconnectLock
<1>9. CASE Teardown
  <2>1. \A j \in Sessions : /\ sess'[j].pc = sess[j].pc /\ sess'[j].err = sess[j].err
                            /\ sess'[j].fd = sess[j].fd
    BY <1>0, <1>9 DEF Teardown, CancelNamed, TypeOK, WorkerRec
  <2>2. UNCHANGED <<pipe, nSess, gap, alone>> /\ main.pc = "teardown"
    BY <1>9 DEF Teardown, history
  <2>3. Quiet' /\ LoneStatusExact'
    BY <1>0, <2>2 DEF LoneInv, Quiet, LoneStatusExact
  <2>4. Solo' /\ SocketInUse' /\ PipeOwned' /\ ErrOnWayOut'
    BY <1>0, <2>1, <2>2 DEF LoneInv, Solo, SocketInUse, PipeOwned, ErrOnWayOut
  <2>5. LonePipeExact'
    BY <1>0, <2>1, <2>2 DEF LoneInv, Solo, LonePipeExact
  <2>6. QED
    BY <2>3, <2>4, <2>5 DEF LoneInv
<1>10. QED
  BY <1>1, <1>5, <1>6, <1>7, <1>8, <1>9 DEF MainNext, SwitchIdle

\* A switch thread: it begins a session alone when it is the last one, and
\* stands beside none that began alone unless a switch has been accepted since.
LEMMA LoneSwitch ==
    ASSUME IInv, NEW k \in Switches, SwitchNext(k)
    PROVE  LoneInv'
<1>0. TypeOK /\ LoneInv /\ SwitchTargets
  BY DEF IInv, SafeInv
<1>1. ~Ended(sw[k].pc) /\ UNCHANGED <<pipe, main>>
  BY DEF SwitchNext, WaitIdle, Recheck, SwitchConnect, SwitchRefused, SwitchUnchanged, Ended
<1>2. CASE UNCHANGED <<sess, nSess, history>>
  <2>1. ~(alone /\ gap = "none")
    BY <1>0, <1>1 DEF LoneInv, Quiet
  <2>2. Quiet' /\ LoneStatusExact'
    BY <1>2, <2>1 DEF Quiet, LoneStatusExact, history
  <2>3. QED
    BY <1>0, <1>1, <1>2, <2>2
       DEF LoneInv, Solo, SocketInUse, PipeOwned, ErrOnWayOut, LonePipeExact, history
<1>3. CASE /\ sw[k].target \in Profiles /\ SwPc(k, "done")
           /\ ConnectTo(sw[k].target, Switches \ {k})
  <2>1. \A m \in Switches : m # k => sw'[m] = sw[m]
    BY <1>0, <1>3 DEF SwPc, TypeOK
  <2>2. sw'[k].pc = "done"
    BY <1>0, <1>3 DEF SwPc, TypeOK
  <2>3. Quiet'
    BY <1>1, <1>3, <2>1, <2>2 DEF ConnectTo, Quiet, Ended
  <2>4. QED
    BY <1>1, <1>3, <2>3, LoneConnect
<1>4. QED
  BY <1>0, <1>2, <1>3
     DEF SwitchNext, WaitIdle, Recheck, SwitchConnect, SwitchRefused, SwitchTargets, Ended

\* A worker: beside a session that began alone it can only be that session's.
LEMMA LoneWorker ==
    ASSUME IInv, NEW i \in Sessions, WorkerNext(i)
    PROVE  LoneInv'
<1>0. TypeOK /\ LoneInv
  BY DEF IInv, SafeInv
<1>1. /\ ~Ended(sess[i].pc)
      /\ sess'[i].profile = sess[i].profile
      /\ \A j \in Sessions : j # i => sess'[j] = sess[j]
      /\ UNCHANGED <<main, nSess, sw, alone>>
      /\ gap' = "none" => gap = "none"
  BY <1>0, WorkerEffect DEF WorkerUnchanged
<1>2. alone => i = nSess /\ nSess \in Sessions
  BY <1>0, <1>1 DEF LoneInv, Solo
<1>3. Solo' /\ Quiet'
  BY <1>0, <1>1, <1>2 DEF LoneInv, Solo, Quiet
\* It is enough to look at the session itself.
<1>4. ASSUME sess'[i].fd => sess'[i].pc \in {"setup", "publish", "free"} \cup Up,
             sess'[i].err => sess'[i].pc \in Leaving \cup {"failed"},
             pipe' \in {pipe, i, None},
             pipe' = i => sess'[i].fd \/ sess'[i].pc = "clear"
      PROVE  SocketInUse' /\ ErrOnWayOut' /\ PipeOwned'
  <2>1. i # None
    BY ConstantsAssumption DEF Sessions
  <2>2. \A j \in Sessions : j # None
    BY ConstantsAssumption DEF Sessions
  <2>3. QED
    BY <1>0, <1>1, <1>4, <2>1, <2>2 DEF LoneInv, SocketInUse, ErrOnWayOut, PipeOwned
<1>5. {"failed", "pipe", "setup", "publish", "geo", "mainloop", "free", "clear", "end",
       "done"} \subseteq WorkerPc
  BY DEF WorkerPc, Coming, Up, Leaving
\* What the invariant says of the session, and of it when it began alone.
<1>6. /\ sess[i].fd => sess[i].pc \in {"setup", "publish", "free"} \cup Up
      /\ sess[i].err => sess[i].pc \in Leaving \cup {"failed"}
      /\ pipe = i => sess[i].fd \/ sess[i].pc = "clear"
  BY <1>0 DEF LoneInv, SocketInUse, ErrOnWayOut, PipeOwned
<1>7. CASE Prelude(i) \/ Body(i)
  <2>1. /\ sess[i].pc = "prelude" /\ UNCHANGED <<status, pipe>>
        /\ sess'[i].fd = sess[i].fd
        /\ \/ sess'[i].pc \in {"failed", "pipe"} /\ sess'[i].err = sess[i].err
           \/ sess'[i].pc = "free" /\ sess'[i].err
    BY <1>0, <1>5, <1>7, GoEffect, FailEffect DEF Prelude, Body
  <2>2. ~sess[i].fd /\ ~sess[i].err /\ pipe # i
    BY <1>6, <2>1 DEF Up, Leaving
  <2>3. SocketInUse' /\ ErrOnWayOut' /\ PipeOwned'
    BY <1>4, <2>1, <2>2 DEF Leaving
  <2>4. LoneStatusExact'
    BY <1>0, <1>1, <1>2, <2>1, <2>2 DEF LoneInv, LoneStatusExact, Coming, Up, Leaving
  <2>5. LonePipeExact'
    BY <1>0, <1>1, <1>2, <2>1, <2>2 DEF LoneInv, LonePipeExact
  <2>6. QED
    BY <1>3, <2>3, <2>4, <2>5 DEF LoneInv
<1>8. CASE SetupPipe(i)
  <2>1. PICK ok \in BOOLEAN :
              /\ pipe' = IF ok THEN i ELSE None
              /\ sess' = [sess EXCEPT ![i].pc = "setup", ![i].fd = ok]
    BY <1>8 DEF SetupPipe
  <2>2. /\ sess[i].pc = "pipe" /\ UNCHANGED status
        /\ sess'[i].pc = "setup" /\ sess'[i].fd = ok /\ sess'[i].err = sess[i].err
    BY <1>0, <1>5, <1>8, <2>1, SocketEffect DEF SetupPipe
  <2>3. i # None
    BY ConstantsAssumption DEF Sessions
  <2>4. ~sess[i].err
    BY <1>6, <2>2 DEF Leaving
  <2>5. SocketInUse' /\ ErrOnWayOut' /\ PipeOwned'
    BY <1>4, <2>1, <2>2, <2>3, <2>4
  <2>6. LoneStatusExact'
    BY <1>0, <1>1, <1>2, <2>2, <2>4 DEF LoneInv, LoneStatusExact, Coming, Up, Leaving
  <2>7. LonePipeExact'
    BY <1>1, <1>2, <2>1, <2>2 DEF LonePipeExact
  <2>8. QED
    BY <1>3, <2>5, <2>6, <2>7 DEF LoneInv
<1>9. CASE SetUp(i)
  <2>1. /\ sess[i].pc = "setup" /\ UNCHANGED <<status, pipe>>
        /\ sess'[i].fd = sess[i].fd
        /\ \/ sess'[i].pc = "publish" /\ sess'[i].err = sess[i].err
           \/ sess'[i].pc = "free" /\ sess'[i].err
    BY <1>0, <1>5, <1>9, GoEffect, FailEffect DEF SetUp
  <2>2. ~sess[i].err
    BY <1>6, <2>1 DEF Leaving
  <2>3. SocketInUse' /\ ErrOnWayOut' /\ PipeOwned'
    BY <1>4, <1>6, <2>1, <2>2 DEF Leaving
  <2>4. LoneStatusExact'
    BY <1>0, <1>1, <1>2, <2>1, <2>2 DEF LoneInv, LoneStatusExact, Coming, Up, Leaving
  <2>5. LonePipeExact'
    BY <1>0, <1>1, <1>2, <2>1 DEF LoneInv, LonePipeExact
  <2>6. QED
    BY <1>3, <2>3, <2>4, <2>5 DEF LoneInv
<1>10. CASE PublishConnected(i)
  <2>1. /\ sess[i].pc = "publish" /\ UNCHANGED pipe
        /\ sess'[i].pc = "geo" /\ sess'[i].fd = sess[i].fd /\ sess'[i].err = sess[i].err
        /\ status'.state = "Connected" /\ status'.active = sess[i].profile
        /\ status'.exit = status.exit
    BY <1>0, <1>5, <1>10, GoEffect DEF PublishConnected, TypeOK, StatusRec
  <2>2. ~sess[i].err
    BY <1>6, <2>1 DEF Leaving
  <2>3. SocketInUse' /\ ErrOnWayOut' /\ PipeOwned'
    BY <1>4, <1>6, <2>1, <2>2 DEF Up
  <2>4. LoneStatusExact'
    BY <1>0, <1>1, <1>2, <2>1, <2>2 DEF LoneInv, LoneStatusExact, Coming, Up, Leaving
  <2>5. LonePipeExact'
    BY <1>0, <1>1, <1>2, <2>1 DEF LoneInv, LonePipeExact
  <2>6. QED
    BY <1>3, <2>3, <2>4, <2>5 DEF LoneInv
<1>11. CASE SpawnGeo(i) \/ EndMainloop(i)
  <2>1. /\ sess[i].pc \in {"geo", "mainloop"} /\ UNCHANGED <<status, pipe>>
        /\ sess'[i].pc \in {"mainloop", "free"}
        /\ sess'[i].fd = sess[i].fd /\ sess'[i].err = sess[i].err
    BY <1>0, <1>5, <1>11, GoEffect DEF SpawnGeo, EndMainloop
  <2>2. ~sess[i].err
    BY <1>6, <2>1 DEF Leaving
  <2>3. SocketInUse' /\ ErrOnWayOut' /\ PipeOwned'
    BY <1>4, <1>6, <2>1, <2>2 DEF Up
  <2>4. LoneStatusExact'
    BY <1>0, <1>1, <1>2, <2>1, <2>2 DEF LoneInv, LoneStatusExact, Coming, Up, Leaving
  <2>5. LonePipeExact'
    BY <1>0, <1>1, <1>2, <2>1 DEF LoneInv, LonePipeExact
  <2>6. QED
    BY <1>3, <2>3, <2>4, <2>5 DEF LoneInv
<1>12. CASE FreeSession(i)
  <2>1. /\ sess[i].pc = "free" /\ UNCHANGED <<status, pipe>>
        /\ sess'[i].pc = "clear" /\ ~sess'[i].fd /\ sess'[i].err = sess[i].err
    BY <1>0, <1>5, <1>12, SocketEffect DEF FreeSession
  <2>2. SocketInUse' /\ ErrOnWayOut' /\ PipeOwned'
    BY <1>4, <2>1 DEF Leaving
  <2>3. LoneStatusExact'
    BY <1>0, <1>1, <1>2, <2>1 DEF LoneInv, LoneStatusExact, Coming, Up, Leaving
  <2>4. LonePipeExact'
    BY <1>0, <1>1, <1>2, <2>1 DEF LoneInv, LonePipeExact
  <2>5. QED
    BY <1>3, <2>2, <2>3, <2>4 DEF LoneInv
<1>13. CASE ClearPipe(i)
  <2>1. /\ sess[i].pc = "clear" /\ UNCHANGED status /\ pipe' = None
        /\ sess'[i].pc = "end" /\ sess'[i].fd = sess[i].fd /\ sess'[i].err = sess[i].err
    BY <1>0, <1>5, <1>13, GoEffect DEF ClearPipe
  <2>2. ~sess[i].fd /\ i # None
    BY <1>6, <2>1, ConstantsAssumption DEF Up, Sessions
  <2>3. SocketInUse' /\ ErrOnWayOut' /\ PipeOwned'
    BY <1>4, <2>1, <2>2 DEF Leaving
  <2>4. LoneStatusExact'
    BY <1>0, <1>1, <1>2, <2>1 DEF LoneInv, LoneStatusExact, Coming, Up, Leaving
  <2>5. LonePipeExact'
    BY <1>1, <1>2, <2>1, <2>2 DEF LonePipeExact
  <2>6. QED
    BY <1>3, <2>3, <2>4, <2>5 DEF LoneInv
<1>14. CASE EndStatus(i)
  <2>1. /\ sess[i].pc = "end" /\ UNCHANGED pipe
        /\ sess'[i].pc = IF sess[i].err THEN "failed" ELSE "done"
        /\ sess[i].err => sess'[i].err /\ sess'[i].fd = sess[i].fd
        /\ ~sess[i].err => ~sess'[i].err /\ ~sess'[i].fd
        /\ status' = IF status.state \in {"Error", "Connecting"} THEN status ELSE Default
    BY <1>0, <1>5, <1>14, GoEffect DEF EndStatus
  <2>2. ~sess[i].fd /\ pipe # i
    BY <1>6, <2>1 DEF Up
  <2>3. SocketInUse' /\ ErrOnWayOut' /\ PipeOwned'
    BY <1>4, <2>1, <2>2
  <2>4. LoneStatusExact'
    BY <1>0, <1>1, <1>2, <2>1 DEF LoneInv, LoneStatusExact, Coming, Up, Leaving, Default
  <2>5. LonePipeExact'
    BY <1>0, <1>1, <1>2, <2>1, <2>2 DEF LoneInv, LonePipeExact
  <2>6. QED
    BY <1>3, <2>3, <2>4, <2>5 DEF LoneInv
<1>15. CASE ReportError(i)
  <2>1. /\ sess[i].pc = "failed" /\ UNCHANGED pipe
        /\ sess'[i].pc = "done" /\ ~sess'[i].err /\ ~sess'[i].fd
        /\ status.state \in {"Connecting", "Connected"} => status'.state = "Error"
        /\ status'.active = status.active /\ status'.exit = status.exit
    BY <1>0, <1>5, <1>15, GoEffect DEF ReportError, TypeOK, StatusRec
  <2>2. ~sess[i].fd /\ pipe # i
    BY <1>6, <2>1 DEF Up
  <2>3. SocketInUse' /\ ErrOnWayOut' /\ PipeOwned'
    BY <1>4, <2>1, <2>2
  <2>4. LoneStatusExact'
    BY <1>0, <1>1, <1>2, <2>1 DEF LoneInv, LoneStatusExact, Coming, Up, Leaving
  <2>5. LonePipeExact'
    BY <1>0, <1>1, <1>2, <2>1, <2>2 DEF LoneInv, LonePipeExact
  <2>6. QED
    BY <1>3, <2>3, <2>4, <2>5 DEF LoneInv
<1>16. QED
  BY <1>7, <1>8, <1>9, <1>10, <1>11, <1>12, <1>13, <1>14, <1>15 DEF WorkerNext

\* A lookup, of whichever session, writes the exit address of the profile that
\* is shown as connected, or nothing.
LEMMA LoneGeo ==
    ASSUME IInv, NEW i \in Sessions, GeoNext(i)
    PROVE  LoneInv'
<1>0. TypeOK /\ LoneInv
  BY DEF IInv, SafeInv
<1>1. UNCHANGED <<pipe, main, sess, nSess, sw, gap, alone>>
  BY DEF GeoNext, GeoGuard, GeoCheck, GeoWrite, GeoUnchanged, history
<1>2. /\ status'.state = status.state /\ status'.active = status.active
      /\ \/ status'.exit = status.exit
         \/ status.state = "Connected" /\ status'.exit = status.active
  BY <1>0 DEF GeoNext, GeoGuard, GeoCheck, GeoWrite, MayWriteExit, TypeOK, StatusRec
<1>3. LoneStatusExact'
  BY <1>0, <1>1, <1>2 DEF LoneInv, LoneStatusExact
<1>4. QED
  BY <1>0, <1>1, <1>3 DEF LoneInv, Solo, Quiet, SocketInUse, PipeOwned, ErrOnWayOut, LonePipeExact

(***************************************************************************)
(* The theorems.                                                           *)
(***************************************************************************)

\* The program starts with nothing spawned and a default status.
LEMMA InitInv == Init => IInv
<1> SUFFICES ASSUME Init PROVE IInv
  OBVIOUS
<1>1. /\ 0 \in Nat /\ 0 \in 0..MaxSessions /\ 0 \in 0..MaxSwitches
      /\ 0 \in 0..MaxDisconnects
  BY ConstantsAssumption
<1>2. TypeOK
  BY <1>1 DEF Init, Default, TypeOK, StatusRec, ConnState, WorkerRec, WorkerPc, SwitchRec, GeoRec
<1>3. FreshSlots /\ SwitchRoom /\ SwitchTargets
  BY DEF Init, FreshSlots, SwitchRoom, SwitchTargets
<1>4. ConnectedIsBacked /\ ConnectingIsBacked /\ GapIdle
  BY DEF Init, Default, ConnectedIsBacked, ConnectingIsBacked, GapIdle, GapHidesExit, history
<1>5. SpawnedHaveProfile
  BY DEF Init, SpawnedHaveProfile
<1>6. LoneInv
  BY ConstantsAssumption DEF Init, LoneInv, Solo, Quiet, SocketInUse, PipeOwned, ErrOnWayOut,
                             LoneStatusExact, LonePipeExact, Sessions
<1>7. QED
  BY <1>2, <1>3, <1>4, <1>5, <1>6 DEF IInv, SafeInv

\* Every step of every thread preserves the inductive invariant.
LEMMA NextInv == IInv /\ [Next]_vars => IInv'
<1> SUFFICES ASSUME IInv, [Next]_vars PROVE IInv'
  OBVIOUS
<1>1. SpawnedHaveProfile'
  BY ProfileStep DEF IInv, SafeInv
<1>2. SafeInv'
  <2>1. CASE MainNext
    BY <2>1, MainStep DEF IInv
  <2>2. CASE \E k \in Switches : SwitchNext(k)
    BY <2>2, SwitchStep DEF IInv
  <2>3. CASE \E i \in Sessions : WorkerNext(i)
    BY <2>3, WorkerStep DEF IInv
  <2>4. CASE \E i \in Sessions : GeoNext(i)
    BY <2>4, GeoStep
  <2>5. CASE UNCHANGED vars
    BY <2>5 DEF vars, IInv, SafeInv, TypeOK, FreshSlots, SwitchRoom, SwitchTargets,
                ConnectedIsBacked, ConnectingIsBacked, Undecided, GapIdle, GapHidesExit, history
  <2>6. QED
    BY <2>1, <2>2, <2>3, <2>4, <2>5 DEF Next
<1>3. LoneInv'
  <2>1. CASE UNCHANGED vars
    BY <2>1 DEF vars, history, IInv, LoneInv, Solo, Quiet, SocketInUse, PipeOwned, ErrOnWayOut,
                LoneStatusExact, LonePipeExact
  <2>2. QED
    BY <2>1, LoneMain, LoneSwitch, LoneWorker, LoneGeo DEF Next
<1>4. QED
  BY <1>1, <1>2, <1>3 DEF IInv

\* Every reachable state of the runtime satisfies the inductive invariant.
THEOREM Inductive == Spec => []IInv
BY InitInv, NextInv, PTL DEF Spec

\* Type correctness of the runtime's shared state.
THEOREM TypeCorrect == Spec => []TypeOK
<1>1. IInv => TypeOK
  BY DEF IInv, SafeInv
<1>2. QED
  BY <1>1, Inductive, PTL

\* "Connected" is on show only while a session that came up has still to run
\* the clean-up at the end of run_session.
THEOREM ConnectedBacked == Spec => []ConnectedIsBacked
<1>1. IInv => ConnectedIsBacked
  BY DEF IInv, SafeInv
<1>2. QED
  BY <1>1, Inductive, PTL

\* "Connecting" is on show only while some session's attempt is undecided:
\* spawn_worker always turns it into Connected or Error.
THEOREM ConnectingBacked == Spec => []ConnectingIsBacked
<1>1. IInv => ConnectingIsBacked
  BY DEF IInv, SafeInv
<1>2. QED
  BY <1>1, Inductive, PTL

\* No geo lookup, however late its answer, leaves an exit address on show from
\* the lock of a disconnect or a switch until the next connect() or until a
\* worker still setting up reports Connected over it.
THEOREM ExitHidden == Spec => []GapHidesExit
<1>1. IInv => GapHidesExit
  BY DEF IInv, SafeInv, GapIdle
<1>2. QED
  BY <1>1, Inductive, PTL

\* A session that began alone is shown as it is until a disconnect or a switch
\* is accepted: the status record follows its worker, error included, and no
\* late lookup puts the exit address of another profile on show.
THEOREM LoneStatus == Spec => []LoneStatusExact
<1>1. IInv => LoneStatusExact
  BY DEF IInv, LoneInv
<1>2. QED
  BY <1>1, Inductive, PTL

\* While a session that began alone has a command socket CMD_PIPE names it, and
\* no session that is over has left its number there.
THEOREM LonePipe == Spec => []LonePipeExact
<1>1. IInv => LonePipeExact
  BY DEF IInv, LoneInv
<1>2. QED
  BY <1>1, Inductive, PTL
=============================================================================
