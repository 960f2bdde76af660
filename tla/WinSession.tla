----------------------------- MODULE WinSession -----------------------------
(***************************************************************************)
(* The Windows session runtime (windows/src-tauri/src/vpn: state.rs,       *)
(* openconnect.rs, session.rs, geo.rs) with a real libopenconnect.         *)
(*                                                                         *)
(* Actors.  The Tauri main thread runs the commands connect, switch and    *)
(* disconnect one at a time (they are synchronous commands, and the tray   *)
(* menu runs there too).  connect() starts a worker thread per session;    *)
(* switch_profile() starts a thread that waits for the runtime to be idle  *)
(* and then connects; a session that comes up starts a geo lookup thread.  *)
(* They share the status record behind its mutex and a few atomics         *)
(* (proxy_shutdown, which only the listeners of proxy.rs read, is left     *)
(* out).  A step of the model is what one actor does between two points    *)
(* where another may observe it: a critical section or an atomic access.   *)
(***************************************************************************)
EXTENDS Naturals

CONSTANTS
    Profiles,        \* profile ids
    CachedExit,      \* those that have an exit address saved from before
    LookupPublicIp,  \* the sessions whose lookup finds the setting lookup_public_ip on
    None,            \* no profile, no pipe, no exit address
    MaxSessions,     \* bound: connect() calls that pass the guard
    MaxSwitches,     \* bound: switch requests that tear a session down
    MaxDisconnects   \* bound: disconnect requests

ASSUME ConstantsAssumption ==
    /\ CachedExit \subseteq Profiles
    /\ LookupPublicIp \subseteq Nat
    /\ None \notin Profiles
    /\ None \notin Nat
    /\ MaxSessions \in Nat /\ MaxSwitches \in Nat /\ MaxDisconnects \in Nat

VARIABLES
    status,          \* VpnStatus: connection state, active profile, and the profile
                     \* whose exit address is on show
    gen,             \* switch_gen
    epoch,           \* geo_epoch
    pipe,            \* CMD_PIPE: None, or the session whose command socket it is
    main,            \* what the main thread is in the middle of
    nDisc,           \* disconnect requests so far (bound only)
    sess,            \* the worker threads, in the order they were spawned
    nSess,           \* sessions spawned so far
    sw,              \* the switch threads
    nSw,             \* switch threads spawned so far
    geo,             \* the geo lookup thread of each session
    (* Read by the properties alone. *)
    gap,             \* "open" from a disconnect or a switch to the next connect(),
                     \* "broken" once a session has come up in it
    alone            \* the newest session began with no other session, switch or
                     \* disconnect under way

history == <<gap, alone>>
vars == <<status, gen, epoch, pipe, main, nDisc, sess, nSess,
          sw, nSw, geo, history>>

Sessions == 1..MaxSessions
Switches == 1..MaxSwitches

ConnState == {"Disconnected", "Connecting", "Connected", "Disconnecting", "Error"}

\* Where a worker is.  Up to "publish" it has not reported Connected yet;
\* "free", "clear" and "end" are the tail of run_session, "failed" the error
\* branch of spawn_worker.
Coming  == {"prelude", "pipe", "setup", "publish"}
Up      == {"geo", "mainloop"}
Leaving == {"free", "clear", "end"}
WorkerPc == {"none", "failed", "done"} \cup Coming \cup Up \cup Leaving

Default == [state |-> "Disconnected", active |-> None, exit |-> None]

StatusRec == [state : ConnState, active : Profiles \cup {None}, exit : Profiles \cup {None}]
\* fd: it has a command socket, until vpninfo_free; cancel: the socket took one.
WorkerRec == [pc : WorkerPc, profile : Profiles \cup {None}, err : BOOLEAN, fd : BOOLEAN,
              cancel : BOOLEAN]
SwitchRec == [pc : {"none", "wait", "settle", "go", "refused", "done"},
              token : Nat, target : Profiles \cup {None}]
GeoRec    == [pc : {"none", "guard", "check", "write", "done"}, epoch : Nat]

TypeOK ==
    /\ status \in StatusRec
    /\ gen \in Nat /\ epoch \in Nat
    /\ pipe \in Sessions \cup {None}
    /\ main \in [pc : {"ready", "switch", "disconnect", "teardown"}, target : Profiles \cup {None}]
    /\ nDisc \in 0..MaxDisconnects
    /\ sess \in [Sessions -> WorkerRec]
    /\ nSess \in 0..MaxSessions
    /\ sw \in [Switches -> SwitchRec]
    /\ nSw \in 0..MaxSwitches
    /\ geo \in [Sessions -> GeoRec]
    /\ gap \in {"none", "open", "broken"} /\ alone \in BOOLEAN

Init ==
    /\ status = Default
    /\ gen = 0 /\ epoch = 0
    /\ pipe = None
    /\ main = [pc |-> "ready", target |-> None]
    /\ nDisc = 0
    /\ sess = [i \in Sessions |->
                 [pc |-> "none", profile |-> None, err |-> FALSE, fd |-> FALSE,
                  cancel |-> FALSE]]
    /\ nSess = 0
    /\ sw = [k \in Switches |-> [pc |-> "none", token |-> 0, target |-> None]]
    /\ nSw = 0
    /\ geo = [i \in Sessions |-> [pc |-> "none", epoch |-> 0]]
    /\ gap = "none" /\ alone = FALSE

(***************************************************************************)
(* Helpers.                                                                *)
(***************************************************************************)
ConnectRefused == status.state \in {"Connecting", "Connected"}

Ended(pc) == pc \in {"none", "done"}

\* connect(): the guard, the new epoch and the status under one lock, then
\* spawn_worker.  Besides the caller the switch threads others may be left.
ConnectTo(p, others) ==
    /\ ~ConnectRefused
    /\ nSess < MaxSessions
    /\ epoch' = epoch + 1
    /\ status' = [state |-> "Connecting", active |-> p,
                  exit |-> IF p \in CachedExit THEN p ELSE None]
    /\ nSess' = nSess + 1
    /\ sess' = [sess EXCEPT ![nSess + 1] =
                  [pc |-> "prelude", profile |-> p, err |-> FALSE, fd |-> FALSE,
                   cancel |-> FALSE]]
    /\ gap' = "none"
    /\ alone' = /\ main.pc = "ready"
                /\ \A i \in Sessions : Ended(sess[i].pc)
                /\ \A k \in others : Ended(sw[k].pc)

\* request_cancel(): nothing without a pipe, and nothing to a socket that has
\* been closed.
CancelNamed ==
    sess' = [i \in Sessions |->
               IF pipe = i /\ sess[i].fd THEN [sess[i] EXCEPT !.cancel = TRUE]
                                         ELSE sess[i]]

\* A thread that returns forgets its locals (which profile a session was for
\* is still known to its geo thread).
Go(i, where) ==
    sess' = [sess EXCEPT ![i] =
               IF where = "done"
               THEN [pc |-> "done", profile |-> @.profile, err |-> FALSE, fd |-> FALSE,
                     cancel |-> FALSE]
               ELSE [@ EXCEPT !.pc = where]]
Fail(i)      == sess' = [sess EXCEPT ![i].pc = "free", ![i].err = TRUE]

(***************************************************************************)
(* The main thread.                                                        *)
(***************************************************************************)
Connect(p) ==
    /\ main.pc = "ready"
    /\ ConnectTo(p, Switches)
    /\ UNCHANGED <<gen, pipe, main, nDisc, sw, nSw, geo>>

\* switch_profile() acts on a snapshot of the status.  From an idle state it
\* is connect(); the profile that is already up or coming up needs nothing.
SwitchIdle(p) ==
    /\ status.state \in {"Disconnected", "Error"}
    /\ Connect(p)

SwitchCall(p) ==
    /\ main.pc = "ready"
    /\ nSw < MaxSwitches
    /\ status.state \notin {"Disconnected", "Error"}
    /\ ~(status.active = p /\ ConnectRefused)
    /\ gen' = gen + 1
    /\ epoch' = epoch + 1
    /\ main' = [pc |-> "switch", target |-> p]
    /\ UNCHANGED <<status, pipe, nDisc, sess, nSess, sw, nSw, geo, history>>

\* The snapshot may be stale by the time the new status is written.
SwitchLock ==
    /\ main.pc = "switch"
    /\ status' = [state |-> "Disconnecting", active |-> main.target, exit |-> None]
    /\ main' = [main EXCEPT !.pc = "teardown"]
    /\ gap' = "open"
    /\ UNCHANGED <<gen, epoch, pipe, nDisc, sess, nSess, sw, nSw, geo, alone>>

\* disconnect() first cancels a pending switch and aborts geo.
Disconnect ==
    /\ main.pc = "ready"
    /\ nDisc < MaxDisconnects
    /\ nDisc' = nDisc + 1
    /\ gen' = gen + 1
    /\ epoch' = epoch + 1
    /\ main' = [pc |-> "disconnect", target |-> None]
    /\ UNCHANGED <<status, pipe, sess, nSess, sw, nSw, geo, history>>

\* An idle runtime is left alone.
DisconnectLock ==
    /\ main.pc = "disconnect"
    /\ \/ /\ status.state = "Disconnected"
          /\ main' = [main EXCEPT !.pc = "ready"]
          /\ UNCHANGED <<status, gap>>
       \/ /\ status.state # "Disconnected"
          /\ main' = [main EXCEPT !.pc = "teardown"]
          /\ status' = [status EXCEPT !.state = "Disconnecting", !.exit = None]
          /\ gap' = "open"
    /\ UNCHANGED <<gen, epoch, nDisc, pipe, sess, nSess, sw, nSw, geo, alone>>

\* begin_teardown(), and for a switch the thread that waits and connects.  The
\* token is what bump_switch_gen() returned: only this thread bumps it.
Teardown ==
    /\ main.pc = "teardown"
    /\ CancelNamed
    /\ main' = [pc |-> "ready", target |-> None]
    /\ IF main.target = None
       THEN UNCHANGED <<sw, nSw>>
       ELSE /\ nSw' = nSw + 1
            /\ sw' = [sw EXCEPT ![nSw + 1] =
                        [pc |-> "wait", token |-> gen, target |-> main.target]]
    /\ UNCHANGED <<status, gen, epoch, pipe, nDisc, nSess, geo, history>>

MainNext == \/ \E p \in Profiles : Connect(p) \/ SwitchIdle(p) \/ SwitchCall(p)
            \/ SwitchLock
            \/ Disconnect \/ DisconnectLock
            \/ Teardown

(***************************************************************************)
(* The switch thread: wait_until_idle, then connect.                       *)
(***************************************************************************)
SwitchUnchanged == UNCHANGED <<gen, pipe, main, nDisc, nSw, geo>>

SwPc(k, where) ==
    sw' = [sw EXCEPT ![k] = IF where = "done"
                            THEN [pc |-> "done", token |-> 0, target |-> None]
                            ELSE [@ EXCEPT !.pc = where]]

\* One round of the polling loop that ends it: superseded, idle, or the 150th.
WaitIdle(k) ==
    /\ sw[k].pc = "wait"
    /\ \/ gen # sw[k].token /\ SwPc(k, "done")
       \/ /\ gen = sw[k].token
          /\ status.state \in {"Disconnected", "Error"}
          /\ SwPc(k, "settle")
       \/ /\ gen = sw[k].token
          /\ status.state \notin {"Disconnected", "Error"}
          /\ SwPc(k, "done")
    /\ SwitchUnchanged
    /\ UNCHANGED <<status, epoch, sess, nSess, history>>

\* After the 150 ms beat the generation is read again, and that is the last
\* time it is read.
Recheck(k) ==
    /\ sw[k].pc = "settle"
    /\ SwPc(k, IF gen = sw[k].token THEN "go" ELSE "done")
    /\ SwitchUnchanged
    /\ UNCHANGED <<status, epoch, sess, nSess, history>>

SwitchConnect(k) ==
    /\ sw[k].pc = "go"
    /\ \/ ConnectTo(sw[k].target, Switches \ {k}) /\ SwPc(k, "done")
       \/ /\ ConnectRefused
          /\ SwPc(k, "refused")
          /\ UNCHANGED <<status, epoch, sess, nSess, history>>
    /\ SwitchUnchanged

SwitchRefused(k) ==
    /\ sw[k].pc = "refused"
    /\ status' = [status EXCEPT !.state = "Error"]
    /\ SwPc(k, "done")
    /\ SwitchUnchanged
    /\ UNCHANGED <<epoch, sess, nSess, history>>

SwitchNext(k) == WaitIdle(k) \/ Recheck(k) \/ SwitchConnect(k) \/ SwitchRefused(k)

(***************************************************************************)
(* The worker thread: spawn_worker, run_session, session_body.             *)
(***************************************************************************)
WorkerUnchanged == UNCHANGED <<gen, epoch, main, nDisc, nSess, sw, nSw, alone>>

\* run_session up to vpninfo_new: an error there returns past the clean-up.
Prelude(i) ==
    /\ sess[i].pc = "prelude"
    /\ Go(i, "failed")
    /\ UNCHANGED <<status, pipe, geo, gap>>
    /\ WorkerUnchanged

\* It returned a vpninfo; session_body up to the pipe shares nothing either (the
\* proxy flag aside), and a bad protocol, URL or CA path fails.
Body(i) ==
    /\ sess[i].pc = "prelude"
    /\ Go(i, "pipe") \/ Fail(i)
    /\ UNCHANGED <<status, pipe, geo, gap>>
    /\ WorkerUnchanged

\* setup_cmd_pipe may fail; the session goes on without a pipe.
SetupPipe(i) ==
    /\ sess[i].pc = "pipe"
    /\ \E ok \in BOOLEAN :
         /\ pipe' = IF ok THEN i ELSE None
         /\ sess' = [sess EXCEPT ![i].pc = "setup", ![i].fd = ok]
    /\ UNCHANGED <<status, geo, gap>>
    /\ WorkerUnchanged

\* Fault: a cancel taken off the socket during authentication is forgotten.
SetUpForgets(i) ==
    /\ sess[i].pc = "setup"
    /\ \/ sess' = [sess EXCEPT ![i].pc = "publish", ![i].cancel = FALSE]
       \/ Fail(i)
    /\ UNCHANGED <<status, pipe, geo, gap>>
    /\ WorkerUnchanged

\* obtain_cookie, make_cstp, setup_tun and, in proxy mode, the listeners: nothing
\* of it is shared before the end.  A cancel makes the first two fail unless it
\* arrives after their last wait.
SetUp(i) ==
    /\ sess[i].pc = "setup"
    /\ Go(i, "publish") \/ Fail(i)
    /\ UNCHANGED <<status, pipe, geo, gap>>
    /\ WorkerUnchanged

\* The session is Connected whatever the status has become meanwhile.
PublishConnected(i) ==
    /\ sess[i].pc = "publish"
    /\ status' = [status EXCEPT !.state = "Connected", !.active = sess[i].profile]
    /\ gap' = IF gap = "open" THEN "broken" ELSE gap
    /\ Go(i, "geo")
    /\ UNCHANGED <<pipe, geo>>
    /\ WorkerUnchanged

SpawnGeo(i) ==
    /\ sess[i].pc = "geo"
    /\ geo' = [geo EXCEPT ![i] = [pc |-> "guard", epoch |-> epoch]]
    /\ Go(i, "mainloop")
    /\ UNCHANGED <<status, pipe, gap>>
    /\ WorkerUnchanged

\* The mainloop ends because it was cancelled or because the session dropped,
\* and takes the interface and its routes away.
EndMainloop(i) ==
    /\ sess[i].pc = "mainloop"
    /\ Go(i, "free")
    /\ UNCHANGED <<status, pipe, geo, gap>>
    /\ WorkerUnchanged

\* vpninfo_free closes the command socket.
FreeSession(i) ==
    /\ sess[i].pc = "free"
    /\ sess' = [sess EXCEPT ![i].pc = "clear", ![i].fd = FALSE]
    /\ UNCHANGED <<status, pipe, geo, gap>>
    /\ WorkerUnchanged

\* Fault: the clean-up leaves CMD_PIPE as it is.
ClearPipeForgets(i) ==
    /\ sess[i].pc = "clear"
    /\ Go(i, "end")
    /\ UNCHANGED <<status, pipe, geo, gap>>
    /\ WorkerUnchanged

\* Fault: CMD_PIPE is cleared to 0, which is a descriptor, and not to -1.
ClearPipeToZero(i) ==
    /\ sess[i].pc = "clear"
    /\ pipe' = 0
    /\ Go(i, "end")
    /\ UNCHANGED <<status, geo, gap>>
    /\ WorkerUnchanged

\* CMD_PIPE is cleared whoever's it is by now.
ClearPipe(i) ==
    /\ sess[i].pc = "clear"
    /\ pipe' = None
    /\ Go(i, "end")
    /\ UNCHANGED <<status, geo, gap>>
    /\ WorkerUnchanged

\* Fault: the end of a session wipes the status whatever it says.
EndStatusWipes(i) ==
    /\ sess[i].pc = "end"
    /\ status' = Default
    /\ Go(i, IF sess[i].err THEN "failed" ELSE "done")
    /\ UNCHANGED <<pipe, geo, gap>>
    /\ WorkerUnchanged

\* Fault: the guard for a newer session also spares Connected.
EndStatusSparesConnected(i) ==
    /\ sess[i].pc = "end"
    /\ status' = IF status.state \in {"Error", "Connecting", "Connected"}
                 THEN status ELSE Default
    /\ Go(i, IF sess[i].err THEN "failed" ELSE "done")
    /\ UNCHANGED <<pipe, geo, gap>>
    /\ WorkerUnchanged

EndStatus(i) ==
    /\ sess[i].pc = "end"
    /\ status' = IF status.state \in {"Error", "Connecting"} THEN status ELSE Default
    /\ Go(i, IF sess[i].err THEN "failed" ELSE "done")
    /\ UNCHANGED <<pipe, geo, gap>>
    /\ WorkerUnchanged

\* Fault: an error is reported only for a session that was up.
ReportErrorIfUp(i) ==
    /\ sess[i].pc = "failed"
    /\ status' = [status EXCEPT !.state = IF @ = "Connected" THEN "Error" ELSE @]
    /\ Go(i, "done")
    /\ UNCHANGED <<pipe, geo, gap>>
    /\ WorkerUnchanged

\* The error branch of spawn_worker.
ReportError(i) ==
    /\ sess[i].pc = "failed"
    /\ status' = [status EXCEPT !.state =
                    IF @ \in {"Connecting", "Connected"} THEN "Error" ELSE @]
    /\ Go(i, "done")
    /\ UNCHANGED <<pipe, geo, gap>>
    /\ WorkerUnchanged

WorkerNext(i) ==
    \/ Prelude(i) \/ Body(i) \/ SetupPipe(i) \/ SetUp(i)
    \/ PublishConnected(i) \/ SpawnGeo(i) \/ EndMainloop(i)
    \/ FreeSession(i) \/ ClearPipe(i) \/ EndStatus(i) \/ ReportError(i)

(***************************************************************************)
(* The geo lookup thread of a session.                                     *)
(***************************************************************************)
GeoUnchanged == UNCHANGED <<gen, epoch, pipe, main, nDisc, sess,
                            nSess, sw, nSw, history>>

GeoPc(i, where) ==
    geo' = [geo EXCEPT ![i] = IF where = "done" THEN [pc |-> "done", epoch |-> 0]
                                                ELSE [@ EXCEPT !.pc = where]]

GeoGuardOk(i) == /\ epoch = geo[i].epoch
                 /\ status.state = "Connected"
                 /\ status.active = sess[i].profile

\* Before every attempt, of which there are six at most, with nothing shared
\* in between: fetch_once brings the answer, or an error and another round.
GeoGuard(i) ==
    /\ geo[i].pc = "guard"
    /\ \/ i \in LookupPublicIp /\ GeoGuardOk(i) /\ GeoPc(i, "check")
       \/ GeoPc(i, "done")
    /\ UNCHANGED status
    /\ GeoUnchanged

GeoCheck(i) ==
    /\ geo[i].pc = "check"
    /\ GeoPc(i, IF GeoGuardOk(i) THEN "write" ELSE "done")
    /\ UNCHANGED status
    /\ GeoUnchanged

\* Fault: the lock is taken but the state is not looked at again.
MayWriteExitUnchecked(i) == status.active = sess[i].profile

\* Under the lock the state and the profile are checked again, the epoch not.
MayWriteExit(i) == /\ status.state = "Connected"
                   /\ status.active = sess[i].profile

GeoWrite(i) ==
    /\ geo[i].pc = "write"
    /\ status' = IF MayWriteExit(i)
                 THEN [status EXCEPT !.exit = sess[i].profile]
                 ELSE status
    /\ GeoPc(i, "done")
    /\ GeoUnchanged

GeoNext(i) == GeoGuard(i) \/ GeoCheck(i) \/ GeoWrite(i)

-----------------------------------------------------------------------------
Next == \/ MainNext
        \/ \E k \in Switches : SwitchNext(k)
        \/ \E i \in Sessions : WorkerNext(i) \/ GeoNext(i)

Spec == Init /\ [][Next]_vars

\* A worker runs on, but what it waits for from the network may never come:
\* obtain_cookie, make_cstp and the mainloop are sure to return only once the
\* command socket holds a cancel.
WorkerProgress(i) ==
    /\ sess[i].pc \in {"setup", "mainloop"} => sess[i].cancel
    /\ WorkerNext(i)

FairSpec == Spec /\ \A i \in Sessions : WF_vars(WorkerProgress(i))

(***************************************************************************)
(* What the runtime promises.                                              *)
(***************************************************************************)

\* "Connected" is shown only while a session that reported it has still to
\* run the clean-up of run_session: however sessions overlap, the window
\* never says Connected with every tunnel gone for good.
ConnectedIsBacked ==
    status.state = "Connected" =>
        \E i \in Sessions : sess[i].pc \in Up \cup Leaving

\* "Connecting" is shown only while some session has yet to succeed or to
\* have its failure reported: the attempt cannot be forgotten.
Undecided(i) == \/ sess[i].pc \in Coming \cup {"failed"}
                \/ sess[i].pc \in Leaving /\ sess[i].err

ConnectingIsBacked ==
    status.state = "Connecting" => \E i \in Sessions : Undecided(i)

\* From the lock in which a disconnect or a switch is accepted until the next
\* connect(), or until a worker that was still setting up reports Connected
\* over it, no exit address is on show; nor ever in Disconnecting or
\* Disconnected.  Lookups in flight may be anywhere, the last check before
\* the lock included.
GapHidesExit ==
    gap = "open" \/ status.state \in {"Disconnecting", "Disconnected"} => status.exit = None

\* switch_profile: "Do not look up or keep the previous exit IP as "ours"
\* during the gap", and disconnect: "abort geo - never probe while down".  No
\* exit address is on show from either until the next connect().
GapStaysHidden == gap # "none" => status.exit = None

\* A session that began alone is shown as it is until a disconnect or a switch
\* is accepted, whatever lookups of earlier sessions still run: Connecting
\* until it is up or its failure is reported, Connected until its clean-up,
\* then Error or Disconnected; and an exit address on show is of its profile.
LoneStatusExact ==
    LET s == sess[nSess] IN
    alone /\ gap = "none" =>
        /\ s.pc \in Coming \cup {"failed"} \/ s.err => status.state = "Connecting"
        /\ s.pc \in Up \cup Leaving /\ ~s.err => status.state = "Connected"
        /\ s.pc = "done" => status.state \in {"Error", "Disconnected"}
        /\ status.state # "Disconnected" => status.active = s.profile
        /\ status.exit # None => status.exit = s.profile

\* A cancel reaches a session that began alone for as long as it has a command
\* socket, and CMD_PIPE names no other: sessions before it left no number
\* behind.  (Its own is left standing between vpninfo_free and the store.)
LonePipeExact ==
    alone =>
        /\ sess[nSess].fd => pipe = nSess
        /\ pipe # None => pipe = nSess /\ (sess[nSess].fd \/ sess[nSess].pc = "clear")

\* A cancel that reached a session's command socket ends that session, at
\* whatever point of authentication or set-up it found it.
CancelEndsSession ==
    \A i \in Sessions : sess[i].cancel ~> sess[i].pc = "done"

\* run_session: "If a switch already moved us to Connecting, do not wipe that
\* state (otherwise the new session would be cancelled by a late
\* "Disconnected")."  The end of a session leaves the status of a newer one
\* that is coming up or up alone.
LateEndSparesNewer ==
    [][\A i, j \in Sessions :
          /\ i < j /\ sess[j].pc \in Coming \cup Up
          /\ sess[i].pc = "end" /\ sess'[i].pc # "end"
          => status' = status]_vars
=============================================================================
