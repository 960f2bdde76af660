# OCPclient in TLA+

A verification development for OCPclient, the OpenConnect client for Android and
Windows: TLA+ modules translated from the source, TLC configurations that check
them on small instances, and theorems that TLAPS checks for every instance.

Paths below are relative to the repository. `OC/` stands for
`android/external/openconnect/`, `CO/` for
`android/app/src/main/java/net/openconnect_vpn/android/core/`, `WV/` for
`windows/src-tauri/src/vpn/`.

## 1. The system

Two programs share one C library.

* **libopenconnect** (`OC/`) authenticates to the server over HTTPS, sets up a
  tunnel (CSTP over TLS, with DTLS or ESP over UDP beside it) and then runs
  `openconnect_mainloop` until it is cancelled, paused or loses the session. The
  application talks to a running library only through a *command socket*: a byte
  written there means cancel, pause, detach or statistics.
* **The Windows client** is a Tauri application. Its commands run on the main
  thread; `WV/openconnect.rs` starts a worker thread per session, a thread per
  profile switch, and `WV/geo.rs` a thread per lookup of the exit address. They
  share one status record behind a mutex, the atomics `switch_gen`, `geo_epoch`,
  `proxy_shutdown` (read by the listeners of the local proxy alone), the string `auth_detail`, and the global `CMD_PIPE` (the command
  socket of the session). Profiles are one file, `profiles.json`; a saved password is a
  file of its profile or, shared, of the login domain. What the library has to say reaches
  Rust through a C function of its own, `native/oc_progress_shim.c`.
* **The Android client** is a `VpnService` (`CO/OpenVpnService.java`). The user
  interface calls it on the main thread, the external API and the system
  (`onRevoke`) on binder threads; a `OpenConnectManagementThread` per session calls
  the library and reports states back with `setConnectionState` and `threadDone`.
  `CO/DeviceStateReceiver.java` and `CO/KeepAlive.java` pause, resume and wake the
  session.

### Inventory

| Component | State it keeps | Operations | What is hard | What makes it correct | Module |
|---|---|---|---|---|---|
| Windows session runtime (`WV/openconnect.rs`, `session.rs`, `state.rs`) | status record, `switch_gen`, `geo_epoch`, `CMD_PIPE`, worker and switch threads | connect, switch_profile, disconnect; the worker from prelude to clean-up; wait_until_idle | sessions overlap: connect is accepted while the old one is still Disconnecting; statuses written by late threads; a cancel that finds no socket yet | what the status says is backed by a thread; a cancel ends the session it reached; a session that is alone is shown as it is and is reached by a cancel | `WinSession` |
| Windows geo lookup (`WV/geo.rs`) | epoch and profile it started with; exit address in the status | spawn_after_connect, fetch, write | state checked before the network and used after it | no exit address of a session on show once it is to go | `WinSession` |
| Windows local proxy (`WV/proxy.rs`) | `proxy_shutdown`, listeners | accept loops | one flag for overlapping sessions | old listeners stop | not modelled: nothing but I/O depends on the flag |
| Windows progress shim (`windows/src-tauri/native/oc_progress_shim.c`) | none | oc_progress_trampoline | a message longer than the buffer, cut inside a character | what fits is handed on | `Progress` |
| Windows auth detail and saved logins (`WV/session.rs`, `state.rs`, `persist.rs`, `cred.rs`, `request.rs`) | `auth_detail`; `secrets/<profile>.bin`, `secrets/realm/<domain>.bin`, `use_shared_login` | from_profile, the callbacks of obtain_cookie, after_auth_ok, after_auth_fail | one string for sessions that overlap; four steps that save a login, each of which may fail | a failed login is judged by its own words; no password lost without having been sent; a saved one found again | `Progress`, `WinLogin` |
| Windows profile store (`WV/profile.rs`, `paths.rs`) | `profiles.json`, the file written beside it, `FILE_LOCK` | list, get, add, update, delete, set_mode, set_geo, set_shared_for_domain, clear_password, remember_login, apply_catalog | read-modify-write by several threads; a rename that Windows refuses; a kill between any two calls | each operation takes effect whole; ok means saved; the file is never torn | `ProfileTable`, `ProfileStore` |
| Windows settings and backup (`WV/settings.rs`, `backup.rs`) | JSON files | load, save | none of its own: one thread | – | not modelled |
| Windows commands, tray, update, loader, UI | none that outlives a call, or presentation | wrappers | – | – | not modelled |
| ESP receiver (`OC/esp.c`, `esp-seqno.c`, `gnutls-esp.c`) | two incoming contexts (SPI, cipher, expected number, 64-bit bitmap), `current_esp_in`, `old_esp_maxseq`, `esp_replay_protect` | esp_mainloop (receive), verify_packet_seqno, openconnect_setup_esp_keys, esp_shutdown | packets lost, repeated, reordered, in either context; shifts at the word boundary; 32-bit wrap; a set-up that fails half way | no packet twice; exactly the packets of the window pass | `AntiReplay`, `EspReceive` |
| ESP key negotiation (`OC/oncp.c`, `gpst.c`, `pulse.c`) | keys, SPI, replay attribute | rekey | protection turned off and on | as above | its effect on the receiver, in `EspReceive` |
| Android VPN service (`CO/OpenVpnService.java`) | profile, the open switch and its flags, `mUserAbort`, state shown, the thread listened to, messages | onStartCommand, switchToProfile, abortSwitch, stopVPN, setConnectionState, threadDone, onVpnThreadExited | the lock is free between the sections of a handler; threads outlive the join of 3 s; a runnable posted by a thread that is no longer the current one | one wanted thread; state shown is backed; no switch forgotten; comes to rest | `OpenVpnService` |
| Android VPN thread (`CO/OpenConnectManagementThread.java`) | library object, `mRequestDisconnect`, `mRequestPause` | run, runVPN, stopVPN; pause, resume, reconnect | a stop at any point of its life; a thread that waits for the user | every stop ends it, unless the user has to answer first | its life in `OpenVpnService`, pause and the wait in `PauseResume` |
| Android device state and keepalive | network, screen, paused flag; alarm, wake lock, worker | callbacks, alarms | pause before the library exists; answer after stop | held only while it is wanted, woken in time; a next alarm always set | `PauseResume` |
| Android dialogs and forms | one dialog slot, deferred preferences | promptUser, startActiveDialog, stopActiveDialog | two VPN threads alive share the slot | every prompt gets its own answer | planned (10) |
| Android profiles and credentials | preferences, key store | create, delete, backup | deletion during a session | as for Windows | delete, in `OpenVpnService`; the rest planned (10) |
| Android external API | allowed apps | start, disconnect | a second caller, on a binder thread | as for the service | its disconnect, in `OpenVpnService` |
| libopenconnect main loop, CSTP, DTLS | queues, DTLS state, timers, command pipe | mainloop, reconnect, dpd, rekey | time-outs racing answers; pause and cancel bytes | a cancel is never lost; a dead peer is noticed | commands and reconnect in `Mainloop`, the timers of CSTP in `Timers`; DTLS planned (5) |
| libopenconnect PPP (`OC/ppp.c`) | LCP/IPCP state | option negotiation | packets lost and crossed | both sides agree | planned (7) |
| libopenconnect authentication, HTTP, XML; stoken | parsing | – | – | – | not modelled: little control that outlives a call |

`PROJECT.json` lists the same components with their status, and every hazard with the
line where it bites and the properties that cover it.

## 2. The modules

| Module | Content |
|---|---|
| `WinSession` | the Windows runtime: main thread, worker, switch and lookup threads |
| `MCWinSession` | two profiles, one with a cached exit address, for TLC |
| `WinSessionProofs` | its safety invariants, proved |
| `AntiReplay` | abstract: an authentic packet passes if it is new and not too old |
| `EspReceive` | the receiver with its bitmaps and contexts; implements `AntiReplay` |
| `EspReceiveProofs` | exactness of the bitmap, no replay, the refinement, proved |
| `Progress` | the C trampoline, what is kept of a message, and `auth_detail` |
| `WinLogin` | extends it with the request, the login and what it does to the saved passwords |
| `MCWinLogin` | two profiles of one domain, six messages; the trampoline against a reference, by `ASSUME` |
| `WinLoginProofs` | its safety invariants and its action property, proved |
| `ProfileTable` | abstract: a table of profiles, each operation taking effect whole |
| `ProfileStore` | the store with its file, lock and kills; implements `ProfileTable` |
| `MCProfileStore` | two profiles, three threads and their operations |
| `ProfileStoreProofs` | no torn file, the refinement, proved |
| `ProfileSwitch` | abstract: how a switch of profiles may go, and the ways it may end |
| `OpenVpnService` | the Android service, its main thread, a binder thread, the VPN threads; implements `ProfileSwitch` |
| `MCOpenVpnService` | two profiles for TLC |
| `OpenVpnServiceProofs` | its safety invariants and the refinement, proved |
| `Mainloop` | how libopenconnect takes commands: the pipe, the waits, the main loop, reconnecting |
| `HeldSession` | abstract: a session that is held and released on demand and told to end once |
| `PauseResume` | composes `Mainloop` with the Android VPN thread, `DeviceStateReceiver` and `KeepAlive`; implements `HeldSession` |
| `PauseResumeProofs` | its safety invariants and the refinement, proved |
| `Timers` | dead-peer detection, keepalive and rekey of CSTP, in whole seconds |
| `TimersProofs` | its safety invariants, proved |

Operators whose comment begins with "Fault:" are not part of a specification. Each is
the definition after it with a plausible bug, kept so that it can be shown that the
properties would notice.

### WinSession

A step is what one thread does between two points at which another can look: one
critical section of the status mutex, or one access to an atomic or to `CMD_PIPE`.
`status` is the `VpnStatus` reduced to connection state, active profile and exit
address (the profile whose it is). A session is one `connect()` that
passed its guard; `sess[i].pc` is where its worker is:

| pc | code |
|---|---|
| prelude, pipe, setup | `run_session` 67-127 and `session_body` up to `setup_cmd_pipe`; the store of `CMD_PIPE`; authentication and CSTP/TUN set-up |
| publish, geo, mainloop | Connected is set (347-360), the lookup is spawned, `openconnect_mainloop` |
| free, clear, end | `vpninfo_free`, `CMD_PIPE := -1`, the final status (143-160) |
| failed, done | the error is reported by `spawn_worker`; returned |

`main` is the command in progress: switch_profile and disconnect bump a counter, then
take the lock, then `begin_teardown` sends the cancel. A cancel is a mark on the session
whose socket `CMD_PIPE` names, if that socket is still open (`fd`: from the set-up of the pipe to
`vpninfo_free`); to a number that is closed it goes nowhere in the model, though the system may
have given the number to another socket. `LookupPublicIp` is the sessions whose lookup
thread finds the user's setting on, for each reads it afresh. Abstractions: a lookup's two reads
in `geo_guard_ok` are one step; a lookup has rounds without bound; the mock backend used without
a DLL, the callbacks inside `obtain_cookie`, flags, the profile store and the local proxy (a
listener that cannot be opened is a failure of `SetUp`) are left out.

Two variables are history, read by properties alone. `gap` is "open" from the lock of a disconnect or a
switch until the next `connect()`, and "broken" once a worker has reported Connected in between;
`GapHidesExit` is what the code keeps of its promise, `GapStaysHidden` the promise. `alone` says that the
newest session began with no other session, switch or request under way: the sessions
that are to be shown and cancelled exactly (`LoneStatusExact`, `LonePipeExact`); of overlapping
ones the code does not keep as much (section 5).

### AntiReplay and EspReceive

`ctx[c]` is `struct esp`: `spi` and `key` are separate because a failed set-up can leave
an old cipher under a new SPI. `backlog` is the set of bits that are one. `W`, `Grace`
and `SeqMod` stand for 64, 32 and 2^32. `old_esp_maxseq` is an `int`, and a negative one
compared with a `uint64_t` exceeds every number: that is `MaxSeq`. `SetupKeys` covers
the callers too, which change `current_esp_in` and parse the replay attribute
(`OC/gpst.c:427`, `OC/oncp.c:272`, `OC/pulse.c:460`). Any packet of any key may arrive at
any moment, any number of times. Assumed: every set-up brings fresh keys and a fresh SPI
(`openconnect_random` or the server's); a packet that is not authentic is dropped and left out; a
context without cipher takes no packet. `accepted` and `verdict` are history, and
`AntiReplay` is written with them alone.

### Progress and WinLogin

A message is its level, the bytes of each of its characters, how many are blank in front,
whether it is UTF-8, and what it says as far as `session_body` tells apart: "reach" if it
contains "https connection" or "connect to", else "other". `oc_progress_trampoline` cuts
it where `vsnprintf` does, at `BufSize - 1` bytes (2047); a cut inside a character makes
it text that `rust_oc_progress` drops. `detail` is `auth_detail` with the session that
wrote it last. The ring of log lines is left out: it is only shown.

`asked` is the request that `connect_vpn` puts together on the main thread, in the three
reads of the code: the profile with its own secret, the domain's secret, and the
profile's again (`used_shared`). `sess[i].pc` is where a worker is:

| pc | code |
|---|---|
| start | up to `set_auth_detail("")` (`WV/session.rs` 264-265) |
| auth, form | `obtain_cookie`: HTTPS, a form being filled in (`process_auth_form`) |
| opening, returning | `obtain_cookie` is bound to fail: a certificate was refused; the last error was printed |
| take, judge | `take_auth_detail`; the judgement (267-285) |
| forgetOwn, forgetRealm | `after_auth_fail` |
| writeRealm, dropOwn, markDomain, writeOwn, remember | `after_auth_ok`, one step per file |
| up, connected, failed, done | CSTP and TUN set-up; main loop; the error is reported; returned |

`beside[i]` is history: the sessions that lived at some time since `i` began to
authenticate. A session may be disconnected at any moment, after which a new one is
accepted while the old is still in `obtain_cookie`. Assumed: the server refuses what is
not in `Good`, and may let in a request that carries no password; a library that fails to
open HTTPS prints `OpenError` last (`OC/http.c:915`; failures for want of memory, which
print nothing, are left out); one domain holds all profiles; the file of a secret
is replaced or removed in one step. Left out: the secrets the user interface writes or
forgets, the credential manager of older versions, encryption, user names.

### ProfileTable and ProfileStore

`ProfileTable` is what callers may rely on: between its call and its return an operation
applies to the table once and whole; ok is answered only after that; an error may be
answered although it applied. Where the system may refuse to rename over a file
(`ReplaceRefused`) an operation in the middle of taking effect may, with an error or a
kill, take the table away.

`ProfileStore` has a step per call of the file system: `lock`, `load` (with the change in
memory), `create` and `fill` (the two halves of `fs::write`), `rename`, `remove`,
`retry`, `finish`. A kill (`Crash`) may fall between any two, clears the lock and what is
in memory, and leaves the files. The refinement maps the table to `View`: the file, or, while it is
removed and about to be replaced, the one beside it. Profiles are reduced to what different threads
write: mode, exit address, shared login. Left out: the rewrite of a file of an older
format that still holds passwords, the order and names of profiles.

### OpenVpnService

The main thread runs one request or posted runnable at a time; `main.pc` is where it is
between two critical sections. `beginProfile` is `begin` (mUUID), `halt` (signal the
thread before), `launch` (the join has returned, because the thread ended or because three
seconds passed: any delay is possible) and then `ask`/`connecting` for what its callers
do. `stopVPN` is `signal` and `stopped`, on the main or on a binder thread. `exits`
counts posted `onVpnThreadExited`. `thr[i]` is a VPN thread: `new`, `created`, `login`
(with any number of forms), `auth`, `cstp`, `report`, `up`, `alert` (the error dialog, until the user
closes it), `end`, `exit`, `done`; `stop` is `mRequestDisconnect` together with the cancel. Abstractions: the three states
of authentication are one; a start without UUID is a start of `mUUID`; the user
may delete the profiles of `Deletable` between any two handlers (`Delete`; `known` is what
`ProfileManager` still finds); messages stay until replaced; the
destruction of the service (`stopSelf`, start ids) is left out, so the model goes on
where a new instance would begin.

`ProfileSwitch` is what is left of it for the user: a switch goes `forth`, back because it
failed or because he asked, and ends when a session comes up, when it fails or when he
disconnects. Threads, joins, posted runnables and the binder thread are hidden. In the
refinement `stage` is read off the flags of `switch` (`Stage`), `next` is the profile a
handler has taken up and `beginProfile` has not stored yet (`AboutToBegin`), `requests`
and `stops` are the bounded counters of the model.

### Mainloop and PauseResume

`Mainloop` is the part of libopenconnect that commands reach: `pipe` is the command
pipe, `gotCancel` and `gotPause` the flags `check_cmd_fd` sets, `conn` whether there is
a TLS connection. `pc` is where the thread that runs the library is; a byte is read in
every wait for the network (`WaitSees`, `RetrySees`) and once in each pass of
`openconnect_mainloop` (`Poll`), which alone acts on the flags. `Tcp` is what a pass may
find: the connection serves, is lost, or the server ends the session.

| pc | code |
|---|---|
| new, created | `runVPN` before and after `mOC` is made |
| cookie, form, cstp, tun | `obtainCookie` with its forms, `makeCSTPConnection`, the tun device |
| tcp, retry, poll, sleep | `openconnect_mainloop`: `cstp_mainloop`, `ssl_reconnect`, the end of a pass, `select` |
| after, wait, woken | the section of `runVPN` after the main loop, and the wait in it |
| nocookie, nocstp | `obtainCookie` or `makeCSTPConnection` has failed |
| alert | `errorAlert`: blocked in `promptUser` until the user closes the dialog, stop or no stop |
| end, done | the way out of `run()` |

`PauseResume` extends it with the calls other threads make under `mMainloopLock`
(`Pause`, `Resume`, `Reconnect`, `RequestStats`, `Stop`), the receiver `rcv`
(`updatePauseState` is part of each of its events) and the alarm and query of `KeepAlive`
(`ka`). Each event of the main thread enters the lock at most once, so it is one step. A
session is followed from the launch of its thread. Abstractions: the tunnel is CSTP alone
(`use_dtls` is off by default; `delay_close` is set by PPP alone); transports
are WiFi and mobile; the pipe (64 K) never fills; spurious wake-ups of Java's `wait` are
left out (the loop around it makes them harmless); the wake lock is left out.

### HeldSession

What those who pause, resume and stop an Android session may rely on: it comes up, is held
only while it is to be held, never after it was told to end, does not go back to the login
and does not end while it is held. `hold` and `told` are `mRequestPause` and `mRequestDisconnect`; `Phase` maps
the place of the VPN thread: up to the tunnel it is "coming", in `openconnect_mainloop`
and after it "up", in the wait of `runVPN` "held" (or "up" once the request is gone), on
the way out "leaving", then "over". The pipe, the flags of the library and the connections made anew
are what the abstract specification does not see.

### Timers

`last_rx`, `last_tx`, `last_dpd`, `last_rekey` are `ssl_times`; `pkt` is `current_ssl_pkt`,
`owe` is `owe_ssl_dpd_response`, `readable` what the last `select` said (`tcp_r`), and `dues` the
deadlines `ka_check_deadline` has met on this pass, of which the least bounds the sleep. `pc` is where
the loop is:

| pc | code |
|---|---|
| pass, write | `cstp_mainloop`: reading (`OC/cstp.c` 960-1078), and the write of the packet in hand (1085-1134) |
| stalled, judge | `ka_stalled_action`, `keepalive_action` (`OC/mainloop.c` 409-515) and what is done for their result |
| dead, handshake, reconnect | `peer_dead`; `cstp_handshake` for a new key; `ssl_reconnect` |
| return, sleep, gone | `openconnect_mainloop` has the result; `select`; the loop is over |

Time advances by `Tick`. While the loop sleeps it is free until a deadline of `dues` or
something to read wakes the loop, and so it is in a handshake or a reconnect; everywhere else, and
from the wake-up on, it is counted in `late`, of which the loop may lose `Delay` seconds between two looks at the
timers. A peer that lives has something to read in the socket at the latest `Answer`
seconds after the first probe. `asked`, `probes`, `hindered` and `back` are history. Assumed:
the server sends the same timer values with each connection; time does not jump. Left out: packets of an
unexpected length, which are skipped; the queue (there is something to send or there is not);
commands (`Mainloop`); DTLS, which carries the data while it is up and has timers of its own.

## 3. What the runs check

| Run | Instance | States | Shows |
|---|---|---|---|
| `win_session` | 2 sessions, 1 switch, 1 disconnect, lookups of the first session, fair | 1.2 M | `ConnectedIsBacked`, `ConnectingIsBacked`, `GapHidesExit`, `LoneStatusExact`, `LonePipeExact`, `TypeOK` in every interleaving; `CancelEndsSession`: a cancel that reached a socket ends the session |
| `win_gap` | 1 session, 1 switch, lookups on | – | finding: `GapStaysHidden` fails |
| `win_late_end` | 2 sessions, 1 disconnect | – | finding: `LateEndSparesNewer` fails |
| `win_login` | 2 sessions (symmetric), 2 profiles, 2 passwords, 5 messages and `OpenError`, a buffer of 7 bytes | 1.0 M | `FreshDetail`, `LoneUnreachedKeeps`, `RefusedForgotten`, `SavedResolves`, `TypeOK` |
| `login_forgets` | the same | – | finding: `UnreachedKeepsLogin` fails |
| `profile_store` | 2 profiles, 3 threads, 1 kill | 257 K | `NeverTorn`, the refinement of `ProfileTable`, `TypeOK` |
| `esp_rekey` | W 2, grace 1, 5 numbers, 3 keys | 1.1 M | `NoReplay` and `BacklogExact` over rekeys, failed set-ups, wrap and the signed comparison, and the refinement of `AntiReplay`: every decision of the bitmap is that of the full set |
| `svc_session` | 2 profiles, 2 requests, 1 stop, 4 threads, one profile may be deleted, fair | 729 K | `OneLiveThread`, `StateIsBacked`, `SwitchIsAttended`, `ComesToRest`, `TypeOK`, and the refinement of `ProfileSwitch` |
| `svc_stop` | as `svc_session` | – | finding: `DisconnectStands` fails |
| `pause_session` | 4 events, 1 stop, reconnect on a change of network, fair | 170 K | `CancelNotLost`, `PauseNotLost`, `NoLostWakeup`, `RunsWhenWanted`, `KeepaliveInStep`, `CancelEnds`, `PauseTakesHold`, `TypeOK`, and the refinement of `HeldSession` |
| `pause_reaches` | the same | – | finding: `PauseReachesSession` fails |
| `cstp_timers` | dpd 3, keepalive 2, rekey 8, delay 1, answer 1, 11 seconds | 4.7 M | `DeathInTime`, `DeadIsDead`, `RekeyInTime`, `NeverSilent`, `NoProbeStorm`, `TypeOK` |

Bounds, and why they are enough:

* Two sessions are what it takes for one to be late for the other, one switch and one
  disconnect for a request to be overtaken. The lookups of the first session are late for both
  the gap and the session after it; with those of both sessions the run is too long, and they are
  left to the proofs. Symmetry is not used: the two profiles differ.
* A window of two has the gaps 0, 1, W and beyond, all four code paths of
  `verify_packet_seqno`; with five numbers the age wraps after the third packet; three keys
  put both contexts through a second life.
* Two logins are what it takes for one to hear the other's words or to write what the other
  deletes; one password is good and one is not, and each is found in the profile's file, in
  the domain's or in both. A buffer of seven bytes cuts messages of six to eight bytes
  before, between and inside characters. Sessions are alike, so they are permuted.
* Three threads of the profile store are one of each kind (main, worker, geo); one kill meets every point of
  a save, and the two loads and saves of two operations every order.
* A request begins at most one thread and allows at most one fall-back or abort, so four
  threads never run out for two requests; `Launch` is never held back by its bound there.
  Either profile may be the old one or the new one, so it is enough that one of them may be deleted. A
  new target for an open switch takes a third request, and is left to the proof.
* Four events make a pause, a resume, a reconnect and a pause again, or an alarm in the
  middle of a pause: more bytes than the loop reads in a pass, with a stop before, between
  or behind them. Connections may be lost and refused without bound.
* A dpd of 3 has a half that is rounded down, and is the least for which a live peer has the time to
  answer (`Answer + 2 * Delay`), so `DeadIsDead` is not void. Keepalive is due before the probe, and the
  rekey after the latest death, which begins at 7 and is noticed by 9; 11 seconds let every bound be passed by one. Each
  bound is tight: a peer is given up in the very last second allowed, and probed four times.
* The proofs remove the bounds for all safety properties of the passing runs.

Deadlock is not checked: the programs may rest for ever when the user does nothing
(and the bounds stop the requests).

Fairness, assumed only for liveness:

* `win_session`: each worker is scheduled, but `obtain_cookie`, `make_cstp` and the main
  loop wait for the network and are sure to return only once their command socket holds
  a cancel. The library polls that socket in every such wait.
* `svc_session`: the main thread goes on with what it has begun or was posted (the only
  wait in it is the join, with a time-out); a VPN thread goes on once it was told to stop
  or has nothing to wait for, except in an authentication form and in the error dialog, which the
  stop does not take from the screen: `ComesToRest` therefore excuses a thread in `login` or `alert`.
* `pause_session`: the VPN thread runs on (`VpnProgress`), but a wait for the network and
  `select` are sure to end only when the pipe holds a byte, which each of them watches; a
  form and the error dialog may stay before the user for ever, so `CancelEnds` and
  `PauseTakesHold` excuse them: `Form` and `Dismiss` are no part of `VpnProgress`.
  Nothing is assumed of the main thread, the network or the query of `KeepAlive`.

## 4. What is proved

All theorems hold for every value of the constants under the `ASSUME` of the module.

**WinSessionProofs.** `Inductive`, and from it `TypeCorrect`, `ConnectedBacked`,
`ConnectingBacked`, `ExitHidden`, `LoneStatus`, `LonePipe`. The invariants are not inductive by
themselves: a new session could start in a slot already used (`FreshSlots`), a switch
could have no slot for its thread or no profile (`SwitchRoom`, `SwitchTargets`), a
lookup could belong to a session without a profile (`SpawnedHaveProfile`), and one could write in
the gap if the status there were Connected (`GapIdle`). For a session that began alone one must know that
nobody else comes up beside it (`Solo`), that no switch thread is left to write Error or to connect
(`Quiet`), where a session has a socket (`SocketInUse`, `PipeOwned`), and that an error is
always on its way to be reported (`ErrOnWayOut`). One lemma per
actor (`MainStep`, `SwitchStep`, `WorkerStep`, `GeoStep`), each action a case, on top of
lemmas about what `Connect`, `Go`, `Fail` and the cancel do.

**EspReceiveProofs.** `TypeCorrect`, `Backlog`, `Replay` and `Refinement`
(`Spec => AR!Spec`). The core are lemmas about one context: `AgeValue` (the 32-bit
difference), `NewIsMayPass` (the bitmap decides as the set does), `AdvanceExact` and
`NoteExact` (the bitmap stays exact after a shift or a cleared bit). The inductive
invariant adds `KeysKnown` (only negotiated keys are in contexts, and a key not yet
negotiated has no accepted packets) and `SpisDistinct` (the contexts never share an
SPI), which is what keeps a failed set-up from opening a second window over one key.
`Grace` and `MaxSeq` play no part: safety does not depend on when the old keys expire.

**WinLoginProofs.** `Inductive`, and from it `TypeCorrect`, `FreshDetailHolds`,
`LoneUnreachedKeepsHolds`, `RefusedForgottenHolds` and the action property
`SavedResolvesHolds`, for any sessions, profiles, passwords and messages. The
strengthening follows a session from its beginning: `Overlap` (it knows all that live
beside it), `Heard` (what `auth_detail` may hold while it may still come to take it), `Taken` (what
follows for the judgement), `Forgotten` (what has been removed of a refused login) and
`Saved` (how far a login has come with being saved). `OthersStand` is the heart: a step of
one session keeps all this true of the others, because they have it beside them and
because nobody writes a password that the server does not know. `Overlap` is what makes
`beside[i] = {}` a real exclusion. Each step of a worker is then a lemma about its own session only.

**ProfileStoreProofs.** `TypeCorrect`, `NeverTornHolds` and `StoreImplementsTable`
(`Spec => Table!Spec`), for any number of profiles, threads and kills. The inductive
invariant says that the lock is held by whoever is inside (`LockHeld`), that the file about to be
renamed is the one that thread filled (`TmpFull`), and that what it is about to save is
the file as it still stands, changed by its operation (`Prepared`): so the step that
renames or removes is the moment at which the operation takes effect.

**OpenVpnServiceProofs.** `Inductive`, and from it `TypeCorrect`, `OneLive`,
`StateBacked`, `SwitchAttended`. The strengthening says what the main thread may rely on
half way through a handler although others took the lock in between: `Launchable` (when
it launches, the thread before has been stopped), `Launched` (after that the service has
a thread or has been told of its end), `Closed` (while it stops or gives up no switch is
open), `Named` (a switch has two profiles) and `Numbered` (threads are numbered in order,
and the one listened to runs). `ServiceImplementsSwitch` (`Spec => PS!Spec`) adds `Told`: no
switch is open while a disconnect stands, and a closed one keeps no profiles. One lemma per
kind of step (a state shown, a stop, a thread ended, a request, an abort) names the step of `ProfileSwitch`
it is; that a switch cannot fail unless it went back first is what the guard of `onVpnThreadExited` comes to
once `Told` rules out the disconnect and `Named` a switch without an old profile.

**PauseResumeProofs.** `Inductive`, and from it `TypeCorrect`, `NoStopLost`,
`NoPauseLost`, `Wakes`, `HeldAsWanted`, `KeepaliveSteps`, for any number of events and any
length of the pipe. Lemmas about the pipe come first (`SendKeeps`, `ReadKeeps`,
`CheckKeeps`: a byte is written behind the others, and reading one leaves the others or
sets its flag). `Calls` is what holds between the VPN thread and its callers; it needs
`StopClears` (a stop takes back the pause, so a thread sent round the main loop to be
stopped leaves no pause that nobody would see) and `Fresh` (no pause stands before the
library exists). The receiver is then one lemma, `UpdateStep`: whatever the event, the
session is held only if `rcv.paused` says so afterwards. `SessionImplementsHeld`
(`Spec => Held!Spec`) takes the same invariant: one lemma for each group of actions says
which step of `HeldSession` it is, or that `Phase` and the two requests stay. What carries it is that the
wait of `runVPN` is left by a stop or a resume in that same step, whoever calls, and that a thread is never found waiting
for a pause that was taken back.

**TimersProofs.** `Inductive`, and from it `TypeCorrect`, `DiesInTime`, `DeadWasDead`,
`RekeysInTime`, `HeardOf` and `FewProbes`, for any intervals, any delay and any length of
time. The invariants speak of the present second, and a sleep may last long: so the
strengthening says what the loop knows when it goes to sleep, that every deadline
that matters is in `dues` (`Noted`), and from it that whatever is due is late by no more than the loop has lost
(`OnTime`). `Probing` and `Rationed` account for the probes: each is half a period after
the one before and none is sent to a peer that is overdue, so with the last one half a period before
the end at most four fit in. `Answered` and `Dead` are for `DeadIsDead`: a peer that lives had the time to
answer the first probe, so that its answer was in the socket when the loop last woke, and is read before the peer is judged. One lemma per
action, on top of a few facts about halves and sums.

**Only model-checked.** The liveness properties `CancelEndsSession`, `ComesToRest`,
`CancelEnds` and `PauseTakesHold` (liveness under fairness is beyond the prover), and the
five violations; and the trampoline against its reference (`TrampolineCuts` in
`MCWinLogin`), for all messages of up to five characters. No module declares a RECURSIVE operator; nothing here computes over data
by induction.

## 5. Disagreements found

1. `win_late_end`: the clean-up of a late session spares a newer one that is Connecting,
   as `WV/session.rs:149-150` says, but wipes the status of one already Connected.
2. `win_gap`: "Do not look up or keep the previous exit IP as "ours" during the gap"
   (`WV/openconnect.rs:113`), and a disconnect is to "abort geo — never probe while down"
   (line 148). But a worker past its set-up reports Connected over the Disconnecting
   (`WV/session.rs:347`), takes a fresh epoch, and its lookup shows the exit address before the
   next connect. `GapHidesExit` is what does hold.
3. `login_forgets`: "HTTPS open failures happen BEFORE the server can ask for a password"
   (`WV/session.rs:275`), and such a failure is to keep the saved password. But the failure is told by
   `auth_detail`, which all sessions share: disconnect, connect again, and what the old
   session still says, or the empty string it leaves, makes the new one delete it.
   `LoneUnreachedKeeps` is what does hold.
4. `svc_stop`: a disconnect on a binder thread between the first section of a request and
   the launch of its thread is lost: the session is begun while `mUserAbort` stands.
5. `pause_reaches`: a pause asked for before the library object exists is dropped
   (`OpenConnectManagementThread.java:995`), but `DeviceStateReceiver` takes it for made:
   a session whose screen goes off in its first moments comes up and runs on, although
   the setting says "Pause the connection when the screen is off" (`strings.xml:116`).

More are in the models, but have no run of their own, since no
property can be kept of them where sessions overlap. An error before `vpninfo_new` leaves a Disconnecting
standing (`WV/openconnect.rs:222`). The error of an old session (line 221), or of a switch whose `connect()` was refused
(line 134), is written over a newer session that is coming up or up. A switch decides on a status that may have changed
when it writes Disconnecting (line 88). The late store of `CMD_PIPE` by an old session takes a newer one's socket away, and
before that store the number it holds is closed (`WV/session.rs:143-147`): a cancel then goes to nobody, or to whatever
got that number since. A lookup that passed its check before a disconnect writes its address into a newer session of the same
profile. A failed removal of a secret is not noticed (`WV/persist.rs:16`), and the old password goes on
being found: `SavedResolves` and `RefusedForgotten` assume that files can be removed. A message that
is cut inside a character is lost whole (`native/oc_progress_shim.c:12`), and with it the line by which a failure is judged. The old keys of
ESP stay good without limit, or are refused at once, near 2^31 and 2^32 (`OC/esp.c:489`). A lookup passes its guard after the main loop has taken the tunnel
down and before the status says so, and probes on the real address, which `WV/geo.rs:9-10`
says it does not. And `disconnect` means to cancel a pending switch
(`WV/openconnect.rs:147`), but the switch thread calls `connect()` in a step after its last look at
the generation. An abort whose old profile has been deleted begins nothing and does not stop
the new thread (`CO/OpenVpnService.java:1012-1027`); when that one comes up the user is told that the switch
was aborted. A profile asked for while the Android service falls back is named, when it comes up, both as the
one that could not be reached and as the one returned to (`CO/OpenVpnService.java:993`, `strings.xml:238`). And with
a dpd of one second half a period is none: a second later the loop sends probe after
probe without reading in between until the peer counts as dead, although "don't flood" is
what `OC/mainloop.c:473` is for. `OC/library.c:1121` keeps the user from such a setting,
but the server's is taken as it is (`OC/cstp.c:548-551`): hence the `Dpd # 1` of `NoProbeStorm`.

Contained in the models and promised nowhere, hence no property: an Android session told to stop stays
while a form or the error dialog is before the user (`CO/OpenConnectManagementThread.java:822`); a login without a
password that the server lets in by other means marks the profile as saved; a refused
password is sent again to every form that asks for it before the login fails; a disconnect before
`CMD_PIPE` is stored reaches nobody; a switch whose wait times out leaves the status
Disconnecting; an Android session that comes up after a switch was opened, and before its
thread is stopped, closes that switch; a pause, or a reconnect for a change of network,
that arrives during login ends the attempt; a silent peer is given up as late as half a
period after twice dpd, because its end is no deadline of the sleep; a rekey by handshake that succeeds does not count as
having heard the peer; a pass that follows another without a sleep does not look whether there is
something to read, and may take for dead a peer whose answer is in the socket; an answer to a keepalive query that arrives
after `stop()` sets one more alarm, which finds nobody.

## 6. Not modelled

Presentation, parsing, symbol loading, vendored token code, file transfers; settings and
backup on Windows, which one thread loads and saves. Of the
modelled components: the Windows mock backend; two writers of one secret's file, which
share the name of the file they write beside it (`WV/paths.rs:69`) and no lock; the older
formats of profiles and secrets; ESP sending and the probes that bring ESP
up; the destruction of the Android service, the dialog slot, the geo lookup on Android; DTLS with its
timers, and the packet queues of the main loop.
Reasons are in the notes of `PROJECT.json`.

## 7. Plan

| # | Module(s) | Models | Properties and theorems | State |
|---|---|---|---|---|
| 1 | `WinSession` | Windows runtime | backed states, cancel, exit address; proved | done |
| 2 | `AntiReplay`, `EspReceive` | ESP receiver and its abstract window | refinement, no replay; proved | done |
| 3 | `ProfileSwitch`, `OpenVpnService` | Android service and thread life | one live thread, backed state, attended switch, refinement of `ProfileSwitch`; proved | done |
| 4 | `Mainloop`, `PauseResume` | command pipe, cancel, pause and reconnect; `DeviceStateReceiver`, `KeepAlive`, the wait of the VPN thread | no command lost, no wake-up missed, held only as wanted, refinement of `HeldSession`; proved | done |
| 5 | `Tunnel` (extends `Mainloop`) | `dtls.c` states and the queue shared by CSTP and DTLS, rekey and reconnect of both | no packet kept by a closed channel; no data over a channel not yet up | next |
| 6 | `Timers` | `keepalive_action` and `ka_stalled_action` of `mainloop.c` as `cstp.c` uses them | a dead peer is noticed in bounded time and a live one is not given up; keys in time; no silence; no probe storm; proved | done |
| 7 | `Ppp` | LCP/IPCP negotiation of `ppp.c` over a lossy link, `delay_close` | agreement, termination of negotiation; a cancel still acted on after a delayed close | |
| 8 | `ProfileTable`, `ProfileStore` | `profile.rs`, `paths.rs`: lock, save, refused rename, kill | refinement, no torn file; proved | done |
| 9 | `Progress`, `WinLogin` | the C shim, `auth_detail`, saved logins | fresh judgement, nothing lost unsent, nothing refused kept, saved is found; proved | done |
| 10 | `Prompts` | dialog slot, forms, deferred preferences, geo on Android; `ProfileManager` | each prompt gets its own answer | |

Composition: `PauseResume` already contains `Mainloop`; 5 extends it, and may take the timers of
6 for those of DTLS. 4 with 3 through the VPN thread remains: a replaced thread, its receiver and the
next one. Theorems worth proving next: for 7 that both ends never believe in
different options, for 10 that a prompt is never answered with another's form.
