------------------------------ MODULE Mainloop ------------------------------
(***************************************************************************)
(* How libopenconnect takes commands (ssl.c, mainloop.c, cstp.c): bytes in *)
(* a pipe that any thread may write, read by the one thread that runs the  *)
(* library, one at a time: in every wait for the network, and once in each *)
(* pass of the main loop.                                                  *)
(*                                                                         *)
(* The tunnel is CSTP.  What the loop carries, its timers and DTLS are left *)
(* out: the connection is up, or lost, or refused for good.  The variable  *)
(* pc is where that thread is; positions outside the library belong to its *)
(* caller.                                                                 *)
(***************************************************************************)
EXTENDS Naturals, Sequences

VARIABLES
    pc,          \* where the thread that runs the library is
    pipe,        \* the command pipe, from cmd_fd_write to cmd_fd
    gotCancel,   \* got_cancel_cmd
    gotPause,    \* got_pause_cmd
    conn         \* the TLS connection: ssl_fd is open

lib == <<pipe, gotCancel, gotPause, conn>>

Commands == {"x", "p", "s"}      \* OC_CMD_CANCEL, OC_CMD_PAUSE, OC_CMD_STATS

\* obtain_cookie, make_cstp_connection, and within the main loop: tcp_mainloop,
\* ssl_reconnect, the end of a pass, and select().
Waits  == {"cookie", "cstp", "retry"}
Loop   == {"tcp", "retry", "poll", "sleep"}

\* Where a call that failed leaves the thread.
Failed == [cookie |-> "nocookie", cstp |-> "nocstp", retry |-> "end"]

LibTypeOK ==
    /\ pipe \in Seq(Commands)
    /\ gotCancel \in BOOLEAN /\ gotPause \in BOOLEAN /\ conn \in BOOLEAN

LibInit ==
    /\ pipe = <<>>
    /\ gotCancel = FALSE /\ gotPause = FALSE /\ conn = FALSE

Send(c) == pipe' = Append(pipe, c)

Sent(c) == \E i \in 1..Len(pipe) : pipe[i] = c

\* Fault: all that is in the pipe is read, and the last byte counts.
CheckCmdAll ==
    IF pipe = <<>> THEN UNCHANGED <<pipe, gotCancel, gotPause>>
    ELSE /\ pipe' = <<>>
         /\ gotCancel' = (gotCancel \/ pipe[Len(pipe)] = "x")
         /\ gotPause' = (gotPause \/ pipe[Len(pipe)] = "p")

\* check_cmd_fd.
CheckCmd ==
    IF pipe = <<>> THEN UNCHANGED <<pipe, gotCancel, gotPause>>
    ELSE /\ pipe' = Tail(pipe)
         /\ gotCancel' = (gotCancel \/ Head(pipe) = "x")
         /\ gotPause' = (gotPause \/ Head(pipe) = "p")

(***************************************************************************)
(* The waits of a connection being made: a cancel or a pause ends them, and *)
(* with them obtain_cookie and make_cstp_connection.                       *)
(***************************************************************************)
WaitSees(there) ==
    /\ pc = there /\ pipe # <<>>
    /\ CheckCmd
    /\ pc' = IF gotCancel' \/ gotPause' THEN Failed[there] ELSE there
    /\ UNCHANGED conn

Connected(there, next) ==
    /\ pc = there
    /\ pc' = next
    /\ conn' = TRUE
    /\ UNCHANGED <<pipe, gotCancel, gotPause>>

Refused(there) ==
    /\ pc = there
    /\ pc' = Failed[there]
    /\ UNCHANGED lib

(***************************************************************************)
(* openconnect_mainloop.                                                   *)
(***************************************************************************)

\* tcp_mainloop on a connection: it serves it, finds it lost, or the server
\* ends the session.  Without one it reconnects.
Tcp ==
    /\ pc = "tcp"
    /\ \/ conn /\ pc' = "poll" /\ UNCHANGED conn
       \/ conn /\ pc' = "end" /\ UNCHANGED conn
       \/ pc' = "retry" /\ conn' = FALSE
    /\ UNCHANGED <<pipe, gotCancel, gotPause>>

\* Fault: the pause is taken for dealt with.
RetrySeesForgets ==
    /\ pc = "retry" /\ pipe # <<>>
    /\ pipe' = Tail(pipe)
    /\ gotCancel' = (gotCancel \/ Head(pipe) = "x")
    /\ UNCHANGED <<gotPause, conn>>
    /\ pc' = IF gotCancel' THEN "end" ELSE IF Head(pipe) = "p" THEN "poll" ELSE "retry"

\* ssl_reconnect, in tcp_connect or in the pause before the next attempt.  An
\* attempt that was interrupted may also have been the last one allowed.
RetrySees ==
    /\ pc = "retry" /\ pipe # <<>>
    /\ CheckCmd
    /\ IF gotCancel' THEN pc' = "end"
       ELSE IF gotPause' THEN pc' \in {"poll", "end"}
       ELSE pc' = "retry"
    /\ UNCHANGED conn

\* The end of a pass: a byte is read unless one waits to be dealt with; a
\* cancel leaves the loop, a pause closes the connection and returns.
Poll ==
    /\ pc = "poll"
    /\ LET pending == gotCancel \/ gotPause
           c  == IF pending \/ pipe = <<>> THEN "s" ELSE Head(pipe)
           cancel == gotCancel \/ c = "x"
           pause  == gotPause \/ c = "p"
       IN  /\ pipe' = IF pending \/ pipe = <<>> THEN pipe ELSE Tail(pipe)
           /\ gotCancel' = FALSE
           /\ gotPause' = (cancel /\ pause)
           /\ pc' = IF cancel THEN "end" ELSE IF pause THEN "after" ELSE "sleep"
           /\ conn' = (conn /\ (cancel \/ ~pause))

\* select() returns for the tunnel, the connection, a timer or a command.
Awake ==
    /\ pc = "sleep"
    /\ pc' = "tcp"
    /\ UNCHANGED lib

LibNext ==
    \/ WaitSees("cookie") \/ WaitSees("cstp")
    \/ Connected("cstp", "tun") \/ Connected("retry", "poll")
    \/ Refused("cookie") \/ Refused("cstp") \/ Refused("retry")
    \/ Tcp \/ RetrySees \/ Poll \/ Awake
=============================================================================
