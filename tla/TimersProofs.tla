---------------------------- MODULE TimersProofs ----------------------------
(***************************************************************************)
(* What Timers promises, proved for all settings of the timers, every delay *)
(* of the loop and every speed of the peer.                                *)
(***************************************************************************)
EXTENDS Timers, TLAPS

\* The sleep ends by t.
DueBy(t) == \E d \in dues : d <= t

\* A packet is in hand while it is written; with none in hand no answer is owed.
InHand ==
    /\ pc \in {"write", "stalled"} => pkt # "none"
    /\ pc = "judge" => pkt = "none"
    /\ pc \in {"judge", "return", "sleep"} /\ pkt = "none" => ~owe
    /\ pc = "stalled" \/ (pc \in {"return", "sleep"} /\ pkt # "none") => hindered

\* Whoever returns to sleep has noted every deadline that matters.
Noted ==
    pc \in {"return", "sleep"} =>
        /\ Dpd > 0 => DueBy(Overdue + Half)
        /\ Rekey > 0 => DueBy(last_rekey + Rekey)
        /\ pkt = "none" =>
             /\ Keepalive > 0 => DueBy(last_tx + Keepalive)
             /\ Dpd > 0 /\ last_dpd <= last_rx => DueBy(last_rx + Dpd)

\* What may be lost of Delay: all of it where nothing more is waited for.
Slack == IF pc = "dead" THEN Delay ELSE late

OnTime ==
    pc \in Serving =>
        /\ Dpd > 0 => now <= Later(Overdue + Half) + Slack
        /\ Rekey > 0 => now <= Later(last_rekey + Rekey) + Slack
        /\ Keepalive > 0 /\ pkt = "none" => now <= Later(last_tx + Keepalive) + Slack

\* A probe that is out was sent, or is in hand, and is not of after the end.
Probing ==
    /\ now > 0
    /\ last_dpd <= Overdue
    /\ last_dpd > last_rx => asked # 0 \/ pkt = "probe"

\* Probes are half a period apart, and the last is before the end.
Rationed ==
    Dpd # 1 =>
        /\ probes = 0 => last_dpd <= last_rx
        /\ probes >= 1 => Dpd > 0 /\ last_dpd >= last_rx + Dpd
        /\ probes >= 2 => last_dpd >= last_rx + Dpd + Half
        /\ probes >= 3 => last_dpd >= last_rx + Dpd + 2 * Half
        /\ probes >= 4 => last_dpd >= last_rx + Dpd + 3 * Half
        /\ probes <= 4

\* A peer that lives and was not heard has been probed in time, and has time left.
InTouch == alive /\ ~unread /\ ~hindered /\ pc \in Serving /\ Dpd > 0

Answered ==
    Answer + 2 * Delay <= Dpd /\ InTouch =>
        IF asked # 0 THEN asked <= last_rx + Dpd + 2 * Delay /\ now <= asked + Answer
        ELSE IF pkt = "probe" THEN now <= last_rx + Dpd + Delay + late
                              ELSE now <= last_rx + Dpd + late

Dead == pc = "dead" /\ Answer + 2 * Delay <= Dpd => ~alive \/ unread \/ hindered

Inv == TypeOK /\ InHand /\ Noted /\ OnTime /\ Probing /\ Rationed /\ Answered /\ Dead

\* Half a period is half of dpd, rounded down.
LEMMA HalfIs == Half \in Nat /\ 2 * Half <= Dpd /\ Dpd <= 2 * Half + 1
  BY TimersAssumption DEF Half

LEMMA TimersAreTimes ==
  ASSUME TypeOK
  PROVE  /\ RekeyTimer \subseteq Nat /\ ProbeTimer \subseteq Nat
         /\ OverdueTimer \subseteq Nat /\ KeepaliveTimer \subseteq Nat
  <1>1. /\ last_rekey + Rekey \in Nat /\ Overdue \in Nat
        /\ last_tx + Keepalive \in Nat /\ ProbeAt \in Nat
    BY TimersAssumption, HalfIs DEF TypeOK, Overdue, ProbeAt
  <1> QED
    BY <1>1 DEF RekeyTimer, ProbeTimer, OverdueTimer, KeepaliveTimer

LEMMA OverIsLater ==
  ASSUME NEW n \in Nat, NEW t \in Nat, NEW s \in Nat
  PROVE  n <= (IF t > n THEN t ELSE n) + s
  OBVIOUS

\* The loop reads, writes, and looks at its timers.
LEMMA ReadStep == Inv /\ Read => Inv'
  <1> SUFFICES ASSUME TypeOK, InHand, Noted, OnTime, Probing, Rationed, Answered, Dead,
                      Read
               PROVE  Inv'
    BY DEF Inv
  <1>1. TypeOK'
    <2>1. pc' \in Pc
      BY DEF Pc, Serving, Working, Read, Proceed, Heard
    <2>2. /\ now' \in Nat /\ back' \in 0..now' /\ asked' \in 0..now'
          /\ last_rx' \in 0..now' /\ last_tx' \in 0..now'
          /\ last_dpd' \in 0..now' /\ last_rekey' \in 0..now'
      BY DEF TypeOK, Read, Proceed, Heard
    <2>3. pkt' \in {"none", "probe", "other"} /\ owe' \in BOOLEAN
      BY DEF TypeOK, Read, Proceed, Heard
    <2>4. dues' \subseteq Nat
      BY DEF TypeOK, Read, Proceed, Heard
    <2>5. late' \in 0..Delay /\ probes' \in Nat
      BY TimersAssumption DEF TypeOK, Read, Proceed, Heard
    <2>6. /\ readable' \in BOOLEAN
          /\ alive' \in BOOLEAN /\ unread' \in BOOLEAN /\ hindered' \in BOOLEAN
      BY DEF TypeOK, Read, Proceed, Heard
    <2> QED
      BY <2>1, <2>2, <2>3, <2>4, <2>5, <2>6 DEF TypeOK
  <1>2. InHand'
    BY DEF InHand, TypeOK, Read, Proceed
  <1>3. Noted'
    BY DEF Noted, Read, Proceed
  <1>4. OnTime'
    BY TimersAssumption, HalfIs DEF OnTime, Slack, Later, Overdue, TypeOK, Serving,
       Working, Read, Proceed, Heard
  <1>5. Probing'
    BY TimersAssumption DEF Probing, Overdue, TypeOK, Serving, Working, Read,
       Proceed, Heard
  <1>6. Rationed'
    BY TimersAssumption, HalfIs DEF Rationed, TypeOK, Serving, Working, Read,
       Proceed, Heard
  <1>7. Answered'
    BY TimersAssumption DEF Answered, InTouch, TypeOK, Serving, Working, Read,
       Proceed, Heard
  <1>8. Dead'
    BY DEF Dead, Read, Proceed
  <1> QED
    BY <1>1, <1>2, <1>3, <1>4, <1>5, <1>6, <1>7, <1>8 DEF Inv

LEMMA SentStep == Inv /\ Sent => Inv'
  <1> SUFFICES ASSUME TypeOK, InHand, Noted, OnTime, Probing, Rationed, Answered, Dead,
                      Sent
               PROVE  Inv'
    BY DEF Inv
  <1>1. TypeOK'
    <2>1. pc' \in Pc
      BY DEF Pc, Serving, Working, Sent, Proceed
    <2>2. /\ now' \in Nat /\ back' \in 0..now' /\ asked' \in 0..now'
          /\ last_rx' \in 0..now' /\ last_tx' \in 0..now'
          /\ last_dpd' \in 0..now' /\ last_rekey' \in 0..now'
      BY DEF TypeOK, Sent, Proceed
    <2>3. pkt' \in {"none", "probe", "other"} /\ owe' \in BOOLEAN
      BY DEF TypeOK, Sent, Proceed
    <2>4. dues' \subseteq Nat
      BY DEF TypeOK, Sent, Proceed
    <2>5. late' \in 0..Delay /\ probes' \in Nat
      BY TimersAssumption DEF TypeOK, Sent, Proceed
    <2>6. /\ readable' \in BOOLEAN
          /\ alive' \in BOOLEAN /\ unread' \in BOOLEAN /\ hindered' \in BOOLEAN
      BY DEF TypeOK, Sent, Proceed
    <2> QED
      BY <2>1, <2>2, <2>3, <2>4, <2>5, <2>6 DEF TypeOK
  <1>2. InHand'
    BY DEF InHand, TypeOK, Serving, Working, Sent, Proceed
  <1>3. Noted'
    BY DEF Noted, Sent, Proceed
  <1>4. OnTime'
    BY TimersAssumption, HalfIs DEF OnTime, Slack, Later, Overdue, TypeOK, Serving,
       Working, Sent, Proceed
  <1>5. Probing'
    BY TimersAssumption DEF Probing, Overdue, TypeOK, Serving, Working, InHand,
       Sent, Proceed
  <1>6. Rationed'
    BY TimersAssumption, HalfIs DEF Rationed, TypeOK, Serving, Working, Sent,
       Proceed
  <1>7. Answered'
    BY TimersAssumption DEF Answered, InTouch, TypeOK, Serving, Working, Sent,
       Proceed
  <1>8. Dead'
    BY DEF Dead, Sent, Proceed
  <1> QED
    BY <1>1, <1>2, <1>3, <1>4, <1>5, <1>6, <1>7, <1>8 DEF Inv

LEMMA StallsStep == Inv /\ Stalls => Inv'
  <1> SUFFICES ASSUME TypeOK, InHand, Noted, OnTime, Probing, Rationed, Answered, Dead,
                      Stalls
               PROVE  Inv'
    BY DEF Inv
  <1>1. TypeOK'
    BY TimersAssumption DEF TypeOK, Pc, Serving, Working, Stalls
  <1>2. InHand'
    BY DEF InHand, TypeOK, Serving, Working, Stalls
  <1>3. Noted'
    BY DEF Noted, Stalls
  <1>4. OnTime'
    BY TimersAssumption, HalfIs DEF OnTime, Slack, Later, Overdue, TypeOK, Serving,
       Working, Stalls
  <1>5. Probing'
    BY TimersAssumption DEF Probing, Overdue, TypeOK, Serving, Working, Stalls
  <1>6. Rationed'
    BY TimersAssumption, HalfIs DEF Rationed, TypeOK, Serving, Working, Stalls
  <1>7. Answered'
    BY TimersAssumption DEF Answered, InTouch, TypeOK, Serving, Working, Stalls
  <1>8. Dead'
    BY DEF Dead, Stalls
  <1> QED
    BY <1>1, <1>2, <1>3, <1>4, <1>5, <1>6, <1>7, <1>8 DEF Inv

\* The timers themselves: whatever is not done now was due no earlier, and bounds
\* the sleep.
LEMMA StalledActionStep == Inv /\ StalledAction => Inv'
  <1> SUFFICES ASSUME TypeOK, InHand, Noted, OnTime, Probing, Rationed, Answered, Dead,
                      StalledAction
               PROVE  Inv'
    BY DEF Inv
  <1>1. TypeOK'
    <2>1. pc' \in Pc
      BY DEF Pc, Serving, Working, StalledAction, DoRekey, Due, RekeyTimer, OverdueTimer
    <2>2. /\ now' \in Nat /\ back' \in 0..now' /\ asked' \in 0..now'
          /\ last_rx' \in 0..now' /\ last_tx' \in 0..now'
          /\ last_dpd' \in 0..now' /\ last_rekey' \in 0..now'
      BY DEF TypeOK, StalledAction, DoRekey, Due, RekeyTimer, OverdueTimer
    <2>3. pkt' \in {"none", "probe", "other"} /\ owe' \in BOOLEAN
      BY DEF TypeOK, StalledAction, DoRekey, Due, RekeyTimer, OverdueTimer
    <2>4. dues' \subseteq Nat
      BY TimersAreTimes DEF TypeOK, StalledAction, DoRekey
    <2>5. late' \in 0..Delay /\ probes' \in Nat
      BY TimersAssumption DEF TypeOK, StalledAction, DoRekey
    <2>6. /\ readable' \in BOOLEAN
          /\ alive' \in BOOLEAN /\ unread' \in BOOLEAN /\ hindered' \in BOOLEAN
      BY DEF TypeOK, StalledAction, DoRekey, Due, RekeyTimer, OverdueTimer
    <2> QED
      BY <2>1, <2>2, <2>3, <2>4, <2>5, <2>6 DEF TypeOK
  <1>2. InHand'
    BY TimersAssumption DEF InHand, TypeOK, Serving, Working, StalledAction,
       DoRekey, Due, RekeyTimer, OverdueTimer
  <1>3. Noted'
    BY TimersAssumption, HalfIs DEF Noted, DueBy, Overdue, TypeOK, Serving,
       Working, Probing, InHand, StalledAction, DoRekey, Due, RekeyTimer,
       OverdueTimer
  <1>4. OnTime'
    BY TimersAssumption, HalfIs DEF OnTime, Slack, Later, Overdue, TypeOK, Serving,
       Working, InHand, StalledAction, DoRekey, Due, RekeyTimer, OverdueTimer
  <1>5. Probing'
    BY TimersAssumption DEF Probing, Overdue, TypeOK, Serving, Working,
       StalledAction, DoRekey, Due, RekeyTimer, OverdueTimer
  <1>6. Rationed'
    BY TimersAssumption, HalfIs DEF Rationed, TypeOK, Serving, Working,
       StalledAction, DoRekey, Due, RekeyTimer, OverdueTimer
  <1>7. Answered'
    BY TimersAssumption DEF Answered, InTouch, TypeOK, Serving, Working, InHand,
       StalledAction, DoRekey, Due, RekeyTimer, OverdueTimer
  <1>8. Dead'
    BY TimersAssumption DEF Dead, Overdue, InHand, TypeOK, Serving, Working,
       StalledAction, DoRekey, Due, RekeyTimer, OverdueTimer
  <1> QED
    BY <1>1, <1>2, <1>3, <1>4, <1>5, <1>6, <1>7, <1>8 DEF Inv

LEMMA KeepaliveActionStep == Inv /\ KeepaliveAction => Inv'
  <1> SUFFICES ASSUME TypeOK, InHand, Noted, OnTime, Probing, Rationed, Answered, Dead,
                      KeepaliveAction
               PROVE  Inv'
    BY DEF Inv
  <1>1. TypeOK'
    <2>1. pc' \in Pc
      BY DEF Pc, Serving, Working, KeepaliveAction, DoRekey, RekeyTimer, ProbeTimer,
         KeepaliveTimer, ProbeAt, SendProbe, SendKeepalive, Serve
    <2>2. /\ now' \in Nat /\ back' \in 0..now' /\ asked' \in 0..now'
          /\ last_rx' \in 0..now' /\ last_tx' \in 0..now'
          /\ last_dpd' \in 0..now' /\ last_rekey' \in 0..now'
      BY DEF TypeOK, KeepaliveAction, DoRekey, RekeyTimer, ProbeTimer,
         KeepaliveTimer, ProbeAt, SendProbe, SendKeepalive, Serve
    <2>3. pkt' \in {"none", "probe", "other"} /\ owe' \in BOOLEAN
      BY DEF TypeOK, KeepaliveAction, DoRekey, RekeyTimer, ProbeTimer,
         KeepaliveTimer, ProbeAt, SendProbe, SendKeepalive, Serve
    <2>4. dues' \subseteq Nat
      BY TimersAreTimes DEF TypeOK, KeepaliveAction, DoRekey,
         SendProbe, SendKeepalive, Serve
    <2>5. late' \in 0..Delay /\ probes' \in Nat
      BY TimersAssumption DEF TypeOK, KeepaliveAction, DoRekey,
         SendProbe, SendKeepalive, Serve
    <2>6. /\ readable' \in BOOLEAN
          /\ alive' \in BOOLEAN /\ unread' \in BOOLEAN /\ hindered' \in BOOLEAN
      BY DEF TypeOK, KeepaliveAction, DoRekey, RekeyTimer, ProbeTimer,
         KeepaliveTimer, ProbeAt, SendProbe, SendKeepalive, Serve
    <2> QED
      BY <2>1, <2>2, <2>3, <2>4, <2>5, <2>6 DEF TypeOK
  <1>2. InHand'
    BY TimersAssumption DEF InHand, TypeOK, Serving, Working, KeepaliveAction,
       DoRekey, Due, RekeyTimer, ProbeTimer, KeepaliveTimer, ProbeAt, SendProbe,
       SendKeepalive, Serve
  <1>3. Noted'
    BY TimersAssumption, HalfIs DEF Noted, DueBy, Overdue, TypeOK, Serving,
       Working, Probing, InHand, KeepaliveAction, DoRekey, Due, RekeyTimer,
       ProbeTimer, KeepaliveTimer, ProbeAt, SendProbe, SendKeepalive, Serve
  <1>4. OnTime'
    BY TimersAssumption, HalfIs DEF OnTime, Slack, Later, Overdue, TypeOK, Serving,
       Working, InHand, KeepaliveAction, DoRekey, Due, RekeyTimer, ProbeTimer,
       KeepaliveTimer, ProbeAt, SendProbe, SendKeepalive, Serve
  <1>5. Probing'
    BY TimersAssumption DEF Probing, Overdue, TypeOK, Serving, Working, InHand,
       KeepaliveAction, DoRekey, Due, RekeyTimer, ProbeTimer, KeepaliveTimer,
       ProbeAt, SendProbe, SendKeepalive, Serve
  <1>6. Rationed'
    BY TimersAssumption, HalfIs DEF Rationed, TypeOK, Serving, Working, Probing,
       Overdue, KeepaliveAction, DoRekey, Due, RekeyTimer, ProbeTimer,
       KeepaliveTimer, ProbeAt, SendProbe, SendKeepalive, Serve
  <1>7. Answered'
    BY TimersAssumption DEF Answered, InTouch, TypeOK, Serving, Working, InHand,
       Probing, Overdue, KeepaliveAction, DoRekey, Due, RekeyTimer, ProbeTimer,
       KeepaliveTimer, ProbeAt, SendProbe, SendKeepalive, Serve
  <1>8. Dead'
    BY TimersAssumption DEF Dead, Overdue, Answered, InTouch, TypeOK, Serving,
       Working, InHand, KeepaliveAction, DoRekey, Due, RekeyTimer, ProbeTimer,
       KeepaliveTimer, ProbeAt, SendProbe, SendKeepalive, Serve
  <1> QED
    BY <1>1, <1>2, <1>3, <1>4, <1>5, <1>6, <1>7, <1>8 DEF Inv

\* A handshake and a new connection start the timers afresh, the first by excuse.
LEMMA HandshakeStep == Inv /\ Handshake => Inv'
  <1> SUFFICES ASSUME TypeOK, InHand, Noted, OnTime, Probing, Rationed, Answered, Dead,
                      Handshake
               PROVE  Inv'
    BY DEF Inv
  <1>1. TypeOK'
    <2>1. pc' \in Pc
      BY DEF Pc, Serving, Working, Handshake, times
    <2>2. /\ now' \in Nat /\ back' \in 0..now' /\ asked' \in 0..now'
          /\ last_rx' \in 0..now' /\ last_tx' \in 0..now'
          /\ last_dpd' \in 0..now' /\ last_rekey' \in 0..now'
      BY DEF TypeOK, Handshake, times
    <2>3. pkt' \in {"none", "probe", "other"} /\ owe' \in BOOLEAN
      BY DEF TypeOK, Handshake, times
    <2>4. dues' \subseteq Nat
      BY DEF TypeOK, Handshake, times
    <2>5. late' \in 0..Delay /\ probes' \in Nat
      BY TimersAssumption DEF TypeOK, Handshake, times
    <2>6. /\ readable' \in BOOLEAN
          /\ alive' \in BOOLEAN /\ unread' \in BOOLEAN /\ hindered' \in BOOLEAN
      BY DEF TypeOK, Handshake, times
    <2> QED
      BY <2>1, <2>2, <2>3, <2>4, <2>5, <2>6 DEF TypeOK
  <1>2. InHand'
    BY DEF InHand, TypeOK, Serving, Working, Handshake, times
  <1>3. Noted'
    BY DEF Noted, Handshake
  <1>4. OnTime'
    <2>1. CASE pc' = "pass"
      <3>1. now' = back' /\ back' \in Nat /\ late' \in Nat
        BY <2>1, TimersAssumption DEF Handshake, TypeOK
      <3>2. /\ Overdue' + Half \in Nat
            /\ last_rekey' + Rekey \in Nat /\ last_tx' + Keepalive \in Nat
        BY TimersAssumption, HalfIs DEF Overdue, TypeOK, Handshake, times
      <3> QED
        BY <2>1, <3>1, <3>2, OverIsLater DEF OnTime, Later, Slack
    <2>2. CASE pc' = "reconnect"
      BY <2>2 DEF OnTime, Serving, Working
    <2> QED
      BY <2>1, <2>2 DEF Handshake
  <1>5. Probing'
    BY TimersAssumption DEF Probing, Overdue, TypeOK, Serving, Working, Handshake,
       times
  <1>6. Rationed'
    BY TimersAssumption, HalfIs DEF Rationed, TypeOK, Serving, Working, Handshake,
       times
  <1>7. Answered'
    BY TimersAssumption DEF Answered, InTouch, TypeOK, Serving, Working, Handshake,
       times
  <1>8. Dead'
    BY DEF Dead, Handshake
  <1> QED
    BY <1>1, <1>2, <1>3, <1>4, <1>5, <1>6, <1>7, <1>8 DEF Inv

LEMMA ReconnectedStep == Inv /\ Reconnected => Inv'
  <1> SUFFICES ASSUME TypeOK, InHand, Noted, OnTime, Probing, Rationed, Answered, Dead,
                      Reconnected
               PROVE  Inv'
    BY DEF Inv
  <1>1. TypeOK'
    <2>1. pc' \in Pc
      BY DEF Pc, Serving, Working, Reconnected, Heard
    <2>2. /\ now' \in Nat /\ back' \in 0..now' /\ asked' \in 0..now'
          /\ last_rx' \in 0..now' /\ last_tx' \in 0..now'
          /\ last_dpd' \in 0..now' /\ last_rekey' \in 0..now'
      BY DEF TypeOK, Reconnected, Heard
    <2>3. pkt' \in {"none", "probe", "other"} /\ owe' \in BOOLEAN
      BY DEF TypeOK, Reconnected, Heard
    <2>4. dues' \subseteq Nat
      BY DEF TypeOK, Reconnected, Heard
    <2>5. late' \in 0..Delay /\ probes' \in Nat
      BY TimersAssumption DEF TypeOK, Reconnected, Heard
    <2>6. /\ readable' \in BOOLEAN
          /\ alive' \in BOOLEAN /\ unread' \in BOOLEAN /\ hindered' \in BOOLEAN
      BY DEF TypeOK, Reconnected, Heard
    <2> QED
      BY <2>1, <2>2, <2>3, <2>4, <2>5, <2>6 DEF TypeOK
  <1>2. InHand'
    BY DEF InHand, TypeOK, Serving, Working, Reconnected, Heard
  <1>3. Noted'
    BY DEF Noted, Reconnected
  <1>4. OnTime'
    BY TimersAssumption, HalfIs DEF OnTime, Slack, Later, Overdue, TypeOK, Serving,
       Working, Reconnected, Heard
  <1>5. Probing'
    BY TimersAssumption DEF Probing, Overdue, TypeOK, Serving, Working,
       Reconnected, Heard
  <1>6. Rationed'
    BY TimersAssumption, HalfIs DEF Rationed, TypeOK, Serving, Working,
       Reconnected, Heard
  <1>7. Answered'
    BY TimersAssumption DEF Answered, InTouch, TypeOK, Serving, Working,
       Reconnected, Heard
  <1>8. Dead'
    BY DEF Dead, Reconnected
  <1> QED
    BY <1>1, <1>2, <1>3, <1>4, <1>5, <1>6, <1>7, <1>8 DEF Inv

LEMMA PassesStep == Inv /\ (Again \/ Sleep \/ Wake) => Inv'
  <1> SUFFICES ASSUME TypeOK, InHand, Noted, OnTime, Probing, Rationed, Answered, Dead,
                      (Again \/ Sleep \/ Wake)
               PROVE  Inv'
    BY DEF Inv
  <1>1. TypeOK'
    BY DEF TypeOK, Pc, Serving, Working, Again, Sleep, Wake, times, hist
  <1>2. InHand'
    <2>1. CASE Again
      BY <2>1 DEF InHand, Again
    <2>2. CASE Sleep
      BY <2>2 DEF InHand, Sleep, hist
    <2>3. CASE Wake
      BY <2>3 DEF InHand, Wake
    <2> QED
      BY <2>1, <2>2, <2>3
  <1>3. Noted'
    BY TimersAssumption, HalfIs DEF Noted, DueBy, Overdue, Serving, Working, Again,
       Sleep, Wake, times, hist
  <1>4. OnTime'
    BY TimersAssumption, HalfIs DEF OnTime, Slack, Later, Overdue, TypeOK, Serving,
       Working, Again, Sleep, Wake, times, hist
  <1>5. Probing'
    BY TimersAssumption DEF Probing, Overdue, TypeOK, Serving, Working, Again,
       Sleep, Wake, times, hist
  <1>6. Rationed'
    BY TimersAssumption, HalfIs DEF Rationed, TypeOK, Serving, Working, Again,
       Sleep, Wake, times, hist
  <1>7. Answered'
    BY TimersAssumption DEF Answered, InTouch, TypeOK, Serving, Working, Again,
       Sleep, Wake, times, hist
  <1>8. Dead'
    BY DEF Dead, Again, Sleep, Wake
  <1> QED
    BY <1>1, <1>2, <1>3, <1>4, <1>5, <1>6, <1>7, <1>8 DEF Inv

\* Out of service nothing is promised.
LEMMA LeavesStep == Inv /\ (ReadFails \/ WriteFails \/ PeerDead \/ ReconnectFails) => Inv'
  <1> SUFFICES ASSUME TypeOK, InHand, Noted, OnTime, Probing, Rationed, Answered, Dead,
                      (ReadFails \/ WriteFails \/ PeerDead \/ ReconnectFails)
               PROVE  Inv'
    BY DEF Inv
  <1>1. TypeOK'
    <2>1. pc' \in Pc
      BY DEF Pc, Serving, Working, ReadFails, WriteFails, PeerDead, ReconnectFails, times, hist
    <2>2. /\ now' \in Nat /\ back' \in 0..now' /\ asked' \in 0..now'
          /\ last_rx' \in 0..now' /\ last_tx' \in 0..now'
          /\ last_dpd' \in 0..now' /\ last_rekey' \in 0..now'
      BY DEF TypeOK, ReadFails, WriteFails, PeerDead, ReconnectFails, times, hist
    <2>3. pkt' \in {"none", "probe", "other"} /\ owe' \in BOOLEAN
      BY DEF TypeOK, ReadFails, WriteFails, PeerDead, ReconnectFails, times, hist
    <2>4. dues' \subseteq Nat
      BY DEF TypeOK, ReadFails, WriteFails, PeerDead, ReconnectFails, times, hist
    <2>5. late' \in 0..Delay /\ probes' \in Nat
      BY TimersAssumption DEF TypeOK, ReadFails, WriteFails, PeerDead, ReconnectFails, times, hist
    <2>6. /\ readable' \in BOOLEAN
          /\ alive' \in BOOLEAN /\ unread' \in BOOLEAN /\ hindered' \in BOOLEAN
      BY DEF TypeOK, ReadFails, WriteFails, PeerDead, ReconnectFails, times, hist
    <2> QED
      BY <2>1, <2>2, <2>3, <2>4, <2>5, <2>6 DEF TypeOK
  <1>2. InHand'
    BY DEF InHand, ReadFails, WriteFails, PeerDead, ReconnectFails
  <1>3. Noted'
    BY DEF Noted, ReadFails, WriteFails, PeerDead, ReconnectFails
  <1>4. OnTime'
    BY DEF OnTime, Serving, Working, ReadFails, WriteFails, PeerDead,
       ReconnectFails
  <1>5. Probing'
    BY TimersAssumption DEF Probing, Overdue, TypeOK, Serving, Working, ReadFails,
       WriteFails, PeerDead, ReconnectFails, times, hist
  <1>6. Rationed'
    BY TimersAssumption, HalfIs DEF Rationed, TypeOK, Serving, Working, ReadFails,
       WriteFails, PeerDead, ReconnectFails, times, hist
  <1>7. Answered'
    BY DEF Answered, InTouch, Serving, Working, ReadFails, WriteFails, PeerDead,
       ReconnectFails
  <1>8. Dead'
    BY DEF Dead, ReadFails, WriteFails, PeerDead, ReconnectFails
  <1> QED
    BY <1>1, <1>2, <1>3, <1>4, <1>5, <1>6, <1>7, <1>8 DEF Inv

LEMMA PeerStep == Inv /\ (Arrives \/ Dies) => Inv'
  <1> SUFFICES ASSUME TypeOK, InHand, Noted, OnTime, Probing, Rationed, Answered, Dead,
                      (Arrives \/ Dies)
               PROVE  Inv'
    BY DEF Inv
  <1>1. TypeOK'
    BY DEF TypeOK, Pc, Serving, Working, Arrives, Dies, times, hist
  <1>2. InHand'
    BY DEF InHand, TypeOK, Serving, Working, Arrives, Dies, times, hist
  <1>3. Noted'
    BY TimersAssumption, HalfIs DEF Noted, DueBy, Overdue, Serving, Working,
       Arrives, Dies, times, hist
  <1>4. OnTime'
    BY TimersAssumption, HalfIs DEF OnTime, Slack, Later, Overdue, TypeOK, Serving,
       Working, Arrives, Dies, times, hist
  <1>5. Probing'
    BY TimersAssumption DEF Probing, Overdue, TypeOK, Serving, Working, Arrives,
       Dies, times, hist
  <1>6. Rationed'
    BY TimersAssumption, HalfIs DEF Rationed, TypeOK, Serving, Working, Arrives,
       Dies, times, hist
  <1>7. Answered'
    BY TimersAssumption DEF Answered, InTouch, TypeOK, Serving, Working, Arrives,
       Dies, times, hist
  <1>8. Dead'
    BY DEF Dead, Overdue, Serving, Working, Arrives, Dies, times, hist
  <1> QED
    BY <1>1, <1>2, <1>3, <1>4, <1>5, <1>6, <1>7, <1>8 DEF Inv

\* A second goes by: the loop's, out of Delay, or nobody's, and then none of the
\* deadlines noted has come.
LEMMA TickStep == Inv /\ Tick => Inv'
  <1> SUFFICES ASSUME TypeOK, InHand, Noted, OnTime, Probing, Rationed, Answered, Dead,
                      Tick
               PROVE  Inv'
    BY DEF Inv
  <1>1. TypeOK'
    BY TimersAssumption DEF TypeOK, Pc, Serving, Working, Tick, Idle, times, hist
  <1>2. InHand'
    BY TimersAssumption DEF InHand, TypeOK, Serving, Working, Tick, Idle, times,
       hist
  <1>3. Noted'
    BY TimersAssumption, HalfIs DEF Noted, DueBy, Overdue, Serving, Working, Tick,
       Idle, times, hist
  <1>4. OnTime'
    <2>1. CASE Idle
      <3>1. pc \in Serving => pc = "sleep" /\ \A t \in Nat : DueBy(t) => now' <= t
        BY <2>1 DEF Idle, Serving, Working, Tick, DueBy, TypeOK
      <3>2. /\ Overdue + Half \in Nat
            /\ last_rekey + Rekey \in Nat /\ last_tx + Keepalive \in Nat
        BY TimersAssumption, HalfIs DEF Overdue, TypeOK
      <3>3. \A t \in Nat : t <= Later(t)
        BY DEF Later, TypeOK
      <3>4. late \in Nat /\ \A t \in Nat : Later(t) \in Nat
        BY TimersAssumption DEF TypeOK, Later
      <3>5. UNCHANGED <<pc, last_rx, last_tx, last_rekey, pkt, late, back>> /\ now' \in Nat
        BY <2>1 DEF Tick, times, hist, TypeOK
      <3> QED
        BY <3>1, <3>2, <3>3, <3>4, <3>5 DEF OnTime, Noted, Slack, Later, Overdue
    <2>2. CASE ~Idle
      BY <2>2, TimersAssumption, HalfIs
         DEF OnTime, Slack, Later, Overdue, TypeOK, Tick, times, hist
    <2> QED
      BY <2>1, <2>2
  <1>5. Probing'
    BY TimersAssumption DEF Probing, Overdue, TypeOK, Serving, Working, Tick, Idle,
       times, hist
  <1>6. Rationed'
    BY TimersAssumption, HalfIs DEF Rationed, TypeOK, Serving, Working, Tick, Idle,
       times, hist
  <1>7. Answered'
    BY TimersAssumption DEF Answered, InTouch, TypeOK, Serving, Working, Noted,
       DueBy, Overdue, InHand, Probing, Tick, Idle, times, hist
  <1>8. Dead'
    BY TimersAssumption DEF Dead, Overdue, Serving, Working, Tick, Idle, times,
       hist
  <1> QED
    BY <1>1, <1>2, <1>3, <1>4, <1>5, <1>6, <1>7, <1>8 DEF Inv

LEMMA Begins == Init => Inv
  <1> SUFFICES ASSUME Init PROVE Inv
    OBVIOUS
  <1>1. TypeOK
    <2>1. late \in 0..Delay /\ probes \in Nat /\ dues \subseteq Nat
      BY TimersAssumption DEF Init
    <2>2. pc \in Pc
      BY DEF Init, Pc, Serving, Working
    <2>3. /\ now \in Nat /\ back \in 0..now /\ asked \in 0..now
          /\ last_rx \in 0..now /\ last_tx \in 0..now
          /\ last_dpd \in 0..now /\ last_rekey \in 0..now
      BY DEF Init
    <2> QED
      BY <2>1, <2>2, <2>3 DEF Init, TypeOK
  <1>2. OnTime
    BY TimersAssumption, HalfIs DEF Init, OnTime, Slack, Later, Overdue
  <1>3. Probing /\ Rationed /\ Answered
    BY TimersAssumption DEF Init, Probing, Overdue, Rationed, Answered
  <1>4. InHand /\ Noted /\ Dead
    BY DEF Init, InHand, Noted, Dead
  <1> QED
    BY <1>1, <1>2, <1>3, <1>4 DEF Inv

LEMMA StutterStep == Inv /\ UNCHANGED vars => Inv'
  BY DEF vars, times, hist, Inv, TypeOK, InHand, Noted, DueBy, OnTime, Slack, Later, Probing,
         Rationed, Answered, InTouch, Dead, Overdue

LEMMA NextStep == Inv /\ [Next]_vars => Inv'
  BY ReadStep, SentStep, StallsStep, StalledActionStep, KeepaliveActionStep, HandshakeStep,
     ReconnectedStep, PassesStep, LeavesStep, PeerStep, TickStep, StutterStep
     DEF Next, Loop

THEOREM Inductive == Spec => []Inv
  BY Begins, NextStep, PTL DEF Spec

\* Every field keeps its type; no instant noted is ahead of the clock.
THEOREM TypeCorrect == Spec => []TypeOK
  <1>1. Inv => TypeOK
    BY DEF Inv
  <1> QED
    BY <1>1, Inductive, PTL

\* Whatever the settings and the delay, a silent peer is given up within two and a
\* half periods of dpd.
THEOREM DiesInTime == Spec => []DeathInTime
  <1>1. Inv => DeathInTime
    <2> SUFFICES ASSUME Inv, Dpd > 0, pc \in Serving
                 PROVE  now <= Later(Overdue + Half) + Delay
      BY DEF DeathInTime
    <2>1. now <= Later(Overdue + Half) + Slack
      BY DEF Inv, OnTime
    <2>2. Overdue + Half \in Nat
      BY TimersAssumption, HalfIs DEF Inv, TypeOK, Overdue
    <2> QED
      BY <2>1, <2>2, TimersAssumption DEF Inv, TypeOK, Slack, Later
  <1> QED
    BY <1>1, Inductive, PTL

\* A peer that answers in time is never given up by peer_dead.
THEOREM DeadWasDead == Spec => []DeadIsDead
  <1>1. Inv => DeadIsDead
    BY DEF Inv, Dead, DeadIsDead
  <1> QED
    BY <1>1, Inductive, PTL

\* Keys are renewed in time, also while a packet is stuck.
THEOREM RekeysInTime == Spec => []RekeyInTime
  <1>1. Inv => RekeyInTime
    BY TimersAssumption DEF Inv, OnTime, TypeOK, Slack, Later, RekeyInTime
  <1> QED
    BY <1>1, Inductive, PTL

\* The client is heard of in time, and sleeps on no answer.
THEOREM HeardOf == Spec => []NeverSilent
  <1>1. Inv => NeverSilent
    BY TimersAssumption DEF Inv, OnTime, InHand, TypeOK, Slack, Later, NeverSilent
  <1> QED
    BY <1>1, Inductive, PTL

\* At most four probes go to a peer that is silent, for every dpd but 1.
THEOREM FewProbes == Spec => []NoProbeStorm
  <1>1. Inv => NoProbeStorm
    BY DEF Inv, Rationed, NoProbeStorm
  <1> QED
    BY <1>1, Inductive, PTL
=============================================================================
