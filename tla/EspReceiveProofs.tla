-------------------------- MODULE EspReceiveProofs --------------------------
(***************************************************************************)
(* Proofs about the ESP receiver for any window, any number space and any  *)
(* number of rekeys: the bitmap is exact, no packet passes twice, and the  *)
(* receiver implements AntiReplay.                                         *)
(***************************************************************************)
EXTENDS EspReceive, TLAPS

(***************************************************************************)
(* The window of one context, against the set of packets that passed.      *)
(***************************************************************************)

\* The difference in 32 bits is the difference, but for the whole number space.
LEMMA AgeValue ==
    ASSUME NEW e \in Esp, NEW s \in Seqs, s < e.seq
    PROVE  Age(e, s) = IF e.seq - s = SeqMod THEN 0 ELSE e.seq - s
<1> DEFINE x == e.seq - s
<1>1. x \in 1..SeqMod
  BY EspAssumption DEF Esp, Seqs
<1>2. CASE x = SeqMod
  <2>1. SeqMod % SeqMod = 0
    BY EspAssumption
  <2>2. QED
    BY <1>2, <2>1 DEF Age
<1>3. CASE x # SeqMod
  <2>1. x % SeqMod = x
    BY <1>1, <1>3, EspAssumption
  <2>2. QED
    BY <1>3, <2>1 DEF Age
<1>4. QED
  BY <1>2, <1>3

\* verify_packet_seqno lets through what the set of accepted packets would.
LEMMA NewIsMayPass ==
    ASSUME NEW e \in Esp, NEW got \in SUBSET Seqs, Exact(e, got), NEW s \in Seqs
    PROVE  New(e, s) <=> s \notin got /\ ~ \E t \in got : t > s + W
<1>1. /\ e.seq \in Nat /\ e.seq <= SeqMod /\ s \in Nat /\ s < SeqMod
      /\ W \in Nat /\ SeqMod \in Nat /\ SeqMod > W + 1
      /\ \A t \in got : t \in Nat /\ t < e.seq
  BY EspAssumption DEF Esp, Seqs, Exact
<1>2. CASE s >= e.seq
  BY <1>1, <1>2 DEF New
<1>3. CASE s < e.seq
  <2>1. e.seq - 1 \in got
    BY <1>1, <1>3 DEF Exact
  <2>2. Age(e, s) = IF e.seq - s = SeqMod THEN 0 ELSE e.seq - s
    BY <1>3, AgeValue
  <2>3. CASE e.seq - s > W + 1
    <3>1. e.seq - 1 > s + W
      BY <1>1, <2>3
    <3>2. Age(e, s) \notin 2..W + 1
      BY <1>1, <2>2, <2>3
    <3>3. QED
      BY <1>1, <1>3, <2>1, <3>1, <3>2 DEF New, Missing
  <2>4. CASE e.seq - s <= W + 1
    <3>1. ~ \E t \in got : t > s + W
      BY <1>1, <2>4
    <3>2. Age(e, s) = e.seq - s
      BY <1>1, <2>2, <2>4
    <3>3. CASE e.seq - s = 1
      <4>1. s = e.seq - 1
        BY <1>1, <3>3
      <4>2. QED
        BY <1>1, <1>3, <2>1, <3>2, <3>3, <4>1 DEF New, Missing
    <3>4. CASE e.seq - s # 1
      <4>1. /\ e.seq - s - 2 \in Bits
            /\ e.seq - 2 - (e.seq - s - 2) = s
            /\ (e.seq - s - 2) + 2 <= e.seq
            /\ e.seq - s \in 2..W + 1
        BY <1>1, <1>3, <2>4, <3>4 DEF Bits
      <4>2. e.seq - s - 2 \in e.backlog <=> s \notin got
        BY <4>1 DEF Exact
      <4>3. QED
        BY <1>1, <1>3, <3>1, <3>2, <4>1, <4>2 DEF New, Missing
    <3>5. QED
      BY <3>3, <3>4
  <2>5. QED
    BY <1>1, <2>3, <2>4
<1>4. QED
  BY <1>1, <1>2, <1>3

\* A packet not older than expected moves the window and keeps it exact.
LEMMA AdvanceExact ==
    ASSUME NEW e \in Esp, NEW got \in SUBSET Seqs, Exact(e, got), NEW s \in Seqs,
           s >= e.seq
    PROVE  Advance(e, s) \in Esp /\ Exact(Advance(e, s), got \cup {s})
<1> DEFINE f == Advance(e, s)
           d == s - e.seq
<1>1. /\ e.seq \in Nat /\ e.seq <= SeqMod /\ s \in Nat /\ s < SeqMod
      /\ W \in Nat /\ SeqMod \in Nat /\ d \in Nat /\ d + e.seq = s
      /\ \A t \in got : t \in Nat /\ t < e.seq
  BY EspAssumption DEF Esp, Seqs, Exact
<1>2. /\ f.spi = e.spi /\ f.key = e.key /\ f.seq = s + 1
      /\ f.backlog = IF d >= W THEN Bits
                     ELSE Shift(e.backlog, d + 1) \cup {b \in Bits : b < d}
  BY DEF Advance, Esp
<1>3. f.backlog \subseteq Bits
  BY <1>2 DEF Shift
<1>4. f \in Esp
  <2>1. ASSUME NEW B \in SUBSET Bits
        PROVE  [e EXCEPT !.seq = s + 1, !.backlog = B] \in Esp
    <3>1. s + 1 \in 0..SeqMod
      BY <1>1
    <3> DEFINE g == [e EXCEPT !.seq = s + 1]
    <3>2. g \in Esp
      BY <3>1 DEF Esp
    <3>3. [g EXCEPT !.backlog = B] \in Esp
      <4> HIDE DEF g
      <4>1. QED
        BY <3>2 DEF Esp
    <3>4. QED
      BY <3>3, Zenon
  <2>2. f = [e EXCEPT !.seq = s + 1, !.backlog = f.backlog]
    BY <1>2 DEF Advance
  <2>3. f.backlog \in SUBSET Bits
    BY <1>3
  <2> HIDE DEF f
  <2>4. QED
    BY <2>1, <2>2, <2>3
<1>5. \A t \in got \cup {s} : t < f.seq
  BY <1>1, <1>2
<1>6. f.seq > 0 => f.seq - 1 \in got \cup {s}
  BY <1>1, <1>2
<1>7. ASSUME NEW b \in Bits, b + 2 <= f.seq
      PROVE  b \in f.backlog <=> f.seq - 2 - b \notin got \cup {s}
  <2>1. /\ b \in Nat /\ b < W /\ f.seq - 2 - b = s - 1 - b /\ s - 1 - b >= 0
        /\ s - 1 - b # s
    BY <1>1, <1>2, <1>7 DEF Bits
  <2>2. CASE b < d
    <3>1. s - 1 - b >= e.seq
      BY <1>1, <2>1, <2>2
    <3>2. s - 1 - b \notin got
      BY <1>1, <2>1, <3>1
    <3>3. b \in f.backlog
      BY <1>2, <2>2
    <3>4. QED
      BY <2>1, <3>2, <3>3
  <2>3. CASE b = d
    <3>1. s - 1 - b = e.seq - 1 /\ e.seq > 0
      BY <1>1, <2>1, <2>3
    <3>2. s - 1 - b \in got
      BY <3>1 DEF Exact
    <3>3. b \notin f.backlog
      BY <1>1, <1>2, <2>1, <2>3 DEF Shift
    <3>4. QED
      BY <2>1, <3>2, <3>3
  <2>4. CASE b > d
    <3>1. /\ b - (d + 1) \in Bits /\ b >= d + 1
          /\ e.seq - 2 - (b - (d + 1)) = s - 1 - b
          /\ (b - (d + 1)) + 2 <= e.seq
      BY <1>1, <2>1, <2>4 DEF Bits
    <3>2. b - (d + 1) \in e.backlog <=> s - 1 - b \notin got
      BY <3>1 DEF Exact
    <3>3. b \in f.backlog <=> b - (d + 1) \in e.backlog
      BY <1>1, <1>2, <2>1, <2>4, <3>1 DEF Shift
    <3>4. QED
      BY <2>1, <3>2, <3>3
  <2>5. QED
    BY <1>1, <2>1, <2>2, <2>3, <2>4
<1>8. QED
  BY <1>4, <1>5, <1>6, <1>7 DEF Exact

\* What the check does to a context keeps it exact, whether the packet is
\* recorded as accepted because it is new or only because protection is off.
LEMMA NoteExact ==
    ASSUME NEW e \in Esp, NEW got \in SUBSET Seqs, Exact(e, got), NEW s \in Seqs
    PROVE  /\ Note(e, s) \in Esp
           /\ Note(e, s).spi = e.spi /\ Note(e, s).key = e.key
           /\ Exact(Note(e, s), got \cup {s})
           /\ ~New(e, s) => Exact(Note(e, s), got)
<1>1. /\ e.seq \in Nat /\ e.seq <= SeqMod /\ s \in Nat /\ s < SeqMod
      /\ W \in Nat /\ SeqMod \in Nat /\ SeqMod > W + 1
      /\ \A t \in got : t \in Nat /\ t < e.seq
  BY EspAssumption DEF Esp, Seqs, Exact
<1>2. CASE s >= e.seq
  <2>1. Note(e, s) = Advance(e, s) /\ New(e, s)
    BY <1>2 DEF Note, New
  <2>2. Advance(e, s).spi = e.spi /\ Advance(e, s).key = e.key
    BY DEF Advance, Esp
  <2>3. QED
    BY <1>2, <2>1, <2>2, AdvanceExact
<1>3. CASE s < e.seq /\ Missing(e, s)
  <2>1. Note(e, s) = [e EXCEPT !.backlog = @ \ {Age(e, s) - 2}] /\ New(e, s)
    BY <1>1, <1>3 DEF Note, New
  <2>2. Age(e, s) = e.seq - s /\ e.seq - s \in 2..W + 1
    BY <1>1, <1>3, AgeValue DEF Missing
  <2>3. /\ Note(e, s).seq = e.seq /\ Note(e, s).spi = e.spi /\ Note(e, s).key = e.key
        /\ Note(e, s).backlog = e.backlog \ {e.seq - s - 2}
        /\ Note(e, s) \in Esp
    BY <2>1, <2>2 DEF Esp
  <2>4. ASSUME NEW b \in Bits, b + 2 <= e.seq
        PROVE  b \in Note(e, s).backlog <=> e.seq - 2 - b \notin got \cup {s}
    <3>1. b \in Nat /\ (b = e.seq - s - 2 <=> e.seq - 2 - b = s)
      BY <1>1, <2>4 DEF Bits
    <3>2. b \in e.backlog <=> e.seq - 2 - b \notin got
      BY <2>4 DEF Exact
    <3>3. QED
      BY <2>3, <3>1, <3>2
  <2>5. e.seq - 1 \in got
    BY <1>1, <1>3 DEF Exact
  <2>6. QED
    BY <1>1, <1>3, <2>1, <2>3, <2>4, <2>5 DEF Exact
<1>4. CASE s < e.seq /\ ~Missing(e, s)
  <2>1. Note(e, s) = e /\ ~New(e, s)
    BY <1>1, <1>4 DEF Note, New
  <2>2. s \in got \/ \E t \in got : t > s + W
    BY <2>1, NewIsMayPass
  <2>3. CASE s \in got
    <3>1. got \cup {s} = got
      BY <2>3
    <3>2. QED
      BY <2>1, <3>1
  <2>4. CASE \E t \in got : t > s + W
    <3>1. s + W < e.seq - 1
      BY <1>1, <2>4
    <3>2. \A b \in Bits : b + 2 <= e.seq => e.seq - 2 - b # s
      BY <1>1, <3>1 DEF Bits
    <3>3. QED
      BY <1>4, <2>1, <3>2 DEF Exact
  <2>5. QED
    BY <2>2, <2>3, <2>4
<1>5. QED
  BY <1>1, <1>2, <1>3, <1>4

(***************************************************************************)
(* The two contexts together.                                              *)
(***************************************************************************)

\* A key not negotiated yet is in no context and has no packets.
KeysKnown ==
    /\ \A c \in Slots : ctx[c].spi <= nKeys /\ ctx[c].key <= nKeys
    /\ \A k \in Keys : k > nKeys => accepted[k] = {}

\* A packet is for one context at most.
SpisDistinct == ctx[0].spi = ctx[1].spi => ctx[0].spi = NoKey

\* The inductive invariant.
IInv == TypeOK /\ BacklogExact /\ KeysKnown /\ SpisDistinct /\ NoReplay

\* The program starts with no keys and nothing received.
LEMMA InitInv == Init => IInv
<1> SUFFICES ASSUME Init PROVE IInv
  OBVIOUS
<1>1. [spi |-> NoKey, key |-> NoKey, seq |-> 0, backlog |-> {}] \in Esp
  BY EspAssumption DEF Esp
<1>2. TypeOK
  BY <1>1, EspAssumption DEF Init, TypeOK, Slots, AR!NoVerdict
<1>3. BacklogExact
  BY DEF Init, BacklogExact, InUse
<1>4. KeysKnown /\ SpisDistinct /\ NoReplay
  BY DEF Init, KeysKnown, SpisDistinct, NoReplay, Slots, NoKey, Keys, AR!NoVerdict
<1>5. QED
  BY <1>2, <1>3, <1>4 DEF IInv

\* A packet: one context moves, exactly as the packet's key requires, and the
\* verdict is the one AntiReplay gives.
LEMMA ReceiveStep ==
    ASSUME IInv, NEW k \in Keys, NEW s \in Seqs, Receive(k, s)
    PROVE  IInv' /\ AR!Judge(k, s)
<1>1. PICK c \in Slots :
        /\ ctx[c].spi = k /\ ctx[c].key = k
        /\ ctx' = [ctx EXCEPT ![c] = Note(@, s)]
        /\ LET ok == New(ctx[c], s) \/ ~protect
           IN  /\ accepted' = [accepted EXCEPT ![k] = IF ok THEN @ \cup {s} ELSE @]
               /\ verdict' = [ok |-> ok, protect |-> protect,
                              again |-> AR!Again(k, s), late |-> AR!Late(k, s)]
        /\ UNCHANGED <<protect, cur, oldMax, nKeys>>
  BY DEF Receive, Selects
<1> DEFINE e == ctx[c]
           got == accepted[k]
           ok == New(e, s) \/ ~protect
<1>2. e \in Esp /\ got \in SUBSET Seqs /\ k # NoKey /\ protect \in BOOLEAN
  BY DEF IInv, TypeOK, Keys, NoKey
<1>3. Exact(e, got)
  BY <1>1, <1>2 DEF IInv, BacklogExact, InUse
<1>4. /\ Note(e, s) \in Esp
      /\ Note(e, s).spi = e.spi /\ Note(e, s).key = e.key
      /\ Exact(Note(e, s), got \cup {s})
      /\ ~New(e, s) => Exact(Note(e, s), got)
  BY <1>2, <1>3, NoteExact
<1>5. New(e, s) <=> ~AR!Again(k, s) /\ ~AR!Late(k, s)
  BY <1>2, <1>3, NewIsMayPass DEF AR!Again, AR!Late
<1>6. /\ accepted'[k] = (IF ok THEN got \cup {s} ELSE got)
      /\ \A j \in Keys : j # k => accepted'[j] = accepted[j]
      /\ accepted' \in [Keys -> SUBSET Seqs]
  BY <1>1, <1>2 DEF IInv, TypeOK
<1>7. /\ ctx' \in [Slots -> Esp]
      /\ ctx'[c] = Note(e, s)
      /\ \A d \in Slots : d # c => ctx'[d] = ctx[d]
  BY <1>1, <1>4 DEF IInv, TypeOK
<1>8. TypeOK'
  <2>1. verdict' \in [ok : BOOLEAN, protect : BOOLEAN, again : BOOLEAN, late : BOOLEAN]
    BY <1>1, <1>2 DEF AR!Again, AR!Late, New, Missing
  <2>2. QED
    BY <1>1, <1>6, <1>7, <2>1 DEF IInv, TypeOK
<1>9. BacklogExact'
  <2>1. ASSUME NEW d \in Slots, InUse(ctx'[d])
        PROVE  Exact(ctx'[d], accepted'[ctx'[d].key])
    <3>1. CASE d = c
      BY <1>1, <1>4, <1>6, <1>7, <3>1
    <3>2. CASE d # c
      <4>1. ctx'[d] = ctx[d] /\ ctx[d].key # NoKey /\ ctx[d].key = ctx[d].spi
        BY <1>7, <2>1, <3>2 DEF InUse
      <4>2. ctx[d].key # k
        BY <1>1, <1>2, <3>2, <4>1 DEF IInv, SpisDistinct, Slots
      <4>3. ctx[d].key \in Keys
        BY <4>1 DEF IInv, TypeOK, Esp
      <4>4. Exact(ctx[d], accepted[ctx[d].key])
        BY <4>1 DEF IInv, BacklogExact, InUse
      <4>5. QED
        BY <1>6, <4>1, <4>2, <4>3, <4>4
    <3>3. QED
      BY <3>1, <3>2
  <2>2. QED
    BY <2>1 DEF BacklogExact, InUse, Exact
<1>10. KeysKnown' /\ SpisDistinct'
  <2>1. ~(k > nKeys)
    BY <1>1, <1>2 DEF IInv, KeysKnown, TypeOK, Keys
  <2>2. \A d \in Slots : ctx'[d].spi = ctx[d].spi /\ ctx'[d].key = ctx[d].key
    BY <1>4, <1>7
  <2>3. QED
    BY <1>1, <1>6, <2>1, <2>2 DEF IInv, KeysKnown, SpisDistinct, Slots
<1>11. NoReplay'
  BY <1>1, <1>5 DEF NoReplay
<1>12. AR!Judge(k, s)
  <2>1. ok <=> (protect => AR!MayPass(k, s))
    BY <1>2, <1>5 DEF AR!MayPass
  <2>2. ok \in BOOLEAN /\ (protect => AR!MayPass(k, s)) \in BOOLEAN
    BY <1>2 DEF AR!MayPass, New, Missing
  <2>3. ok = (protect => AR!MayPass(k, s))
    BY <2>1, <2>2
  <2>4. QED
    BY <1>1, <2>3 DEF AR!Judge
<1>13. QED
  BY <1>8, <1>9, <1>10, <1>11, <1>12 DEF IInv

\* New keys, or half of them: the contexts change places, and the one made
\* current is empty under its new key, unusable, or as it was.
LEMMA SetupStep ==
    ASSUME IInv, SetupKeys
    PROVE  IInv' /\ AR!Configure
<1>1. PICK e \in Install(ctx[1 - cur], nKeys + 1) : ctx' = [ctx EXCEPT ![1 - cur] = e]
  BY DEF SetupKeys
<1> DEFINE k == nKeys + 1
           old == ctx[1 - cur]
<1>2. /\ cur \in Slots /\ 1 - cur \in Slots /\ old \in Esp
      /\ nKeys \in Nat /\ k \in Keys /\ k # NoKey /\ old.spi < k /\ old.key < k
      /\ nKeys' = k /\ nKeys' \in 0..MaxKeys
  <2>1. cur \in Slots /\ 1 - cur \in Slots
    BY DEF IInv, TypeOK, Slots
  <2>2. nKeys \in Nat /\ k \in Keys /\ k # NoKey /\ nKeys' = k /\ nKeys' \in 0..MaxKeys
    BY EspAssumption DEF IInv, TypeOK, SetupKeys, Keys, NoKey
  <2>3. old \in Esp
    BY <2>1 DEF IInv, TypeOK
  <2>4. old.spi < k /\ old.key < k
    BY <2>1, <2>2, <2>3 DEF IInv, KeysKnown, Esp, Keys, NoKey
  <2>5. QED
    BY <2>1, <2>2, <2>3, <2>4
<1>3. /\ e \in Esp
      /\ e.spi \in {k, old.spi} /\ e.key \in {k, old.key, NoKey}
      /\ \/ e = old
         \/ e.spi = k /\ e.key = k /\ e.seq = 0
         \/ e.spi = k /\ e.key # k
  <2>1. CASE e = [spi |-> k, key |-> k, seq |-> 0, backlog |-> {}]
    BY <1>2, <2>1, EspAssumption DEF Esp
  <2>2. CASE e = old
    BY <1>2, <2>2
  <2>3. CASE e = [old EXCEPT !.spi = k]
    BY <1>2, <2>3 DEF Esp
  <2>4. ASSUME NEW m \in {old.key, NoKey}, e = [spi |-> k, key |-> m, seq |-> 0, backlog |-> {}]
        PROVE  e \in Esp /\ e.spi = k /\ e.key = m /\ m # k
    BY <1>2, <2>4, EspAssumption DEF Esp
  <2>5. QED
    BY <1>1, <2>1, <2>2, <2>3, <2>4 DEF Install
<1>4. /\ ctx' \in [Slots -> Esp] /\ ctx'[1 - cur] = e /\ ctx'[cur] = ctx[cur]
      /\ UNCHANGED <<accepted, verdict>> /\ protect' \in BOOLEAN /\ cur' = 1 - cur
  BY <1>1, <1>2, <1>3 DEF IInv, TypeOK, SetupKeys, hist, Slots
<1>5. oldMax' \in Nat
  <2>1. /\ ctx[cur].seq \in Nat /\ Grace \in Nat /\ SeqMod \in Nat /\ SeqMod > 0
    BY <1>2, EspAssumption DEF IInv, TypeOK, Esp
  <2>2. (ctx[cur].seq + Grace) % SeqMod \in Nat
    BY <2>1
  <2>3. QED
    BY <2>1, <2>2 DEF SetupKeys, MaxSeq, Unlimited
<1>6. TypeOK'
  BY <1>2, <1>4, <1>5 DEF IInv, TypeOK
<1>7. \A c \in Slots : c = cur \/ c = 1 - cur
  BY <1>2 DEF Slots
<1>8. BacklogExact'
  <2>1. ASSUME NEW c \in Slots, InUse(ctx'[c])
        PROVE  Exact(ctx'[c], accepted'[ctx'[c].key])
    <3>1. CASE ctx'[c] = ctx[c]
      BY <1>4, <2>1, <3>1 DEF IInv, BacklogExact
    <3>2. CASE c = 1 - cur /\ e # old
      <4>1. e.key = k /\ e.seq = 0
        BY <1>3, <1>4, <2>1, <3>2 DEF InUse
      <4>2. accepted[k] = {}
        BY <1>2 DEF IInv, KeysKnown
      <4>3. \A b \in Bits : ~(b + 2 <= 0)
        BY DEF Bits
      <4>4. QED
        BY <1>4, <3>2, <4>1, <4>2, <4>3 DEF Exact
    <3>3. QED
      BY <1>4, <1>7, <3>1, <3>2
  <2>2. QED
    BY <2>1 DEF BacklogExact, InUse, Exact
<1>9. KeysKnown'
  <2>1. \A c \in Slots : ctx[c].spi \in Nat /\ ctx[c].key \in Nat
    BY DEF IInv, TypeOK, Esp, Keys, NoKey
  <2>2. ctx'[cur].spi <= k /\ ctx'[cur].key <= k
    BY <1>2, <1>4, <2>1 DEF IInv, KeysKnown
  <2>3. e.spi <= k /\ e.key <= k
    BY <1>2, <1>3, <2>1 DEF NoKey
  <2>4. \A j \in Keys : j > k => accepted'[j] = {}
    BY <1>2, <1>4 DEF IInv, KeysKnown, Keys
  <2>5. QED
    BY <1>2, <1>4, <1>7, <2>2, <2>3, <2>4 DEF KeysKnown
<1>10. SpisDistinct'
  <2>1. ctx[cur].spi \in Nat /\ ctx[cur].spi < k
    BY <1>2 DEF IInv, KeysKnown, TypeOK, Esp, Keys, NoKey
  <2>2. e.spi = ctx[cur].spi => e.spi = NoKey
    BY <1>2, <1>3, <2>1 DEF IInv, SpisDistinct, Slots
  <2>3. QED
    BY <1>2, <1>4, <2>2 DEF SpisDistinct, Slots
<1>11. NoReplay'
  BY <1>4 DEF IInv, NoReplay
<1>12. AR!Configure
  BY <1>4 DEF AR!Configure
<1>13. QED
  BY <1>6, <1>8, <1>9, <1>10, <1>11, <1>12 DEF IInv

\* Without ciphers no context is in use.
LEMMA ShutdownStep ==
    ASSUME IInv, Shutdown
    PROVE  IInv' /\ UNCHANGED <<protect, accepted, verdict>>
<1>1. UNCHANGED <<protect, cur, oldMax, nKeys, accepted, verdict>>
  BY DEF Shutdown, hist
<1>2. \A c \in Slots : /\ ctx'[c] \in Esp
                       /\ ctx'[c].spi = ctx[c].spi /\ ctx'[c].key = NoKey
  BY DEF Shutdown, IInv, TypeOK, Esp
<1>3. ctx' \in [Slots -> Esp]
  BY <1>2 DEF Shutdown
<1>4. TypeOK'
  BY <1>1, <1>3 DEF IInv, TypeOK
<1>5. BacklogExact'
  BY <1>2 DEF BacklogExact, InUse
<1>6. KeysKnown' /\ SpisDistinct' /\ NoReplay'
  BY <1>1, <1>2 DEF IInv, KeysKnown, SpisDistinct, NoReplay, Slots, NoKey, TypeOK
<1>7. QED
  BY <1>1, <1>4, <1>5, <1>6 DEF IInv

\* Every step preserves the invariant and is a step of AntiReplay or none.
LEMMA NextInv == IInv /\ [Next]_vars => IInv' /\ [AR!Next]_(AR!arVars)
<1> SUFFICES ASSUME IInv, [Next]_vars PROVE IInv' /\ [AR!Next]_(AR!arVars)
  OBVIOUS
<1>1. CASE SetupKeys
  BY <1>1, SetupStep DEF AR!Next
<1>2. CASE Shutdown
  BY <1>2, ShutdownStep DEF AR!arVars
<1>3. CASE \E k \in Keys, s \in Seqs : Receive(k, s)
  BY <1>3, ReceiveStep DEF AR!Next
<1>4. CASE UNCHANGED vars
  <2>1. IInv'
    BY <1>4 DEF vars, IInv, TypeOK, BacklogExact, InUse, Exact, KeysKnown, SpisDistinct, NoReplay
  <2>2. QED
    BY <1>4, <2>1 DEF vars, AR!arVars
<1>5. QED
  BY <1>1, <1>2, <1>3, <1>4 DEF Next

(***************************************************************************)
(* The theorems.                                                           *)
(***************************************************************************)

\* Every reachable state satisfies the inductive invariant.
THEOREM Inductive == Spec => []IInv
BY InitInv, NextInv, PTL DEF Spec

\* Type correctness: among the rest, the bitmap never holds a bit outside W.
THEOREM TypeCorrect == Spec => []TypeOK
<1>1. IInv => TypeOK
  BY DEF IInv
<1>2. QED
  BY <1>1, Inductive, PTL

\* With protection on, verify_packet_seqno passes no packet twice.
THEOREM Replay == Spec => []NoReplay
<1>1. IInv => NoReplay
  BY DEF IInv
<1>2. QED
  BY <1>1, Inductive, PTL

\* The bitmap of a context in use is exact.
THEOREM Backlog == Spec => []BacklogExact
<1>1. IInv => BacklogExact
  BY DEF IInv
<1>2. QED
  BY <1>1, Inductive, PTL

\* Two contexts with bitmaps implement one set of accepted packets per key.
THEOREM Refinement == Spec => ImplementsAntiReplay
<1>1. Init => AR!Init
  BY DEF Init, AR!Init
<1>2. QED
  BY <1>1, InitInv, NextInv, PTL DEF Spec, ImplementsAntiReplay, AR!Spec
=============================================================================
