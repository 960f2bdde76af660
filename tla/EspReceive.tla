----------------------------- MODULE EspReceive -----------------------------
(***************************************************************************)
(* The receiving side of ESP in libopenconnect (esp.c, esp-seqno.c,        *)
(* gnutls-esp.c): two incoming contexts that a rekey alternates between,   *)
(* and in each a 64-bit bitmap of the packets missing before the latest.   *)
(*                                                                         *)
(* The network loses, repeats, delays and reorders: any packet the server  *)
(* may have sent under a key it was told of can arrive at any time.  A     *)
(* packet that is not authentic changes nothing and is left out, and so is *)
(* what happens to a packet after it passed.                               *)
(***************************************************************************)
EXTENDS Naturals

CONSTANTS
    W,          \* bits of seq_backlog: 64
    Grace,      \* packets the old keys are still good for: 32
    SeqMod,     \* 2^32: sequence numbers are uint32_t
    MaxKeys     \* bound: calls that set up keys

ASSUME EspAssumption ==
    /\ W \in Nat /\ W >= 1
    /\ Grace \in Nat
    /\ SeqMod \in Nat /\ SeqMod > W + 1
    /\ MaxKeys \in Nat

VARIABLES
    protect,    \* esp_replay_protect
    cur,        \* current_esp_in
    ctx,        \* esp_in[2]: spi, the key its cipher was made from, seq, seq_backlog
    oldMax,     \* old_esp_maxseq, as the comparison with it reads it
    nKeys,      \* keys negotiated so far
    accepted,   \* history: per key, the sequence numbers that have passed
    verdict     \* history: what became of the latest authentic packet

hist == <<accepted, verdict>>
vars == <<protect, cur, ctx, oldMax, nKeys, accepted, verdict>>

Keys  == 1..MaxKeys
NoKey == 0                      \* no SPI yet, or no cipher
Seqs  == 0..SeqMod - 1
Bits  == 0..W - 1
Slots == {0, 1}

AR == INSTANCE AntiReplay WITH Keys <- Keys, Seqs <- Seqs, W <- W,
        protect <- protect, accepted <- accepted, verdict <- verdict

Esp == [spi : Keys \cup {NoKey}, key : Keys \cup {NoKey},
        seq : 0..SeqMod, backlog : SUBSET Bits]

TypeOK ==
    /\ protect \in BOOLEAN
    /\ cur \in Slots
    /\ ctx \in [Slots -> Esp]
    /\ oldMax \in Nat
    /\ nKeys \in 0..MaxKeys
    /\ accepted \in [Keys -> SUBSET Seqs]
    /\ verdict \in [ok : BOOLEAN, protect : BOOLEAN, again : BOOLEAN, late : BOOLEAN]

Init ==
    /\ protect \in BOOLEAN
    /\ cur = 0
    /\ ctx = [c \in Slots |-> [spi |-> NoKey, key |-> NoKey, seq |-> 0, backlog |-> {}]]
    /\ oldMax = 0
    /\ nKeys = 0
    /\ accepted = [k \in Keys |-> {}]
    /\ verdict = AR!NoVerdict

(***************************************************************************)
(* verify_packet_seqno.  e.seq is the packet expected next; bit b of the   *)
(* backlog stands for packet e.seq - 2 - b and is set while it is missing. *)
(***************************************************************************)

\* Fault: the bits shifted out at the top are kept.
ShiftUnbounded(B, n) == {b + n : b \in B}

\* B << n in W bits.
Shift(B, n) == {b \in Bits : b >= n /\ b - n \in B}

\* Fault: the zero bit of the last packet received is not shifted in.
AdvanceShort(e, s) ==
    LET delta == s - e.seq
    IN  [e EXCEPT !.seq = s + 1,
                  !.backlog = IF delta >= W THEN Bits
                              ELSE Shift(@, delta) \cup {b \in Bits : b < delta}]

\* A packet not older than expected: delta are missing before it.  (A shift by
\* W, which C leaves undefined and the code avoids, leaves no bit set.)
Advance(e, s) ==
    LET delta == s - e.seq
    IN  [e EXCEPT !.seq = s + 1,
                  !.backlog = IF delta >= W THEN Bits
                              ELSE Shift(@, delta + 1) \cup {b \in Bits : b < delta}]

\* Of an older packet: esp->seq - seq, in 32 bits.  It is 0 for packet 0 once
\* the last sequence number has been received.
Age(e, s) == (e.seq - s) % SeqMod

\* Fault: the packet at the far end of the window counts as ancient.
MissingNarrow(e, s) == Age(e, s) \in 2..W /\ Age(e, s) - 2 \in e.backlog

\* Neither ancient nor already received.
Missing(e, s) == Age(e, s) \in 2..W + 1 /\ Age(e, s) - 2 \in e.backlog

New(e, s) == s >= e.seq \/ Missing(e, s)

Note(e, s) ==
    IF s >= e.seq      THEN Advance(e, s)
    ELSE IF Missing(e, s) THEN [e EXCEPT !.backlog = @ \ {Age(e, s) - 2}]
    ELSE e

(***************************************************************************)
(* esp_mainloop: which context a packet with SPI k is for, and the check.  *)
(***************************************************************************)

\* The old context counts while its packet's number and the new context's
\* together stay below old_esp_maxseq.
Selects(c, k, s) ==
    /\ ctx[c].spi = k
    /\ c # cur => ctx[cur].spi # k /\ s + ctx[cur].seq < oldMax

\* decrypt_esp_packet: the MAC agrees only if the cipher has the packet's key.
Receive(k, s) ==
    \E c \in Slots :
        /\ Selects(c, k, s)
        /\ ctx[c].key = k
        /\ LET ok == New(ctx[c], s) \/ ~protect
           IN  /\ ctx' = [ctx EXCEPT ![c] = Note(@, s)]
               /\ accepted' = [accepted EXCEPT ![k] = IF ok THEN @ \cup {s} ELSE @]
               /\ verdict' = [ok |-> ok, protect |-> protect,
                              again |-> AR!Again(k, s), late |-> AR!Late(k, s)]
        /\ UNCHANGED <<protect, cur, oldMax, nKeys>>

(***************************************************************************)
(* openconnect_setup_esp_keys, with what its callers do before it: the     *)
(* server's attributes are parsed (replay protection among them) and the   *)
(* contexts change places.                                                 *)
(***************************************************************************)

\* Larger than any sum it is compared with.
Unlimited == 2 * SeqMod

\* old_esp_maxseq is an int.  Compared with a uint64_t, a negative one is a
\* number beyond all sequence numbers.
MaxSeq(e) == LET v == (e.seq + Grace) % SeqMod
             IN  IF v < SeqMod \div 2 THEN v ELSE Unlimited

\* Fault: seq and backlog are reset before the random numbers are drawn.
InstallResetsFirst(e, k) ==
    {[spi |-> k, key |-> k, seq |-> 0, backlog |-> {}],
     [e EXCEPT !.seq = 0, !.backlog = {}],
     [e EXCEPT !.spi = k, !.seq = 0, !.backlog = {}]}
    \cup {[spi |-> k, key |-> m, seq |-> 0, backlog |-> {}] : m \in {e.key, NoKey}}

\* What may become of the context: the new keys installed; given up before the
\* reset, with the new SPI or still the one before; or given up by
\* init_esp_ciphers, which may leave the cipher of before or none.
Install(e, k) ==
    {[spi |-> k, key |-> k, seq |-> 0, backlog |-> {}],
     e,
     [e EXCEPT !.spi = k]}
    \cup {[spi |-> k, key |-> m, seq |-> 0, backlog |-> {}] : m \in {e.key, NoKey}}

SetupKeys ==
    /\ nKeys < MaxKeys
    /\ nKeys' = nKeys + 1
    /\ protect' \in BOOLEAN
    /\ cur' = 1 - cur
    /\ oldMax' = MaxSeq(ctx[cur])
    /\ \E e \in Install(ctx[1 - cur], nKeys + 1) : ctx' = [ctx EXCEPT ![1 - cur] = e]
    /\ UNCHANGED hist

\* esp_shutdown destroys the ciphers and nothing else of the contexts.
Shutdown ==
    /\ ctx' = [c \in Slots |-> [ctx[c] EXCEPT !.key = NoKey]]
    /\ UNCHANGED <<protect, cur, oldMax, nKeys, hist>>

Next == SetupKeys \/ Shutdown \/ \E k \in Keys, s \in Seqs : Receive(k, s)

Spec == Init /\ [][Next]_vars

(***************************************************************************)
(* What the receiver promises.                                             *)
(***************************************************************************)

\* A packet passes at most once while protection is on, across reordering,
\* rekeys, rekeys that failed half way and the end of the sequence numbers.
NoReplay == verdict.ok /\ verdict.protect => ~verdict.again

\* esp-seqno.c: "Since it must always be true that packet esp->seq-1 has been
\* received ... A received packet is represented by a zero bit, and a missing
\* packet is represented by a one."  For a context in use the bitmap and the
\* packets that passed agree, wherever in the window.
InUse(e) == e.key # NoKey /\ e.key = e.spi

Exact(e, got) ==
    /\ \A s \in got : s < e.seq
    /\ e.seq > 0 => e.seq - 1 \in got
    /\ \A b \in Bits : b + 2 <= e.seq => (b \in e.backlog <=> e.seq - 2 - b \notin got)

BacklogExact == \A c \in Slots : InUse(ctx[c]) => Exact(ctx[c], accepted[ctx[c].key])

\* The bitmap decides as the set of all packets ever accepted would: no packet
\* passes that the window forbids, none is dropped that it allows.
ImplementsAntiReplay == AR!Spec
=============================================================================
