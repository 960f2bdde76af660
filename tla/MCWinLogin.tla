----------------------------- MODULE MCWinLogin -----------------------------
(***************************************************************************)
(* Two profiles of one domain.  The first comes with a password the server *)
(* no longer knows, its own or the domain's.                               *)
(***************************************************************************)
EXTENDS WinLogin, TLC

CONSTANTS s1, s2, p1, p2, good, old

MCSessions == {s1, s2}
Symmetry == Permutations(MCSessions)

MCProfiles == {p1, p2}

NothingSaved == [p \in MCProfiles |-> None]
MCInitStores ==
    {[own |-> [NothingSaved EXCEPT ![p1] = old], realm |-> old, shared |-> {p1}],
     [own |-> NothingSaved, realm |-> old, shared |-> {p1, p2}]}

\* Connect with what is saved; or type the new password, and have it saved.
MCAsks ==
    [profile : {p1}, typed : {good}, saves : {{"own"}, {"domain"}}]
    \cup [profile : {p1, p2}, typed : {None}, saves : {{}}]

\* "Failed to open HTTPS connection to ..." fits a buffer of seven bytes.
MCOpenError == [level |-> 0, chars |-> <<1, 1, 1, 1>>, lead |-> 0, utf8 |-> TRUE,
                about |-> "reach"]

\* An error of the server, whole, cut between two characters, and cut inside
\* one; a blank one; a line that is no error.
Refusal(chars) == [MCOpenError EXCEPT !.chars = chars, !.about = "other"]
MCLines == {Refusal(<<1, 2>>), Refusal(<<2, 2, 2, 2>>), Refusal(<<1, 2, 2, 2>>),
            [Refusal(<<1>>) EXCEPT !.lead = 1], [Refusal(<<1>>) EXCEPT !.level = 1]}

\* The trampoline against what C says of vsnprintf, for every short message: the
\* bytes kept are those that fit, and only a cut inside a character spoils them.
Bytes(chars) == Ends(chars)[Len(chars)]
ASSUME TrampolineCuts ==
    \A len \in 0..5 : \A chars \in [1..len -> 1..3] :
        LET m == Refusal(chars)
            f == oc_progress_trampoline(m)
        IN  /\ Bytes(chars) < BufSize => f = m
            /\ Bytes(chars) >= BufSize =>
                 /\ Bytes(f.chars) <= BufSize - 1
                 /\ f.utf8 <=> \E n \in 1..len : Bytes(SubSeq(chars, 1, n)) = BufSize - 1
=============================================================================
