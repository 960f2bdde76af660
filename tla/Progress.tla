------------------------------ MODULE Progress ------------------------------
(***************************************************************************)
(* What a session of the Windows client hears from its library.            *)
(* libopenconnect hands every progress message to the C trampoline         *)
(* (windows/src-tauri/native/oc_progress_shim.c), which formats it into a  *)
(* buffer and calls rust_oc_progress (vpn/session.rs).  That keeps an      *)
(* error in auth_detail, the one string by which a failed login is judged; *)
(* it belongs to the process and not to the session (vpn/state.rs).  The   *)
(* lines that are only shown are left out.                                 *)
(*                                                                         *)
(* A message is its level, the bytes of each of its characters, how many   *)
(* of them are blank at the front, whether it is UTF-8 and what it says.   *)
(***************************************************************************)
EXTENDS Integers, Sequences

CONSTANTS
    Sessions,        \* the sessions
    Nobody,          \* no session
    BufSize          \* bytes of the trampoline's buffer (2048)

ASSUME ProgressAssumption ==
    /\ Nobody \notin Sessions
    /\ BufSize \in Nat \ {0}

VARIABLE detail      \* auth_detail: what it says, and who wrote it

PRG_ERR == 0

\* What a judged string says: nothing; "https connection" or "connect to"; else.
Abouts == {"none", "reach", "other"}
Details == [about : Abouts, by : Sessions \cup {Nobody}]
Messages == [level : 0..3, chars : Seq(1..4), lead : Nat, utf8 : BOOLEAN,
             about : {"reach", "other"}]

-----------------------------------------------------------------------------
\* The bytes of the first n characters, for every n.
Ends(chars) ==
    LET end[n \in 0..Len(chars)] == IF n = 0 THEN 0 ELSE end[n - 1] + chars[n]
    IN  end

\* The characters that survive whole in the buffer, which keeps a byte for NUL.
Fitting(chars) ==
    CHOOSE n \in 0..Len(chars) :
        /\ Ends(chars)[n] < BufSize
        /\ n < Len(chars) => Ends(chars)[n + 1] >= BufSize

\* oc_progress_trampoline: vsnprintf cuts at a byte.  Where that is inside a
\* character, what is forwarded is no UTF-8 any more.
oc_progress_trampoline(m) ==
    LET n == Fitting(m.chars)
        clean == n = Len(m.chars) \/ Ends(m.chars)[n] = BufSize - 1
    IN  [m EXCEPT !.chars = SubSeq(m.chars, 1, n), !.utf8 = m.utf8 /\ clean]

\* rust_oc_progress: what is not UTF-8, and what is blank, is dropped; of the
\* rest the errors are kept.
Kept(m) ==
    LET f == oc_progress_trampoline(m)
    IN  f.utf8 /\ f.lead < Len(f.chars) /\ f.level <= PRG_ERR

set_auth_detail(i, about) == detail' = [about |-> about, by |-> i]

\* take_auth_detail leaves the string empty.
take_auth_detail(i) == set_auth_detail(i, "none")

\* The library says m in session i.
Says(i, m) == IF Kept(m) THEN set_auth_detail(i, m.about) ELSE UNCHANGED detail
=============================================================================
