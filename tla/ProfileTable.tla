---------------------------- MODULE ProfileTable ----------------------------
(***************************************************************************)
(* What the profile store of the Windows client promises its callers, with *)
(* no file and no lock: a table of profiles, each operation taking effect  *)
(* on it whole and at one moment between its call and its return.  An      *)
(* operation answers ok only after that moment.  The one thing that may    *)
(* take the table away is an operation whose replacement of the file the   *)
(* system refused.                                                         *)
(***************************************************************************)
CONSTANTS
    Ids,             \* profile ids
    DomainIds,       \* those whose server is in the shared login's domain
    Threads,         \* the threads of the client that use the store
    Absent,          \* no such profile
    NoOp,            \* no operation
    Calls,           \* the operations each thread calls
    ReplaceRefused   \* whether the system may refuse to rename over a file

\* The fields that different threads write: the mode and the whole record by
\* the user interface, the exit by the geo thread, the shared login by a worker.
Recs == [mode : {"tunnel", "proxy"}, exit : BOOLEAN, shared : BOOLEAN]
Tables == [Ids -> Recs \cup {Absent}]

Empty == [p \in Ids |-> Absent]
Fresh == [mode |-> "tunnel", exit |-> FALSE, shared |-> FALSE]

\* The operations, with the arguments that matter.  The user interface adds a
\* record, or updates one by a whole new record.
Ops == [kind : {"add", "update"}, id : Ids, rec : Recs]
       \cup [kind : {"delete", "set_geo", "clear_password"}, id : Ids]
       \cup [kind : {"set_mode"}, id : Ids, mode : {"tunnel", "proxy"}]
       \cup [kind : {"remember_login"}, id : Ids, shared : BOOLEAN]
       \cup [kind : {"set_shared_for_domain"}, shared : BOOLEAN]
       \cup [kind : {"apply_catalog"}, gone : SUBSET Ids, new : SUBSET Ids]

\* An id is added once: it is new, or save_profile found no profile with it.
\* Elsewhere a profile that is not there is an error.
Applies(o, tab) ==
    CASE o.kind = "add" -> tab[o.id] = Absent
      [] o.kind \in {"set_shared_for_domain", "apply_catalog"} -> TRUE
      [] OTHER -> tab[o.id] # Absent

InDomain(tab) == {p \in DomainIds : tab[p] # Absent}

Effect(o, tab) ==
    CASE o.kind \in {"add", "update"} -> [tab EXCEPT ![o.id] = o.rec]
      [] o.kind = "delete" -> [tab EXCEPT ![o.id] = Absent]
      [] o.kind = "set_geo" -> [tab EXCEPT ![o.id] = [@ EXCEPT !.exit = TRUE]]
      [] o.kind = "set_mode" -> [tab EXCEPT ![o.id] = [@ EXCEPT !.mode = o.mode]]
      [] o.kind = "remember_login" ->
            [tab EXCEPT ![o.id] = [@ EXCEPT !.shared = o.shared]]
      [] o.kind = "clear_password" ->
            [tab EXCEPT ![o.id] = [@ EXCEPT !.shared = FALSE]]
      [] o.kind = "set_shared_for_domain" ->
            [p \in Ids |-> IF p \in InDomain(tab)
                           THEN [tab[p] EXCEPT !.shared = o.shared] ELSE tab[p]]
      [] o.kind = "apply_catalog" ->
            [p \in Ids |-> IF tab[p] = Absent
                           THEN IF p \in o.new THEN Fresh ELSE Absent
                           ELSE IF p \in o.gone THEN Absent ELSE tab[p]]

VARIABLES
    table,    \* the profiles
    phase,    \* per thread: whether its operation has taken effect
    op,       \* per thread: the operation it is in
    answer    \* per thread: what the last one returned

tableVars == <<table, phase, op, answer>>

Idle(t) == phase[t] = "idle"

Init ==
    /\ table = Empty
    /\ phase = [t \in Threads |-> "idle"]
    /\ op = [t \in Threads |-> NoOp]
    /\ answer = [t \in Threads |-> "none"]

Call(t, o) ==
    /\ Idle(t)
    /\ phase' = [phase EXCEPT ![t] = "called"]
    /\ op' = [op EXCEPT ![t] = o]
    /\ answer' = [answer EXCEPT ![t] = "none"]
    /\ UNCHANGED table

Apply(t) ==
    /\ phase[t] = "called"
    /\ Applies(op[t], table)
    /\ table' = Effect(op[t], table)
    /\ phase' = [phase EXCEPT ![t] = "applied"]
    /\ UNCHANGED <<op, answer>>

ReturnOk(t) ==
    /\ phase[t] = "applied"
    /\ phase' = [phase EXCEPT ![t] = "idle"]
    /\ op' = [op EXCEPT ![t] = NoOp]
    /\ answer' = [answer EXCEPT ![t] = "ok"]
    /\ UNCHANGED table

\* An error may be reported although the operation took effect, and the table
\* may go with an operation that was taking effect.
MayVanish(ts) ==
    \/ UNCHANGED table
    \/ ReplaceRefused /\ (\E t \in ts : phase[t] = "applied") /\ table' = Empty

ReturnErr(t) ==
    /\ ~Idle(t)
    /\ MayVanish({t})
    /\ phase' = [phase EXCEPT ![t] = "idle"]
    /\ op' = [op EXCEPT ![t] = NoOp]
    /\ answer' = [answer EXCEPT ![t] = "err"]

\* The process ends, and is started again.
Crash ==
    /\ MayVanish(Threads)
    /\ phase' = [t \in Threads |-> "idle"]
    /\ op' = [t \in Threads |-> NoOp]
    /\ answer' = [t \in Threads |-> "none"]

Next == \/ Crash
        \/ \E t \in Threads : \/ \E o \in Calls[t] : Call(t, o)
                              \/ Apply(t) \/ ReturnOk(t) \/ ReturnErr(t)

Spec == Init /\ [][Next]_tableVars
=============================================================================
