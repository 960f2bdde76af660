---------------------------- MODULE ProfileStore ----------------------------
(***************************************************************************)
(* The profile store of the Windows client (windows/src-tauri/src/vpn:     *)
(* profile.rs over paths::write_atomic).  The main thread, the workers and *)
(* the geo threads all load, change and save the one file profiles.json,   *)
(* each under FILE_LOCK.  A save writes a file beside it and renames that  *)
(* over it; Windows may refuse the rename, and the process may be killed   *)
(* between any two steps.                                                  *)
(*                                                                         *)
(* A step of the model is one call of the file system, or one critical     *)
(* section of nothing but memory.                                          *)
(***************************************************************************)
EXTENDS Naturals

CONSTANTS
    Ids,             \* profile ids
    DomainIds,       \* those whose server is in the shared login's domain
    Threads,         \* the threads of the client that use the store
    Absent,          \* no such profile
    ReplaceRefused,  \* whether the system may refuse to rename over a file
    Missing,         \* no such file
    Torn,            \* a file that was begun and not finished
    Nobody,          \* FILE_LOCK is free
    NoOp,            \* no operation
    Calls,           \* the operations each thread calls
    MaxCrashes       \* bound: times the process is killed

VARIABLES
    target,          \* profiles.json
    tmp,             \* profiles.tmp
    lock,            \* FILE_LOCK
    pc,              \* where each thread is in its operation
    op,              \* the operation
    mem,             \* the table as the thread loaded and changed it
    answer,          \* what the operation returned
    nCrash           \* times the process was killed (bound only)

vars == <<target, tmp, lock, pc, op, mem, answer, nCrash>>

\* The file as whoever loads it will see it: the one that replaces a removed
\* file counts as soon as the old one is gone.
Replacing == \E t \in Threads : pc[t] = "retry"
View == IF target # Missing THEN target
        ELSE IF Replacing THEN tmp ELSE [p \in Ids |-> Absent]

Phase(t) ==
    CASE pc[t] = "idle" -> "idle"
      [] pc[t] = "finish" -> "applied"
      [] pc[t] = "retry" -> IF target = Missing THEN "applied" ELSE "called"
      [] OTHER -> "called"

Table == INSTANCE ProfileTable
    WITH table <- View, phase <- [t \in Threads |-> Phase(t)],
         op <- op, answer <- answer

ASSUME StoreAssumption ==
    /\ DomainIds \subseteq Ids
    /\ Absent \notin Table!Recs
    /\ NoOp \notin Table!Ops
    /\ Calls \in [Threads -> SUBSET Table!Ops]
    /\ ReplaceRefused \in BOOLEAN
    /\ Missing \notin Table!Tables \cup {Torn}
    /\ Torn \notin Table!Tables
    /\ Nobody \notin Threads
    /\ MaxCrashes \in Nat

Files == Table!Tables \cup {Missing, Torn}

\* Inside the lock, and of these with a table in hand.
Saving == {"create", "fill", "rename", "remove", "retry"}
Inside == {"load", "finish"} \cup Saving

TypeOK ==
    /\ target \in Files /\ tmp \in Files
    /\ lock \in {t \in Threads : pc[t] \in Inside} \cup {Nobody}
    /\ pc \in [Threads -> {"idle", "lock"} \cup Inside]
    /\ op \in [Threads -> Table!Ops \cup {NoOp}]
    /\ mem \in [Threads -> Table!Tables]
    /\ answer \in [Threads -> {"none", "ok", "err"}]
    /\ nCrash \in 0..MaxCrashes

Init ==
    /\ target = Missing /\ tmp = Missing
    /\ lock = Nobody
    /\ pc = [t \in Threads |-> "idle"]
    /\ op = [t \in Threads |-> NoOp]
    /\ mem = [t \in Threads |-> Table!Empty]
    /\ answer = [t \in Threads |-> "none"]
    /\ nCrash = 0

Goto(t, where) == pc' = [pc EXCEPT ![t] = where]

\* Fault: a way out of an operation that keeps FILE_LOCK.
ReturnHolding(t, ans) ==
    /\ Goto(t, "idle")
    /\ op' = [op EXCEPT ![t] = NoOp]
    /\ mem' = [mem EXCEPT ![t] = Table!Empty]
    /\ answer' = [answer EXCEPT ![t] = ans]
    /\ UNCHANGED lock

\* The guard of FILE_LOCK is dropped on every way out.
Return(t, ans) ==
    /\ lock' = Nobody
    /\ Goto(t, "idle")
    /\ op' = [op EXCEPT ![t] = NoOp]
    /\ mem' = [mem EXCEPT ![t] = Table!Empty]
    /\ answer' = [answer EXCEPT ![t] = ans]

InOp == UNCHANGED <<lock, op, mem, answer, nCrash>>

-----------------------------------------------------------------------------
Begin(t, o) ==
    /\ pc[t] = "idle"
    /\ Goto(t, "lock")
    /\ op' = [op EXCEPT ![t] = o]
    /\ answer' = [answer EXCEPT ![t] = "none"]
    /\ UNCHANGED <<target, tmp, lock, mem, nCrash>>

\* Fault: load and save without FILE_LOCK.
AcquireUnlocked(t) ==
    /\ pc[t] = "lock"
    /\ lock' = t
    /\ Goto(t, "load")
    /\ UNCHANGED <<target, tmp, op, mem, answer, nCrash>>

Acquire(t) ==
    /\ pc[t] = "lock"
    /\ lock = Nobody
    /\ lock' = t
    /\ Goto(t, "load")
    /\ UNCHANGED <<target, tmp, op, mem, answer, nCrash>>

\* load(): no file is an empty list.  Only set_shared_for_domain may find that
\* there is nothing to save.
Loaded == IF target = Missing THEN Table!Empty ELSE target

NothingToSave(o) == o.kind = "set_shared_for_domain" /\ Table!InDomain(Loaded) = {}

LoadAndChange(t) ==
    /\ pc[t] = "load"
    /\ target # Torn
    /\ Table!Applies(op[t], Loaded)
    /\ mem' = [mem EXCEPT ![t] = Table!Effect(op[t], Loaded)]
    /\ Goto(t, IF NothingToSave(op[t]) THEN "finish" ELSE "create")
    /\ UNCHANGED <<target, tmp, lock, op, answer, nCrash>>

\* The file cannot be read or parsed, or the profile is not in it.
LoadFails(t) ==
    /\ pc[t] = "load"
    /\ Return(t, "err")
    /\ UNCHANGED <<target, tmp, nCrash>>

\* Fault: profiles.json written in place.
CreateInPlace(t) ==
    /\ pc[t] = "create"
    /\ target' = Torn
    /\ Goto(t, "fill")
    /\ UNCHANGED tmp
    /\ InOp

\* write_atomic(): fs::write creates or empties the file beside it, and then
\* fills it; either may fail.
Create(t) ==
    /\ pc[t] = "create"
    /\ tmp' = Torn
    /\ Goto(t, "fill")
    /\ UNCHANGED target
    /\ InOp

Fill(t) ==
    /\ pc[t] = "fill"
    /\ tmp' = mem[t]
    /\ Goto(t, "rename")
    /\ UNCHANGED target
    /\ InOp

WriteFails(t) ==
    /\ pc[t] \in {"create", "fill"}
    /\ Return(t, "err")
    /\ UNCHANGED <<target, tmp, nCrash>>

RenameOver(t) ==
    /\ pc[t] \in {"rename", "retry"}
    /\ target' = tmp
    /\ tmp' = Missing
    /\ Goto(t, "finish")
    /\ InOp

Refused(t) ==
    /\ pc[t] = "rename"
    /\ ReplaceRefused
    /\ Goto(t, "remove")
    /\ UNCHANGED <<target, tmp>>
    /\ InOp

\* "Windows can refuse rename-over-existing; replace then retry."  That the
\* removal failed is not looked at.
Remove(t) ==
    /\ pc[t] = "remove"
    /\ target' \in {target, Missing}
    /\ Goto(t, "retry")
    /\ UNCHANGED tmp
    /\ InOp

RetryFails(t) ==
    /\ pc[t] = "retry"
    /\ tmp' \in {tmp, Missing}
    /\ Return(t, "err")
    /\ UNCHANGED <<target, nCrash>>

\* The three that answer with the profile load the file once more.
Finish(t) ==
    /\ pc[t] = "finish"
    /\ \/ Return(t, "ok")
       \/ op[t].kind \in {"add", "update", "clear_password"} /\ Return(t, "err")
    /\ UNCHANGED <<target, tmp, nCrash>>

\* The process is killed and started again; the files stay.
Crash ==
    /\ nCrash < MaxCrashes
    /\ nCrash' = nCrash + 1
    /\ lock' = Nobody
    /\ pc' = [t \in Threads |-> "idle"]
    /\ op' = [t \in Threads |-> NoOp]
    /\ mem' = [t \in Threads |-> Table!Empty]
    /\ answer' = [t \in Threads |-> "none"]
    /\ UNCHANGED <<target, tmp>>

Operate(t) ==
    \/ Acquire(t) \/ LoadAndChange(t) \/ LoadFails(t)
    \/ Create(t) \/ Fill(t) \/ WriteFails(t)
    \/ RenameOver(t) \/ Refused(t) \/ Remove(t) \/ RetryFails(t) \/ Finish(t)

Next == \/ Crash
        \/ \E t \in Threads : Operate(t) \/ \E o \in Calls[t] : Begin(t, o)

Spec == Init /\ [][Next]_vars

-----------------------------------------------------------------------------
\* Whatever fails, and whenever the process is killed, profiles.json is whole
\* or not there: load() never meets half a file.
NeverTorn == target # Torn

\* The store is the table it promises to be: no thread's change is lost under
\* another's, ok means saved, and only a refused replace can lose the table.
ImplementsTable == Table!Spec
=============================================================================
