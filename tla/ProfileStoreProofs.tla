------------------------- MODULE ProfileStoreProofs -------------------------
(***************************************************************************)
(* The profile store keeps its promise for every set of profiles, of       *)
(* threads and of operations, and for any number of kills.                 *)
(***************************************************************************)
EXTENDS ProfileStore, TLAPS

\* FILE_LOCK is held by exactly the thread that is inside.
LockHeld == \A t \in Threads : pc[t] \in Inside <=> lock = t

\* The file that is about to be renamed is the one that thread filled.
TmpFull == \A t \in Threads : pc[t] \in {"rename", "remove", "retry"} => tmp = mem[t]

\* A thread that saves has the table that profiles.json still holds, changed by
\* its operation; after the removal there is nothing left to compare it with.
Prepared ==
    \A t \in Threads :
        pc[t] \in Saving /\ ~(pc[t] = "retry" /\ target = Missing)
            => /\ Table!Applies(op[t], Loaded)
               /\ mem[t] = Table!Effect(op[t], Loaded)

OpKnown ==
    \A t \in Threads : IF pc[t] = "idle" THEN op[t] = NoOp ELSE op[t] \in Calls[t]

OnlyRefused == \A t \in Threads : pc[t] \in {"remove", "retry"} => ReplaceRefused

IInv == TypeOK /\ LockHeld /\ TmpFull /\ NeverTorn /\ Prepared /\ OpKnown /\ OnlyRefused

-----------------------------------------------------------------------------
\* What a shared login does to one profile, and a set of a field to a record.
LEMMA RecordFields ==
    ASSUME NEW r \in Table!Recs, NEW m \in {"tunnel", "proxy"}, NEW b \in BOOLEAN
    PROVE  /\ [r EXCEPT !.mode = m] \in Table!Recs
           /\ [r EXCEPT !.exit = TRUE] \in Table!Recs
           /\ [r EXCEPT !.shared = b] \in Table!Recs
  BY DEF Table!Recs

LEMMA FreshIsRecord == Table!Fresh \in Table!Recs
  BY DEF Table!Fresh, Table!Recs

LEMMA EmptyIsTable == Table!Empty \in Table!Tables
  BY DEF Table!Empty, Table!Tables

\* An operation that applies to a table leaves a table.
LEMMA EffectIsTable ==
    ASSUME NEW o \in Table!Ops, NEW tab \in Table!Tables, Table!Applies(o, tab)
    PROVE  Table!Effect(o, tab) \in Table!Tables
<1> USE StoreAssumption
<1>1. CASE o.kind \in {"add", "update"}
  <2>1. o.id \in Ids /\ o.rec \in Table!Recs
    BY <1>1 DEF Table!Ops
  <2>2. Table!Effect(o, tab) = [tab EXCEPT ![o.id] = o.rec]
    BY <1>1 DEF Table!Effect
  <2> QED
    BY <2>1, <2>2 DEF Table!Tables
<1>2. CASE o.kind = "delete"
  <2>1. o.id \in Ids
    BY <1>2 DEF Table!Ops
  <2>2. Table!Effect(o, tab) = [tab EXCEPT ![o.id] = Absent]
    BY <1>2 DEF Table!Effect
  <2> QED
    BY <2>1, <2>2 DEF Table!Tables
<1>3. CASE o.kind \in {"set_geo", "set_mode", "remember_login", "clear_password"}
  <2>1. o.id \in Ids
    BY <1>3 DEF Table!Ops
  <2>2. tab[o.id] \in Table!Recs
    BY <1>3, <2>1 DEF Table!Applies, Table!Tables
  <2>3. CASE o.kind = "set_geo"
    <3>1. Table!Effect(o, tab) = [tab EXCEPT ![o.id] = [tab[o.id] EXCEPT !.exit = TRUE]]
      BY <2>3 DEF Table!Effect
    <3> QED
      BY <2>1, <2>2, <3>1, RecordFields DEF Table!Tables
  <2>4. CASE o.kind = "set_mode"
    <3> DEFINE r == [tab[o.id] EXCEPT !.mode = o.mode]
    <3>1. Table!Effect(o, tab) = [tab EXCEPT ![o.id] = r]
      BY <2>4 DEF Table!Effect
    <3>2. o.mode \in {"tunnel", "proxy"}
      BY <2>4 DEF Table!Ops
    <3>3. r \in Table!Recs
      BY <2>2, <3>2, RecordFields
    <3> HIDE DEF r
    <3> QED
      BY <2>1, <3>1, <3>3 DEF Table!Tables
  <2>5. CASE o.kind = "remember_login"
    <3> DEFINE r == [tab[o.id] EXCEPT !.shared = o.shared]
    <3>1. Table!Effect(o, tab) = [tab EXCEPT ![o.id] = r]
      BY <2>5 DEF Table!Effect
    <3>2. o.shared \in BOOLEAN
      BY <2>5 DEF Table!Ops
    <3>3. r \in Table!Recs
      BY <2>2, <3>2, RecordFields
    <3> HIDE DEF r
    <3> QED
      BY <2>1, <3>1, <3>3 DEF Table!Tables
  <2>6. CASE o.kind = "clear_password"
    <3>1. Table!Effect(o, tab)
            = [tab EXCEPT ![o.id] = [tab[o.id] EXCEPT !.shared = FALSE]]
      BY <2>6 DEF Table!Effect
    <3> QED
      BY <2>1, <2>2, <3>1, RecordFields DEF Table!Tables
  <2> QED
    BY <1>3, <2>3, <2>4, <2>5, <2>6
<1>4. CASE o.kind = "set_shared_for_domain"
  <2>1. o.shared \in BOOLEAN
    BY <1>4 DEF Table!Ops
  <2>2. Table!Effect(o, tab)
          = [p \in Ids |-> IF p \in Table!InDomain(tab)
                           THEN [tab[p] EXCEPT !.shared = o.shared] ELSE tab[p]]
    BY <1>4 DEF Table!Effect
  <2>3. ASSUME NEW p \in Ids, p \in Table!InDomain(tab)
        PROVE  [tab[p] EXCEPT !.shared = o.shared] \in Table!Recs
    <3>1. tab[p] \in Table!Recs
      BY <2>3 DEF Table!InDomain, Table!Tables
    <3> QED
      BY <2>1, <3>1, RecordFields
  <2>4. \A p \in Ids : tab[p] \in Table!Recs \cup {Absent}
    BY DEF Table!Tables
  <2> QED
    BY <2>2, <2>3, <2>4 DEF Table!Tables
<1>5. CASE o.kind = "apply_catalog"
  <2>1. Table!Effect(o, tab)
          = [p \in Ids |-> IF tab[p] = Absent
                           THEN IF p \in o.new THEN Table!Fresh ELSE Absent
                           ELSE IF p \in o.gone THEN Absent ELSE tab[p]]
    BY <1>5 DEF Table!Effect
  <2> QED
    BY <2>1, FreshIsRecord DEF Table!Tables
<1> QED
  BY <1>1, <1>2, <1>3, <1>4, <1>5 DEF Table!Ops

\* Where the domain has no profile there is nothing to change.
LEMMA NothingChanges ==
    ASSUME NEW o \in Table!Ops, NEW tab \in Table!Tables,
           o.kind = "set_shared_for_domain", Table!InDomain(tab) = {}
    PROVE  Table!Effect(o, tab) = tab
<1>1. Table!Effect(o, tab)
        = [p \in Ids |-> IF p \in Table!InDomain(tab)
                         THEN [tab[p] EXCEPT !.shared = o.shared] ELSE tab[p]]
  BY DEF Table!Effect
<1>2. Table!Effect(o, tab) = [p \in Ids |-> tab[p]]
  BY <1>1
<1> QED
  BY <1>2 DEF Table!Tables

\* Only one thread is inside.
LEMMA OneInside ==
    ASSUME LockHeld, NEW t \in Threads, NEW u \in Threads,
           pc[t] \in Inside, pc[u] \in Inside
    PROVE  t = u
  BY DEF LockHeld

\* Every other thread is outside while one is inside.
LEMMA OthersOutside ==
    ASSUME TypeOK, LockHeld, NEW t \in Threads, pc[t] \in Inside
    PROVE  \A u \in Threads \ {t} : pc[u] \in {"idle", "lock"}
  BY DEF TypeOK, LockHeld

-----------------------------------------------------------------------------
LEMMA InitIInv == Init => IInv
<1> SUFFICES ASSUME Init PROVE IInv
  OBVIOUS
<1> USE StoreAssumption
<1>1. TypeOK
  BY EmptyIsTable DEF Init, TypeOK, Files, Inside, Saving
<1>2. LockHeld /\ TmpFull /\ Prepared /\ OpKnown /\ OnlyRefused
  BY DEF Init, LockHeld, TmpFull, Prepared, OpKnown, OnlyRefused, Inside, Saving
<1>3. NeverTorn
  BY DEF Init, NeverTorn
<1> QED
  BY <1>1, <1>2, <1>3 DEF IInv

\* A thread leaves: nothing but the files may have changed beside it.
LEMMA ReturnKeeps ==
    ASSUME IInv, NEW t \in Threads, NEW ans \in {"ok", "err"},
           pc[t] \in Inside, Return(t, ans), UNCHANGED nCrash,
           tmp' \in Files, target' \in Files, target' # Torn
    PROVE  IInv'
<1> USE StoreAssumption DEF IInv
<1>1. \A u \in Threads \ {t} : pc[u] \in {"idle", "lock"}
  BY OthersOutside
<1>2. pc' = [pc EXCEPT ![t] = "idle"] /\ lock' = Nobody
  BY DEF Return, Goto
<1>3. \A u \in Threads : pc'[u] \notin Inside
  BY <1>1, <1>2 DEF TypeOK, Inside, Saving
<1>4. TypeOK'
  BY <1>2, EmptyIsTable DEF TypeOK, Return, Goto, Files, Inside, Saving
<1>5. LockHeld'
  BY <1>2, <1>3 DEF LockHeld
<1>6. TmpFull' /\ Prepared' /\ OnlyRefused'
  BY <1>3 DEF TmpFull, Prepared, OnlyRefused, Inside, Saving
<1>7. OpKnown'
  BY DEF OpKnown, Return, Goto, TypeOK
<1> QED
  BY <1>4, <1>5, <1>6, <1>7 DEF NeverTorn

\* A thread goes on inside: what is said of the others stays true of them.
LEMMA StepKeeps ==
    ASSUME IInv, NEW t \in Threads, NEW where \in Inside,
           pc[t] \in Inside, Goto(t, where),
           UNCHANGED <<lock, op, answer, nCrash>>,
           tmp' \in Files, target' \in Files, target' # Torn,
           mem' \in [Threads -> Table!Tables],
           where \in {"rename", "remove", "retry"} => tmp' = mem'[t],
           where \in {"remove", "retry"} => ReplaceRefused,
           where \in Saving /\ ~(where = "retry" /\ target' = Missing)
              => Table!Applies(op[t], Loaded') /\ mem'[t] = Table!Effect(op[t], Loaded')
    PROVE  IInv'
<1> USE StoreAssumption DEF IInv
<1>1. \A u \in Threads \ {t} : pc[u] \in {"idle", "lock"} /\ pc'[u] = pc[u]
  BY OthersOutside DEF Goto, TypeOK
<1>2. pc'[t] = where /\ pc' \in [Threads -> {"idle", "lock"} \cup Inside]
  BY DEF Goto, TypeOK, Inside, Saving
<1>3. lock = t
  BY DEF LockHeld
<1>4. TypeOK'
  BY <1>2, <1>3 DEF TypeOK
<1>5. LockHeld'
  BY <1>1, <1>2, <1>3 DEF LockHeld, Inside, Saving
<1>6. TmpFull' /\ OnlyRefused'
  BY <1>1, <1>2 DEF TmpFull, OnlyRefused
<1>7. Prepared'
  BY <1>1, <1>2 DEF Prepared, Saving
<1>8. OpKnown'
  BY <1>1, <1>2 DEF OpKnown, Inside, Saving
<1> QED
  BY <1>4, <1>5, <1>6, <1>7, <1>8 DEF NeverTorn

LEMMA StepIInv == IInv /\ [Next]_vars => IInv'
<1> SUFFICES ASSUME IInv, [Next]_vars PROVE IInv'
  OBVIOUS
<1> USE StoreAssumption DEF IInv
<1>1. ASSUME NEW t \in Threads, NEW o \in Calls[t], Begin(t, o) PROVE IInv'
  <2>1. pc[t] = "idle" /\ pc' = [pc EXCEPT ![t] = "lock"]
    BY <1>1 DEF Begin, Goto
  <2>2. TypeOK'
    BY <1>1, <2>1 DEF TypeOK, Begin, Inside, Saving
  <2>3. LockHeld' /\ TmpFull' /\ OnlyRefused'
    BY <1>1, <2>1 DEF TypeOK, LockHeld, TmpFull, OnlyRefused, Begin, Inside, Saving
  <2>4. Prepared'
    BY <1>1, <2>1 DEF TypeOK, Prepared, Loaded, Begin, Saving
  <2>5. OpKnown'
    BY <1>1, <2>1 DEF TypeOK, OpKnown, Begin
  <2> QED
    BY <1>1, <2>2, <2>3, <2>4, <2>5 DEF NeverTorn, Begin
<1>2. ASSUME NEW t \in Threads, Acquire(t) PROVE IInv'
  <2>1. pc[t] = "lock" /\ pc' = [pc EXCEPT ![t] = "load"]
    BY <1>2 DEF Acquire, Goto
  <2>2. TypeOK'
    BY <1>2, <2>1 DEF TypeOK, Acquire, Inside, Saving
  <2>3. LockHeld' /\ TmpFull' /\ OnlyRefused'
    BY <1>2, <2>1 DEF TypeOK, LockHeld, TmpFull, OnlyRefused, Acquire, Inside, Saving
  <2>4. Prepared'
    BY <1>2, <2>1 DEF TypeOK, Prepared, Loaded, Acquire, Saving
  <2>5. OpKnown'
    BY <1>2, <2>1 DEF TypeOK, OpKnown, Acquire
  <2> QED
    BY <1>2, <2>2, <2>3, <2>4, <2>5 DEF NeverTorn, Acquire
<1>3. ASSUME NEW t \in Threads, LoadAndChange(t) PROVE IInv'
  <2>1. op[t] \in Table!Ops
    BY <1>3 DEF OpKnown, LoadAndChange
  <2>2. Loaded \in Table!Tables /\ Loaded' = Loaded
    BY <1>3, EmptyIsTable DEF TypeOK, Files, Loaded, LoadAndChange
  <2>3. Table!Effect(op[t], Loaded) \in Table!Tables
    BY <1>3, <2>1, <2>2, EffectIsTable DEF LoadAndChange
  <2>4. mem' \in [Threads -> Table!Tables] /\ mem'[t] = Table!Effect(op[t], Loaded)
    BY <1>3, <2>3 DEF TypeOK, LoadAndChange
  <2>5. PICK where \in {"finish", "create"} : Goto(t, where)
    BY <1>3 DEF LoadAndChange
  <2>6. target' \in Files /\ tmp' \in Files
    BY <1>3 DEF TypeOK, LoadAndChange
  <2> QED
    BY <1>3, <2>2, <2>4, <2>5, <2>6, StepKeeps
       DEF LoadAndChange, NeverTorn, Inside, Saving
<1>4. ASSUME NEW t \in Threads, LoadFails(t) PROVE IInv'
  BY <1>4, ReturnKeeps DEF LoadFails, TypeOK, NeverTorn, Inside, Saving
<1>5. ASSUME NEW t \in Threads, Create(t) PROVE IInv'
  <2>1. Loaded' = Loaded /\ mem' \in [Threads -> Table!Tables] /\ target' \in Files
    BY <1>5 DEF Create, InOp, Loaded, TypeOK
  <2> QED
    BY <1>5, <2>1, StepKeeps
       DEF Create, InOp, Files, NeverTorn, Prepared, Inside, Saving
<1>6. ASSUME NEW t \in Threads, Fill(t) PROVE IInv'
  <2>1. Loaded' = Loaded /\ mem' \in [Threads -> Table!Tables] /\ target' \in Files
    BY <1>6 DEF Fill, InOp, Loaded, TypeOK
  <2>2. mem[t] \in Files
    BY <1>6 DEF TypeOK, Files
  <2> QED
    BY <1>6, <2>1, <2>2, StepKeeps
       DEF Fill, InOp, NeverTorn, Prepared, Inside, Saving
<1>7. ASSUME NEW t \in Threads, WriteFails(t) PROVE IInv'
  BY <1>7, ReturnKeeps DEF WriteFails, TypeOK, NeverTorn, Inside, Saving
<1>8. ASSUME NEW t \in Threads, RenameOver(t) PROVE IInv'
  <2>1. tmp = mem[t] /\ mem[t] \in Table!Tables
    BY <1>8 DEF RenameOver, TmpFull, TypeOK
  <2>2. target' \in Files /\ target' # Torn /\ tmp' \in Files
    BY <1>8, <2>1 DEF RenameOver, Files
  <2> QED
    BY <1>8, <2>2, StepKeeps DEF RenameOver, InOp, TypeOK, Inside, Saving
<1>9. ASSUME NEW t \in Threads, Refused(t) PROVE IInv'
  <2>1. Loaded' = Loaded /\ mem' \in [Threads -> Table!Tables]
        /\ target' \in Files /\ tmp' \in Files
    BY <1>9 DEF Refused, InOp, Loaded, TypeOK
  <2> QED
    BY <1>9, <2>1, StepKeeps
       DEF Refused, InOp, NeverTorn, TmpFull, Prepared, Inside, Saving
<1>10. ASSUME NEW t \in Threads, Remove(t) PROVE IInv'
  <2>1. mem' \in [Threads -> Table!Tables] /\ tmp' \in Files /\ target' \in Files
    BY <1>10 DEF Remove, InOp, Files, TypeOK
  <2>2. target' # Missing => Loaded' = Loaded
    BY <1>10 DEF Remove, Loaded
  <2> QED
    BY <1>10, <2>1, <2>2, StepKeeps
       DEF Remove, InOp, NeverTorn, TmpFull, Prepared, OnlyRefused, Inside, Saving
<1>11. ASSUME NEW t \in Threads, RetryFails(t) PROVE IInv'
  BY <1>11, ReturnKeeps DEF RetryFails, TypeOK, NeverTorn, Files, Inside, Saving
<1>12. ASSUME NEW t \in Threads, Finish(t) PROVE IInv'
  BY <1>12, ReturnKeeps DEF Finish, TypeOK, NeverTorn, Inside, Saving
<1>13. ASSUME Crash PROVE IInv'
  <2>1. \A u \in Threads : pc'[u] = "idle"
    BY <1>13 DEF Crash
  <2>2. TypeOK'
    BY <1>13, EmptyIsTable DEF Crash, TypeOK, Inside, Saving
  <2>3. LockHeld' /\ TmpFull' /\ Prepared' /\ OnlyRefused'
    BY <1>13, <2>1
       DEF Crash, LockHeld, TmpFull, Prepared, OnlyRefused, Inside, Saving
  <2>4. OpKnown'
    BY <1>13 DEF Crash, OpKnown
  <2> QED
    BY <1>13, <2>2, <2>3, <2>4 DEF Crash, NeverTorn
<1>14. CASE UNCHANGED vars
  <2>1. Loaded' = Loaded
    BY <1>14 DEF vars, Loaded
  <2> QED
    BY <1>14, <2>1
       DEF vars, TypeOK, LockHeld, TmpFull, NeverTorn, Prepared, OpKnown, OnlyRefused
<1> QED
  BY <1>1, <1>2, <1>3, <1>4, <1>5, <1>6, <1>7, <1>8, <1>9, <1>10, <1>11, <1>12,
     <1>13, <1>14 DEF Next, Operate

\* The store's files, lock and threads are always of their kinds, and the lock
\* is never held by a thread that is not inside it.
THEOREM TypeCorrect == Spec => []TypeOK
  BY InitIInv, StepIInv, PTL DEF Spec, IInv

\* profiles.json is never half a file, however the process ends.
THEOREM NeverTornHolds == Spec => []NeverTorn
  BY InitIInv, StepIInv, PTL DEF Spec, IInv

-----------------------------------------------------------------------------
(***************************************************************************)
(* The refinement: one lemma per step that the table sees, and the rest of *)
(* the steps leave the mapped state as it was.                             *)
(***************************************************************************)
Phases == [t \in Threads |-> Phase(t)]
mapped == <<View, Phases, op, answer>>

\* Unless a thread is about to retry, the table is what a load would find.
LEMMA ViewIsLoaded ==
    ASSUME \A t \in Threads : pc[t] # "retry"
    PROVE  View = Loaded
  BY DEF View, Replacing, Loaded, Table!Empty

\* The phases of the threads that do not move.
LEMMA OthersPhases ==
    ASSUME IInv, NEW t \in Threads, pc[t] \in Inside,
           NEW where, Goto(t, where)
    PROVE  /\ \A u \in Threads \ {t} : Phase(u)' = Phase(u)
           /\ \A u \in Threads \ {t} : pc[u] # "retry" /\ pc'[u] # "retry"
           /\ pc'[t] = where
<1>1. \A u \in Threads \ {t} : pc[u] \in {"idle", "lock"} /\ pc'[u] = pc[u]
  BY OthersOutside DEF IInv, Goto, TypeOK
<1> QED
  BY <1>1 DEF Phase, IInv, TypeOK, Goto

\* A step of t that leaves the table, its phase and its call alone is none.
LEMMA Stutters ==
    ASSUME IInv, NEW t \in Threads, pc[t] \in Inside, NEW where, Goto(t, where),
           Phase(t)' = Phase(t), View' = View, UNCHANGED <<op, answer>>
    PROVE  UNCHANGED mapped
  BY OthersPhases DEF mapped, Phases

\* A step of t from called to applied that changes the table as its operation
\* says.
LEMMA Applied ==
    ASSUME IInv, NEW t \in Threads, pc[t] \in Inside, NEW where, Goto(t, where),
           Phase(t) = "called", Phase(t)' = "applied",
           Table!Applies(op[t], View), View' = Table!Effect(op[t], View),
           UNCHANGED <<op, answer>>
    PROVE  Table!Apply(t)
<1>1. Phases' = [Phases EXCEPT ![t] = "applied"]
  BY OthersPhases DEF Phases
<1> QED
  BY <1>1 DEF Table!Apply, Phases

\* Leaving with an answer: the call is over.
LEMMA Returned ==
    ASSUME IInv, NEW t \in Threads, pc[t] \in Inside, NEW ans, Return(t, ans)
    PROVE  /\ Phases' = [Phases EXCEPT ![t] = "idle"]
           /\ op' = [op EXCEPT ![t] = NoOp]
           /\ answer' = [answer EXCEPT ![t] = ans]
           /\ View' = IF target' = Missing THEN Table!Empty ELSE target'
<1>1. Goto(t, "idle")
  BY DEF Return
<1>2. Phases' = [Phases EXCEPT ![t] = "idle"]
  <2>1. Phase(t)' = "idle"
    BY <1>1, OthersPhases DEF Phase
  <2>2. \A u \in Threads \ {t} : Phase(u)' = Phase(u)
    BY <1>1, OthersPhases
  <2> QED
    BY <2>1, <2>2 DEF Phases
<1>3. View' = IF target' = Missing THEN Table!Empty ELSE target'
  BY <1>1, OthersPhases DEF View, Replacing, Table!Empty
<1> QED
  BY <1>2, <1>3 DEF Return

\* An error that leaves the file as it was, or had lost it.
LEMMA ReturnedErr ==
    ASSUME IInv, NEW t \in Threads, pc[t] \in Inside, Return(t, "err"),
           View' = View \/ (ReplaceRefused /\ Phase(t) = "applied" /\ View' = Table!Empty)
    PROVE  Table!ReturnErr(t)
<1>1. Phases[t] = Phase(t) /\ Phase(t) # "idle"
  BY DEF Phases, Phase, Inside, Saving
<1>2. Table!MayVanish({t})
  BY <1>1 DEF Table!MayVanish, Phases
<1> QED
  BY <1>1, <1>2, Returned DEF Table!ReturnErr, Table!Idle, Phases

LEMMA InitRefines == Init => Table!Init
  BY DEF Init, Table!Init, View, Replacing, Phase, Table!Empty

LEMMA StepRefines ==
    ASSUME IInv, [Next]_vars
    PROVE  Table!Next \/ UNCHANGED mapped
<1> USE StoreAssumption DEF IInv
<1>1. ASSUME NEW t \in Threads, NEW o \in Calls[t], Begin(t, o) PROVE Table!Next
  <2>1. pc[t] = "idle" /\ pc' = [pc EXCEPT ![t] = "lock"]
    BY <1>1 DEF Begin, Goto
  <2>2. \A u \in Threads \ {t} : pc'[u] = pc[u]
    BY <2>1 DEF TypeOK
  <2>3. pc'[t] = "lock"
    BY <2>1 DEF TypeOK
  <2>4. Phase(t) = "idle" /\ Phase(t)' = "called"
    BY <2>1, <2>3 DEF Phase
  <2>5. \A u \in Threads \ {t} : Phase(u)' = Phase(u)
    BY <1>1, <2>2 DEF Phase, Begin
  <2>6. Phases' = [Phases EXCEPT ![t] = "called"]
    BY <2>4, <2>5 DEF Phases
  <2>7. View' = View
    BY <1>1, <2>1, <2>2, <2>3 DEF View, Replacing, Begin
  <2>8. Table!Call(t, o)
    BY <1>1, <2>4, <2>6, <2>7 DEF Begin, Table!Call, Table!Idle, Phases
  <2> QED
    BY <1>1, <2>8 DEF Table!Next
<1>2. ASSUME NEW t \in Threads, Acquire(t) PROVE UNCHANGED mapped
  <2>1. pc[t] = "lock" /\ pc' = [pc EXCEPT ![t] = "load"]
    BY <1>2 DEF Acquire, Goto
  <2>2. pc'[t] = "load" /\ \A u \in Threads \ {t} : pc'[u] = pc[u]
    BY <2>1 DEF TypeOK
  <2>3. Phase(t) = "called" /\ Phase(t)' = "called"
    BY <2>1, <2>2 DEF Phase
  <2>4. \A u \in Threads \ {t} : Phase(u)' = Phase(u)
    BY <1>2, <2>2 DEF Phase, Acquire
  <2>5. View' = View
    BY <1>2, <2>1, <2>2 DEF View, Replacing, Acquire
  <2> QED
    BY <1>2, <2>3, <2>4, <2>5 DEF mapped, Phases, Acquire
<1>3. ASSUME NEW t \in Threads, LoadAndChange(t)
      PROVE  Table!Next \/ UNCHANGED mapped
  <2>1. pc[t] = "load" /\ pc[t] \in Inside
    BY <1>3 DEF LoadAndChange, Inside
  <2>2. PICK where \in {"finish", "create"} :
           Goto(t, where) /\ (where = "finish" <=> NothingToSave(op[t]))
    BY <1>3 DEF LoadAndChange
  <2>3. View = Loaded /\ View' = Loaded' /\ Loaded' = Loaded
    <3>1. \A u \in Threads : pc[u] # "retry" /\ pc'[u] # "retry"
      BY <2>1, <2>2, OthersPhases
    <3>2. View' = Loaded'
      BY <3>1 DEF View, Replacing, Loaded, Table!Empty
    <3> QED
      BY <1>3, <3>1, <3>2, ViewIsLoaded DEF Loaded, LoadAndChange
  <2>4. Phase(t) = "called" /\ Phase(t)' = IF where = "finish" THEN "applied" ELSE "called"
    BY <2>1, <2>2, OthersPhases DEF Phase
  <2>5. CASE where = "finish"
    <3>1. op[t] \in Table!Ops /\ Loaded \in Table!Tables
      BY <1>3, <2>1, EmptyIsTable DEF OpKnown, Loaded, TypeOK, Files, LoadAndChange
    <3>2. Table!Effect(op[t], Loaded) = Loaded
      BY <2>2, <2>5, <3>1, NothingChanges DEF NothingToSave
    <3>3. Table!Apply(t)
      BY <1>3, <2>1, <2>2, <2>3, <2>4, <2>5, <3>2, Applied DEF LoadAndChange
    <3> QED
      BY <3>3 DEF Table!Next
  <2>6. CASE where = "create"
    BY <1>3, <2>1, <2>2, <2>3, <2>4, <2>6, Stutters DEF LoadAndChange
  <2> QED
    BY <2>5, <2>6
<1>4. ASSUME NEW t \in Threads, LoadFails(t) \/ WriteFails(t) PROVE Table!Next
  <2>1. pc[t] \in {"load", "create", "fill"} /\ pc[t] \in Inside /\ Return(t, "err")
    BY <1>4 DEF LoadFails, WriteFails, Inside, Saving
  <2>2. \A u \in Threads : pc[u] # "retry"
    BY <2>1, OthersOutside
  <2>3. View = IF target = Missing THEN Table!Empty ELSE target
    BY <2>2 DEF View, Replacing, Table!Empty
  <2>4. View' = View
    BY <1>4, <2>1, <2>3, Returned DEF LoadFails, WriteFails
  <2> QED
    BY <2>1, <2>4, ReturnedErr DEF Table!Next
<1>5. ASSUME NEW t \in Threads, Create(t) \/ Fill(t) \/ Refused(t)
      PROVE  UNCHANGED mapped
  <2>1. pc[t] \in {"create", "fill", "rename"} /\ pc[t] \in Inside
    BY <1>5 DEF Create, Fill, Refused, Inside, Saving
  <2>2. PICK where \in {"fill", "rename", "remove"} : Goto(t, where)
    BY <1>5 DEF Create, Fill, Refused
  <2>3. \A u \in Threads : pc[u] # "retry" /\ pc'[u] # "retry"
    BY <2>1, <2>2, OthersPhases
  <2>4. UNCHANGED <<target, op, answer>>
    BY <1>5 DEF Create, Fill, Refused, InOp
  <2>5. View' = View
    BY <2>3, <2>4 DEF View, Replacing
  <2>6. Phase(t) = "called" /\ Phase(t)' = "called"
    BY <2>1, <2>2, OthersPhases DEF Phase
  <2> QED
    BY <2>1, <2>2, <2>4, <2>5, <2>6, Stutters
<1>6. ASSUME NEW t \in Threads, RenameOver(t) PROVE Table!Next \/ UNCHANGED mapped
  <2>1. pc[t] \in {"rename", "retry"} /\ pc[t] \in Inside /\ Goto(t, "finish")
    BY <1>6 DEF RenameOver, Inside, Saving
  <2>2. tmp = mem[t] /\ tmp \in Table!Tables /\ tmp # Missing
    BY <2>1 DEF TmpFull, TypeOK
  <2>3. UNCHANGED <<op, answer>> /\ target' = tmp /\ View' = tmp
    BY <1>6, <2>2 DEF RenameOver, InOp, View
  <2>4. Phase(t)' = "applied"
    BY <2>1, OthersPhases DEF Phase
  <2>5. CASE pc[t] = "retry" /\ target = Missing
    <3>1. View = tmp /\ Phase(t) = "applied"
      BY <2>5 DEF View, Replacing, Phase
    <3> QED
      BY <2>1, <2>3, <2>4, <3>1, Stutters
  <2>6. CASE ~(pc[t] = "retry" /\ target = Missing)
    <3>1. Phase(t) = "called"
      BY <2>1, <2>6 DEF Phase
    <3>2. View = Loaded
      <4>1. \A u \in Threads \ {t} : pc[u] # "retry"
        BY <2>1, OthersOutside
      <4> QED
        BY <2>1, <2>6, <4>1 DEF View, Replacing, Loaded, Table!Empty
    <3>3. Table!Applies(op[t], View) /\ tmp = Table!Effect(op[t], View)
      BY <2>1, <2>2, <2>6, <3>2 DEF Prepared, Saving
    <3>4. Table!Apply(t)
      BY <2>1, <2>3, <2>4, <3>1, <3>3, Applied
    <3> QED
      BY <3>4 DEF Table!Next
  <2> QED
    BY <2>5, <2>6
<1>7. ASSUME NEW t \in Threads, Remove(t) PROVE Table!Next \/ UNCHANGED mapped
  <2>1. pc[t] = "remove" /\ pc[t] \in Inside /\ Goto(t, "retry")
        /\ UNCHANGED <<tmp, op, answer>> /\ target' \in {target, Missing}
    BY <1>7 DEF Remove, InOp, Inside, Saving
  <2>2. tmp = mem[t] /\ Table!Applies(op[t], Loaded) /\ mem[t] = Table!Effect(op[t], Loaded)
    BY <2>1 DEF TmpFull, Prepared, Saving
  <2>3. View = Loaded
    <3>1. \A u \in Threads : pc[u] # "retry"
      BY <2>1, OthersOutside
    <3> QED
      BY <3>1, ViewIsLoaded
  <2>4. pc'[t] = "retry" /\ Phase(t) = "called"
    BY <2>1, OthersPhases DEF Phase
  <2>5. CASE target' = Missing
    <3>1. View' = tmp /\ Phase(t)' = "applied"
      BY <2>1, <2>4, <2>5 DEF View, Replacing, Phase
    <3>2. Table!Apply(t)
      BY <2>1, <2>2, <2>3, <2>4, <3>1, Applied
    <3> QED
      BY <3>2 DEF Table!Next
  <2>6. CASE target' # Missing
    <3>1. View' = View /\ Phase(t)' = "called"
      BY <2>1, <2>4, <2>6 DEF View, Phase
    <3> QED
      BY <2>1, <2>4, <3>1, Stutters
  <2> QED
    BY <2>5, <2>6
<1>8. ASSUME NEW t \in Threads, RetryFails(t) PROVE Table!Next
  <2>1. pc[t] = "retry" /\ pc[t] \in Inside /\ Return(t, "err") /\ target' = target
    BY <1>8 DEF RetryFails, Inside, Saving
  <2>2. View' = IF target = Missing THEN Table!Empty ELSE target
    BY <2>1, Returned
  <2>3. target # Missing => View = target
    BY DEF View
  <2>4. target = Missing => Phase(t) = "applied" /\ ReplaceRefused
    BY <2>1 DEF Phase, OnlyRefused
  <2>5. Table!ReturnErr(t)
    BY <2>1, <2>2, <2>3, <2>4, ReturnedErr
  <2> QED
    BY <2>5 DEF Table!Next
<1>9. ASSUME NEW t \in Threads, Finish(t) PROVE Table!Next
  <2>1. pc[t] = "finish" /\ pc[t] \in Inside /\ target' = target
    BY <1>9 DEF Finish, Inside
  <2>2. PICK ans \in {"ok", "err"} : Return(t, ans)
    BY <1>9 DEF Finish
  <2>3. \A u \in Threads : pc[u] # "retry"
    BY <2>1, OthersOutside
  <2>4. View' = View
    BY <2>1, <2>2, <2>3, Returned DEF View, Replacing, Table!Empty
  <2>5. Phases[t] = "applied"
    BY <2>1 DEF Phases, Phase
  <2>6. ans = "ok" => Table!ReturnOk(t)
    BY <2>1, <2>2, <2>4, <2>5, Returned DEF Table!ReturnOk, Phases
  <2>7. ans = "err" => Table!ReturnErr(t)
    BY <2>1, <2>2, <2>4, ReturnedErr
  <2> QED
    BY <2>6, <2>7 DEF Table!Next
<1>10. ASSUME Crash PROVE Table!Next
  <2>1. \A u \in Threads : pc'[u] = "idle"
    BY <1>10 DEF Crash
  <2>2. Phases' = [t \in Threads |-> "idle"]
    BY <2>1 DEF Phases, Phase
  <2>3. View' = IF target = Missing THEN Table!Empty ELSE target
    BY <1>10, <2>1 DEF View, Replacing, Table!Empty, Crash
  <2>4. Table!MayVanish(Threads)
    <3>1. CASE View' = View
      BY <3>1 DEF Table!MayVanish
    <3>2. CASE View' # View
      <4>1. PICK t \in Threads : pc[t] = "retry" /\ target = Missing
        BY <2>3, <3>2 DEF View, Replacing, Table!Empty
      <4>2. Phases[t] = "applied" /\ ReplaceRefused
        BY <4>1 DEF Phases, Phase, OnlyRefused
      <4> QED
        BY <2>3, <4>1, <4>2 DEF Table!MayVanish, Phases
    <3> QED
      BY <3>1, <3>2
  <2>5. Table!Crash
    BY <1>10, <2>2, <2>4 DEF Crash, Table!Crash, Phases
  <2> QED
    BY <2>5 DEF Table!Next
<1>11. CASE UNCHANGED vars
  BY <1>11 DEF vars, mapped, View, Replacing, Phases, Phase
<1> QED
  BY <1>1, <1>2, <1>3, <1>4, <1>5, <1>6, <1>7, <1>8, <1>9, <1>10, <1>11
     DEF Next, Operate

\* The store, with its lock and its two files, is the table it promises to be.
THEOREM StoreImplementsTable == Spec => ImplementsTable
<1>1. Init => IInv /\ Table!Init
  BY InitIInv, InitRefines
<1>2. IInv /\ [Next]_vars => IInv'
  BY StepIInv
<1>3. IInv /\ [Next]_vars => [Table!Next]_(Table!tableVars)
  BY StepRefines DEF Table!tableVars, mapped, Phases
<1> QED
  BY <1>1, <1>2, <1>3, PTL DEF Spec, ImplementsTable, Table!Spec
=============================================================================
