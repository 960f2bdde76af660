------------------------------ MODULE WinLogin ------------------------------
(***************************************************************************)
(* The authentication of the Windows client's sessions and what it does to *)
(* the saved passwords (windows/src-tauri/src/vpn: session.rs, persist.rs, *)
(* request.rs, cred.rs; commands.rs).  A password is kept in a file of the *)
(* profile or, shared, in a file of the login domain.  The main thread     *)
(* reads them for a request; the worker of the session saves them after    *)
(* the server let it in, and deletes them after it did not, which it tells *)
(* by auth_detail.  A disconnect frees the status before the old worker    *)
(* has left obtain_cookie, so that sessions overlap.                       *)
(*                                                                         *)
(* One domain holds all profiles.  A change of the profile table is one    *)
(* step (ProfileStore shows that it may be taken for one), and so is the   *)
(* replacement or the removal of one secret's file.                        *)
(***************************************************************************)
EXTENDS Progress

CONSTANTS
    Profiles,        \* profile ids
    Passwords,       \* passwords
    Good,            \* those the server knows
    None,            \* no password
    InitStores,      \* what is saved at first, to choose from
    Asks,            \* what the user asks for: a profile, a password typed, what is ticked
    WriteFails,      \* whether the write of a file may fail
    RemoveFails,     \* whether a file may not be removed
    OpenError,       \* the line "Failed to open HTTPS connection to ..."
    Lines            \* what else the library may say

ASSUME LoginAssumption ==
    /\ Profiles # {}
    /\ Good \subseteq Passwords
    /\ None \notin Passwords
    /\ InitStores \subseteq [own : [Profiles -> Passwords \cup {None}],
                             realm : Passwords \cup {None}, shared : SUBSET Profiles]
    /\ Asks \subseteq [profile : Profiles, typed : Passwords \cup {None},
                       saves : SUBSET {"own", "domain"}]
    /\ WriteFails \in BOOLEAN /\ RemoveFails \in BOOLEAN
    /\ OpenError \in Messages /\ OpenError.about = "reach" /\ Kept(OpenError)
    /\ Lines \subseteq Messages

VARIABLES
    own,             \* secrets/<profile>.bin
    realm,           \* secrets/realm/<domain>.bin
    shared,          \* per profile: use_shared_login
    status,          \* the connection state, as far as connect() looks at it
    asked,           \* the request the main thread is putting together
    sess,            \* the worker of each session
    beside           \* per session: the others that lived since it began to authenticate

loginVars == <<own, realm, shared, status, asked, sess, beside>>
vars == <<detail, loginVars>>

Secrets == Passwords \cup {None}

\* Where a worker is.  Up to "returning" it is inside obtain_cookie.
InLibrary == {"auth", "form", "returning", "opening"}
Forgetting == {"forgetOwn", "forgetRealm"}
Saving == {"writeRealm", "dropOwn", "markDomain", "writeOwn", "remember"}
WorkerPc == {"none", "start", "take", "judge", "up", "connected", "failed", "done"}
            \cup InLibrary \cup Forgetting \cup Saving

WorkerRec == [pc : WorkerPc, profile : Profiles, pw : Secrets, saves : SUBSET {"own", "domain"},
              usedShared : BOOLEAN, toShared : BOOLEAN, reached : BOOLEAN, refused : BOOLEAN,
              taken : Details]
Requests == [pc : {"ready", "realm", "has"}, profile : Profiles, typed : Secrets,
             saves : SUBSET {"own", "domain"}, shared : BOOLEAN, pw : Secrets]

TypeOK ==
    /\ detail \in Details
    /\ own \in [Profiles -> Secrets] /\ realm \in Secrets
    /\ shared \in SUBSET Profiles
    /\ status \in {"Idle", "Connecting", "Connected"}
    /\ asked \in Requests
    /\ sess \in [Sessions -> WorkerRec]
    /\ beside \in [Sessions -> SUBSET Sessions]
    /\ \A i \in Sessions : sess[i].usedShared => sess[i].pw # None

NoRequest == [pc |-> "ready", profile |-> CHOOSE p \in Profiles : TRUE, typed |-> None,
              saves |-> {}, shared |-> FALSE, pw |-> None]

NoDetail == [about |-> "none", by |-> Nobody]
NoSession == [pc |-> "none", profile |-> CHOOSE p \in Profiles : TRUE, pw |-> None,
              saves |-> {}, usedShared |-> FALSE, toShared |-> FALSE, reached |-> FALSE,
              refused |-> FALSE, taken |-> NoDetail]

Init ==
    /\ detail = NoDetail
    /\ \E st \in InitStores : own = st.own /\ realm = st.realm /\ shared = st.shared
    /\ status = "Idle"
    /\ asked = NoRequest
    /\ sess = [i \in Sessions |-> NoSession]
    /\ beside = [i \in Sessions |-> {}]

Stores == <<own, realm, shared>>
At(i, where) == sess[i].pc = where
Go(i, where) == sess' = [sess EXCEPT ![i].pc = where]
Alive(i) == sess[i].pc \notin {"none", "done"}

\* A worker that is past its authentication has no more use for most of what it
\* knew; of one that is done only whether its password was refused matters.
Past(i, where) ==
    sess' = [sess EXCEPT ![i] =
               IF sess[i].refused
               THEN [NoSession EXCEPT !.pc = where, !.refused = TRUE, !.profile = sess[i].profile,
                                      !.pw = sess[i].pw, !.usedShared = sess[i].usedShared]
               ELSE [NoSession EXCEPT !.pc = where]]

-----------------------------------------------------------------------------
(***************************************************************************)
(* The main thread: connect_vpn.                                           *)
(***************************************************************************)
\* get_profile, and in cred::resolve the file of the profile.
Ask(q) ==
    /\ asked.pc = "ready"
    /\ LET p == q.profile IN
       asked' = [pc |-> IF own[p] = None /\ p \in shared THEN "realm" ELSE "has",
                 profile |-> p, typed |-> q.typed, saves |-> q.saves,
                 shared |-> p \in shared, pw |-> own[p]]
    /\ UNCHANGED <<detail, Stores, status, sess, beside>>

\* cred::resolve: the file of the domain, for a profile that opted in.
ReadRealm ==
    /\ asked.pc = "realm"
    /\ asked' = [asked EXCEPT !.pc = "has", !.pw = realm]
    /\ UNCHANGED <<detail, Stores, status, sess, beside>>

\* Fault: from_profile without its look at the password itself.
RequestEmptyShared ==
    [NoSession EXCEPT
       !.pc = "start", !.profile = asked.profile, !.saves = asked.saves,
       !.pw = IF asked.typed # None THEN asked.typed ELSE asked.pw,
       !.usedShared = asked.typed = None /\ asked.shared /\ own[asked.profile] = None]

\* from_profile looks at the profile's file again; what was typed overrides.
Request ==
    [NoSession EXCEPT
       !.pc = "start", !.profile = asked.profile, !.saves = asked.saves,
       !.pw = IF asked.typed # None THEN asked.typed ELSE asked.pw,
       !.usedShared = /\ asked.typed = None /\ asked.shared
                      /\ own[asked.profile] = None /\ asked.pw # None]

\* connect(): refused while Connecting or Connected.
Connect(i) ==
    /\ asked.pc = "has"
    /\ status = "Idle"
    /\ At(i, "none")
    /\ status' = "Connecting"
    /\ sess' = [sess EXCEPT ![i] = Request]
    /\ beside' = [j \in Sessions |-> IF Alive(j) THEN beside[j] \cup {i} ELSE beside[j]]
    /\ asked' = NoRequest
    /\ UNCHANGED <<detail, Stores>>

ConnectRefused ==
    /\ asked.pc = "has"
    /\ status # "Idle"
    /\ asked' = NoRequest
    /\ UNCHANGED <<detail, Stores, status, sess, beside>>

\* disconnect(): Disconnecting.  The cancel it sends only makes the library
\* return sooner than it may by itself.
Disconnect ==
    /\ asked.pc = "ready"
    /\ status # "Idle"
    /\ status' = "Idle"
    /\ UNCHANGED <<detail, Stores, asked, sess, beside>>

-----------------------------------------------------------------------------
(***************************************************************************)
(* The worker inside obtain_cookie, and its callbacks.                     *)
(***************************************************************************)
InCallback == UNCHANGED <<Stores, status, asked, beside>>

\* Fault: auth_detail not emptied.
AuthenticateKeeps(i) ==
    /\ At(i, "start")
    /\ Go(i, "auth")
    /\ beside' = [beside EXCEPT ![i] = {j \in Sessions \ {i} : Alive(j)}]
    /\ UNCHANGED <<detail, Stores, status, asked>>

\* session_body: set_auth_detail("") and obtain_cookie.
Authenticate(i) ==
    /\ At(i, "start")
    /\ take_auth_detail(i)
    /\ Go(i, "auth")
    /\ beside' = [beside EXCEPT ![i] = {j \in Sessions \ {i} : Alive(j)}]
    /\ UNCHANGED <<Stores, status, asked>>

\* The library speaks while it logs in, and after that until the session ends.
Speak(i, m) ==
    /\ sess[i].pc \in {"auth", "up", "connected"}
    /\ Says(i, m)
    /\ UNCHANGED loginVars

\* HTTPS is open: from here the server can ask.
HttpsOpens(i) ==
    /\ At(i, "auth")
    /\ sess' = [sess EXCEPT ![i].reached = TRUE]
    /\ UNCHANGED <<detail, Stores, status, asked, beside>>

\* validate_peer_cert refuses; the library then fails to open.
CertRefused(i) ==
    /\ At(i, "auth")
    /\ set_auth_detail(i, "other")
    /\ Go(i, "opening")
    /\ InCallback

\* HTTPS cannot be opened, for the first time or again: the last error the
\* library prints says so.
OpenFails(i) ==
    /\ At(i, "auth") \/ At(i, "opening")
    /\ Says(i, OpenError)
    /\ Go(i, "returning")
    /\ UNCHANGED <<Stores, status, asked, beside>>

\* process_auth_form: first the error of the form, which is the server's text.
FormError(i) ==
    /\ At(i, "auth") /\ sess[i].reached
    /\ \E about \in {"reach", "other"} : set_auth_detail(i, about)
    /\ Go(i, "form")
    /\ InCallback

\* ... then its fields: filled, or the group asked for anew.
FormFilled(i) ==
    /\ At(i, "form")
    /\ Go(i, "auth")
    /\ UNCHANGED <<detail, Stores, status, asked, beside>>

\* ... or not to be filled: no such group, no user name, no password, nothing
\* to fill twice running.
FormCancelled(i) ==
    /\ At(i, "form") \/ (At(i, "auth") /\ sess[i].reached)
    /\ set_auth_detail(i, "other")
    /\ Go(i, "returning")
    /\ InCallback

\* obtain_cookie fails: for one of these reasons, because the server refuses or
\* goes away, or because the session was cancelled.
ObtainFails(i) ==
    /\ At(i, "returning") \/ (At(i, "auth") /\ sess[i].reached)
    /\ Go(i, "take")
    /\ UNCHANGED <<detail, Stores, status, asked, beside>>

-----------------------------------------------------------------------------
(***************************************************************************)
(* The worker after a failure.                                             *)
(***************************************************************************)
TakeAuthDetail(i) ==
    /\ At(i, "take")
    /\ sess' = [sess EXCEPT ![i].pc = "judge", ![i].taken = detail]
    /\ take_auth_detail(i)
    /\ UNCHANGED <<Stores, status, asked, beside>>

\* Fault: every failure is taken for a refusal.
JudgeAll(i) ==
    /\ At(i, "judge")
    /\ sess' = [sess EXCEPT ![i].pc = "forgetOwn", ![i].refused = TRUE,
                            ![i].taken = NoDetail]
    /\ UNCHANGED <<detail, Stores, status, asked, beside>>

\* Whether the saved login is to blame.
Judge(i) ==
    /\ At(i, "judge")
    /\ IF sess[i].taken.about = "reach"
       THEN Past(i, "failed")
       ELSE sess' = [sess EXCEPT ![i].pc = "forgetOwn", ![i].refused = TRUE,
                                 ![i].taken = NoDetail]
    /\ UNCHANGED <<detail, Stores, status, asked, beside>>

\* What is left of a secret that is removed; nobody looks whether it was.
Removed(old) == {None} \cup (IF RemoveFails THEN {old} ELSE {})

\* Fault: the shared login is left alone.
ForgetOwnOnly(i) ==
    /\ At(i, "forgetOwn")
    /\ \E v \in Removed(own[sess[i].profile]) : own' = [own EXCEPT ![sess[i].profile] = v]
    /\ Go(i, "failed")
    /\ UNCHANGED <<detail, realm, shared, status, asked, beside>>

\* after_auth_fail
ForgetOwn(i) ==
    /\ At(i, "forgetOwn")
    /\ \E v \in Removed(own[sess[i].profile]) : own' = [own EXCEPT ![sess[i].profile] = v]
    /\ Go(i, IF "domain" \in sess[i].saves \/ sess[i].usedShared
             THEN "forgetRealm" ELSE "failed")
    /\ UNCHANGED <<detail, realm, shared, status, asked, beside>>

ForgetRealm(i) ==
    /\ At(i, "forgetRealm")
    /\ realm' \in Removed(realm)
    /\ Go(i, "failed")
    /\ UNCHANGED <<detail, own, shared, status, asked, beside>>

\* run_session returns the error: the status, if it is anything, is Error.
Report(i) ==
    /\ At(i, "failed")
    /\ status' = "Idle"
    /\ Past(i, "done")
    /\ beside' = [beside EXCEPT ![i] = {}]
    /\ UNCHANGED <<detail, Stores, asked>>

-----------------------------------------------------------------------------
(***************************************************************************)
(* The worker after the server let it in: after_auth_ok.                   *)
(***************************************************************************)
AfterAuthOk(r) ==
    IF r.saves = {} THEN "up"
    ELSE IF "domain" \in r.saves /\ r.pw # None THEN "writeRealm"
    ELSE IF r.pw # None THEN "writeOwn"
    ELSE "remember"

\* The server knows the good passwords, and may let a request in that has none.
ObtainsCookie(i) ==
    /\ At(i, "auth") /\ sess[i].reached
    /\ sess[i].pw \in Good \cup {None}
    /\ Go(i, AfterAuthOk(sess[i]))
    /\ UNCHANGED <<detail, Stores, status, asked, beside>>

WriteRealm(i) ==
    /\ At(i, "writeRealm")
    /\ \/ realm' = sess[i].pw /\ Go(i, "dropOwn")
       \/ WriteFails /\ Go(i, "writeOwn") /\ UNCHANGED realm
    /\ UNCHANGED <<detail, own, shared, status, asked, beside>>

\* Fault: the profile keeps a password of its own.
DropOwnNot(i) ==
    /\ At(i, "dropOwn")
    /\ sess' = [sess EXCEPT ![i].pc = "markDomain", ![i].toShared = TRUE]
    /\ UNCHANGED <<detail, Stores, status, asked, beside>>

DropOwn(i) ==
    /\ At(i, "dropOwn")
    /\ \E v \in Removed(own[sess[i].profile]) : own' = [own EXCEPT ![sess[i].profile] = v]
    /\ sess' = [sess EXCEPT ![i].pc = "markDomain", ![i].toShared = TRUE]
    /\ UNCHANGED <<detail, realm, shared, status, asked, beside>>

\* set_shared_for_domain: an error of the store is ignored.
MarkDomain(i) ==
    /\ At(i, "markDomain")
    /\ shared' \in {Profiles} \cup (IF WriteFails THEN {shared} ELSE {})
    /\ Go(i, "remember")
    /\ UNCHANGED <<detail, own, realm, status, asked, beside>>

\* An error of either of the last two leaves after_auth_ok and is only logged.
WriteOwn(i) ==
    /\ At(i, "writeOwn")
    /\ \/ own' = [own EXCEPT ![sess[i].profile] = sess[i].pw] /\ Go(i, "remember")
       \/ WriteFails /\ Go(i, "up") /\ UNCHANGED own
    /\ UNCHANGED <<detail, realm, shared, status, asked, beside>>

Remember(i) ==
    /\ At(i, "remember")
    /\ \/ shared' = IF sess[i].toShared THEN shared \cup {sess[i].profile}
                                        ELSE shared \ {sess[i].profile}
       \/ WriteFails /\ UNCHANGED shared
    /\ Go(i, "up")
    /\ UNCHANGED <<detail, own, realm, status, asked, beside>>

\* make_cstp and set-up; then Connected, whatever the status was.
Publish(i) ==
    /\ At(i, "up")
    /\ status' = "Connected"
    /\ Past(i, "connected")
    /\ UNCHANGED <<detail, Stores, asked, beside>>

\* run_session comes to its end, and spares a newer session's Connecting.
End(i) ==
    /\ At(i, "connected")
    /\ status' = IF status = "Connected" THEN "Idle" ELSE status
    /\ Past(i, "done")
    /\ beside' = [beside EXCEPT ![i] = {}]
    /\ UNCHANGED <<detail, Stores, asked>>

SessionFails(i) ==
    /\ At(i, "up")
    /\ Past(i, "failed")
    /\ UNCHANGED <<detail, Stores, status, asked, beside>>

-----------------------------------------------------------------------------
Main ==
    \/ \E q \in Asks : Ask(q)
    \/ ReadRealm \/ ConnectRefused \/ Disconnect
    \/ \E i \in Sessions : Connect(i)

Library(i) ==
    \/ \E m \in Lines : Speak(i, m)
    \/ HttpsOpens(i) \/ CertRefused(i) \/ OpenFails(i)
    \/ FormError(i) \/ FormFilled(i) \/ FormCancelled(i) \/ ObtainFails(i)

Worker(i) ==
    \/ Authenticate(i) \/ TakeAuthDetail(i) \/ Judge(i)
    \/ ForgetOwn(i) \/ ForgetRealm(i) \/ Report(i)
    \/ ObtainsCookie(i) \/ WriteRealm(i) \/ DropOwn(i) \/ MarkDomain(i)
    \/ WriteOwn(i) \/ Remember(i) \/ Publish(i) \/ End(i) \/ SessionFails(i)

Next == Main \/ \E i \in Sessions : Library(i) \/ Worker(i)

Spec == Init /\ [][Next]_vars

-----------------------------------------------------------------------------
\* What judges a failed login was said in its own time: by itself, or by a
\* session that lived beside it, never by one that had gone before.
FreshDetail ==
    \A i \in Sessions : At(i, "judge") => sess[i].taken.by \in {i} \cup beside[i]

\* A login that had the process to itself and did not get as far as HTTPS, so
\* that no password was sent, does not take the saved one away.
LoneUnreachedKeeps ==
    \A i \in Sessions :
        sess[i].pc \in Forgetting /\ beside[i] = {} => sess[i].reached

\* The same of every login, as session.rs puts it: "HTTPS open failures happen
\* BEFORE the server can ask for a password."
UnreachedKeepsLogin ==
    \A i \in Sessions : sess[i].pc \in Forgetting => sess[i].reached

\* A password the server does not know, and by which a login failed, is in the
\* profile's file no more, nor in the domain's if it came from there.
RefusedForgotten ==
    \A i \in Sessions :
        /\ ~RemoveFails
        /\ sess[i].pc \in {"failed", "done"} /\ sess[i].refused
        /\ sess[i].pw \notin Good \cup {None}
        => /\ own[sess[i].profile] # sess[i].pw
           /\ sess[i].usedShared => realm # sess[i].pw

\* What the next request for a profile will find.
Resolved(p) == IF own[p] = None /\ p \in shared THEN realm ELSE own[p]

\* A login that had the process to itself, asked to be saved and whose password
\* reached a file is the one the next request finds, though it may move from one
\* file to the other and the profile's own note of it may not be written: unless
\* the file left behind cannot be removed, or no note makes the profile look into
\* the domain's file it moved to.
SavedResolves ==
    [][\A i \in Sessions :
         /\ At(i, "remember") /\ sess'[i].pc = "up"
         /\ beside[i] = {} /\ sess[i].pw # None /\ ~RemoveFails
         /\ (sess[i].toShared => sess[i].profile \in shared')
         => Resolved(sess[i].profile)' = sess[i].pw]_vars
=============================================================================
