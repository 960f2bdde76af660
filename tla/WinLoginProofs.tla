--------------------------- MODULE WinLoginProofs ---------------------------
(***************************************************************************)
(* What is true of the saved logins for every set of sessions, profiles,   *)
(* passwords and messages.                                                 *)
(***************************************************************************)
EXTENDS WinLogin, TLAPS

\* Between the beginning of its authentication and its end a session knows of
\* all that live beside it.
Begun == WorkerPc \ {"none", "start", "done"}
Overlap ==
    \A i \in Sessions : \A j \in Sessions :
        i # j /\ sess[i].pc \in Begun /\ Alive(j) => j \in beside[i]

\* Whose words auth_detail may hold while i may still come to take it, and what
\* they are if they are those of a session that did not get as far as HTTPS.
Heard(i) ==
    /\ sess[i].pc \in InLibrary \cup {"take"} => detail.by \in {i} \cup beside[i]
    /\ sess[i].pc \in {"returning", "take"} /\ ~sess[i].reached /\ detail.by = i
         => detail.about = "reach"
    /\ sess[i].pc = "form" => sess[i].reached

\* The same of what it took, and what follows from that.
Taken(i) ==
    /\ sess[i].pc = "judge" => sess[i].taken.by \in {i} \cup beside[i]
    /\ sess[i].pc = "judge" /\ ~sess[i].reached /\ sess[i].taken.by = i
         => sess[i].taken.about = "reach"
    /\ sess[i].pc \in Forgetting /\ ~sess[i].reached => beside[i] # {}

\* A refused password that the server does not know: what has been removed by
\* now is not there again.
Forgotten(i) ==
    /\ sess[i].refused => sess[i].pc \in Forgetting \cup {"failed", "done"}
    /\ sess[i].refused /\ sess[i].pw \notin Good \cup {None} /\ ~RemoveFails =>
         /\ sess[i].pc \in {"forgetRealm", "failed", "done"}
               => own[sess[i].profile] # sess[i].pw
         /\ sess[i].pc \in {"failed", "done"} /\ sess[i].usedShared
               => realm # sess[i].pw

\* How far a login has come with being saved.
Saved(i) ==
    /\ sess[i].pc \in {"writeRealm", "dropOwn", "markDomain", "writeOwn"}
         => sess[i].pw \in Good
    /\ sess[i].pc \notin {"markDomain", "remember", "up"} => ~sess[i].toShared
    /\ sess[i].pc = "markDomain" => sess[i].toShared
    /\ beside[i] = {} /\ ~RemoveFails =>
         /\ sess[i].pc \in {"dropOwn", "markDomain"} => realm = sess[i].pw
         /\ sess[i].pc = "markDomain" => own[sess[i].profile] = None
         /\ sess[i].pc = "remember" /\ sess[i].pw # None =>
              IF sess[i].toShared
              THEN realm = sess[i].pw /\ own[sess[i].profile] = None
              ELSE own[sess[i].profile] = sess[i].pw

Mine(i) == Heard(i) /\ Taken(i) /\ Forgotten(i) /\ Saved(i)
SessInv == \A i \in Sessions : Mine(i)
IInv == TypeOK /\ Overlap /\ SessInv

-----------------------------------------------------------------------------
\* A step of the worker of i: what it leaves alone, and what it may do to the
\* state all share.
StepOf(i) ==
    /\ \A j \in Sessions \ {i} : sess'[j] = sess[j] /\ beside'[j] = beside[j]
    /\ detail' = detail \/ detail'.by = i
    /\ \A p \in Profiles : own'[p] \in {own[p], None} \cup Good
    /\ realm' \in {realm, None} \cup Good

\* The fields of a worker that Go does not touch.
Keeps(i) ==
    /\ sess'[i].profile = sess[i].profile /\ sess'[i].pw = sess[i].pw
    /\ sess'[i].saves = sess[i].saves /\ sess'[i].usedShared = sess[i].usedShared
    /\ sess'[i].toShared = sess[i].toShared /\ sess'[i].reached = sess[i].reached
    /\ sess'[i].refused = sess[i].refused /\ sess'[i].taken = sess[i].taken

LEMMA NoneLoggedIn == NoSession \in WorkerRec /\ NoRequest \in Requests
  BY LoginAssumption DEF NoSession, NoRequest, NoDetail, WorkerRec, Requests,
     WorkerPc, Secrets, Details, Abouts

LEMMA Goes ==
    ASSUME TypeOK, NEW i \in Sessions, NEW where \in WorkerPc, Go(i, where)
    PROVE  /\ sess' \in [Sessions -> WorkerRec]
           /\ sess'[i].pc = where /\ Keeps(i)
           /\ \A j \in Sessions \ {i} : sess'[j] = sess[j]
<1> DEFINE r == [sess[i] EXCEPT !.pc = where]
<1>1. sess[i] \in WorkerRec
  BY DEF TypeOK
<1>2. r \in WorkerRec
  BY <1>1 DEF WorkerRec
<1>3. sess' = [sess EXCEPT ![i] = r]
  BY DEF Go
<1>4. /\ r.pc = where /\ r.profile = sess[i].profile /\ r.pw = sess[i].pw
      /\ r.saves = sess[i].saves /\ r.usedShared = sess[i].usedShared
      /\ r.toShared = sess[i].toShared /\ r.reached = sess[i].reached
      /\ r.refused = sess[i].refused /\ r.taken = sess[i].taken
  BY <1>1 DEF WorkerRec
<1> HIDE DEF r
<1> QED
  BY <1>2, <1>3, <1>4 DEF TypeOK, Keeps

LEMMA GoesPast ==
    ASSUME TypeOK, NEW i \in Sessions, NEW where \in WorkerPc, Past(i, where)
    PROVE  /\ sess' \in [Sessions -> WorkerRec]
           /\ sess'[i].pc = where
           /\ sess'[i].refused = sess[i].refused
           /\ ~sess'[i].toShared
           /\ sess[i].refused => /\ sess'[i].profile = sess[i].profile
                                 /\ sess'[i].pw = sess[i].pw
                                 /\ sess'[i].usedShared = sess[i].usedShared
           /\ ~sess[i].refused => ~sess'[i].usedShared /\ sess'[i].pw = None
           /\ \A j \in Sessions \ {i} : sess'[j] = sess[j]
<1> DEFINE r == IF sess[i].refused
                THEN [NoSession EXCEPT !.pc = where, !.refused = TRUE,
                        !.profile = sess[i].profile, !.pw = sess[i].pw,
                        !.usedShared = sess[i].usedShared]
                ELSE [NoSession EXCEPT !.pc = where]
<1>1. sess[i] \in WorkerRec /\ NoSession \in WorkerRec
  BY NoneLoggedIn DEF TypeOK
<1>2. r \in WorkerRec
  BY <1>1 DEF WorkerRec
<1>3. sess' = [sess EXCEPT ![i] = r]
  BY DEF Past
<1>4. NoSession.pw = None /\ ~NoSession.usedShared /\ ~NoSession.toShared
      /\ ~NoSession.refused
  BY DEF NoSession
<1>5. /\ r.pc = where /\ r.refused = sess[i].refused /\ ~r.toShared
      /\ sess[i].refused => /\ r.profile = sess[i].profile /\ r.pw = sess[i].pw
                            /\ r.usedShared = sess[i].usedShared
      /\ ~sess[i].refused => ~r.usedShared /\ r.pw = None
  BY <1>1, <1>4 DEF WorkerRec
<1> HIDE DEF r
<1> QED
  BY <1>2, <1>3, <1>5 DEF TypeOK

\* A message leaves auth_detail as it was or makes it the words of the session.
LEMMA SaysWhat ==
    ASSUME TypeOK, NEW i \in Sessions, NEW m \in Messages, Says(i, m)
    PROVE  /\ detail' \in Details
           /\ detail' = detail \/ (detail'.by = i /\ detail'.about = m.about)
           /\ Kept(m) => detail'.by = i /\ detail'.about = m.about
<1>1. m.about \in {"reach", "other"}
  BY DEF Messages
<1> QED
  BY <1>1 DEF Says, set_auth_detail, Details, Abouts, TypeOK

-----------------------------------------------------------------------------
\* A step of i leaves what is said of the other sessions true: it may write
\* auth_detail, but those who will judge by it have i beside them, and it may
\* write a password, but none that the server does not know.
LEMMA OthersStand ==
    ASSUME IInv, TypeOK', NEW i \in Sessions, Alive(i), StepOf(i),
           NEW j \in Sessions, j # i
    PROVE  Mine(j)'
<1>1. sess'[j] = sess[j] /\ beside'[j] = beside[j]
  BY DEF StepOf
<1>2. sess[j].pc \in Begun => i \in beside[j]
  BY DEF IInv, Overlap
<1>3. Mine(j) /\ sess[j] \in WorkerRec /\ sess[j].profile \in Profiles
  BY DEF IInv, SessInv, TypeOK, WorkerRec
<1>4. Heard(j)'
  BY <1>1, <1>2, <1>3 DEF Mine, Heard, StepOf, Begun, InLibrary, WorkerPc
<1>5. Taken(j)'
  BY <1>1, <1>3 DEF Mine, Taken
<1>6. Forgotten(j)'
  BY <1>1, <1>3 DEF Mine, Forgotten, StepOf
<1>7. Saved(j)'
  <2>1. CASE sess[j].pc \in Begun
    BY <1>1, <1>2, <1>3, <2>1 DEF Mine, Saved
  <2>2. CASE sess[j].pc \notin Begun
    BY <1>1, <1>3, <2>2 DEF Mine, Saved, Begun, WorkerPc, Saving, WorkerRec
  <2> QED
    BY <2>1, <2>2
<1> QED
  BY <1>4, <1>5, <1>6, <1>7 DEF Mine

LEMMA WholeStands ==
    ASSUME IInv, TypeOK', NEW i \in Sessions, Alive(i), StepOf(i), Mine(i)',
           \/ beside'[i] = beside[i] /\ sess[i].pc \in Begun
           \/ sess'[i].pc \notin Begun
    PROVE  IInv'
<1>1. Overlap'
  <2> SUFFICES ASSUME NEW j \in Sessions, NEW k \in Sessions, j # k,
                      sess'[j].pc \in Begun, Alive(k)'
               PROVE  k \in beside'[j]
    BY DEF Overlap
  <2>1. CASE j = i
    <3>1. sess'[k] = sess[k]
      BY <2>1 DEF StepOf
    <3> QED
      BY <2>1, <3>1 DEF IInv, Overlap, Alive
  <2>2. CASE j # i
    <3>1. sess'[j] = sess[j] /\ beside'[j] = beside[j]
      BY <2>2 DEF StepOf
    <3>2. Alive(k)
      BY DEF StepOf, Alive
    <3> QED
      BY <3>1, <3>2 DEF IInv, Overlap
  <2> QED
    BY <2>1, <2>2
<1>2. SessInv'
  BY OthersStand DEF SessInv
<1> QED
  BY <1>1, <1>2 DEF IInv

-----------------------------------------------------------------------------
(***************************************************************************)
(* The steps of a worker, each with what it does to its own session.       *)
(***************************************************************************)
LEMMA CertRefusedStands ==
    ASSUME IInv, NEW i \in Sessions, CertRefused(i)
    PROVE  IInv'
<1>1. TypeOK /\ Mine(i) /\ sess[i] \in WorkerRec
  BY DEF IInv, SessInv, TypeOK
<1>2. "opening" \in WorkerPc
  BY DEF WorkerPc, InLibrary, Forgetting, Saving
<1>3. /\ sess' \in [Sessions -> WorkerRec]
      /\ sess'[i].pc = "opening" /\ Keeps(i)
      /\ \A j \in Sessions \ {i} : sess'[j] = sess[j]
  BY <1>1, <1>2, Goes DEF CertRefused
<1>4. TypeOK'
  BY <1>1, <1>3 DEF CertRefused, TypeOK, Keeps, Stores, InCallback,
     take_auth_detail, set_auth_detail, Details, Abouts
<1>5. StepOf(i) /\ beside' = beside
  BY <1>1, <1>3 DEF CertRefused, TypeOK, WorkerRec, StepOf, Stores, InCallback,
     take_auth_detail, set_auth_detail, Details, Abouts
<1>6. Mine(i)'
  BY <1>1, <1>3 DEF CertRefused, At, Mine, Heard, Taken, Forgotten, Saved, Keeps,
     TypeOK, WorkerRec, InLibrary, Forgetting, Stores, InCallback, take_auth_detail,
     set_auth_detail, Details, Abouts
<1> QED
  BY <1>3, <1>4, <1>5, <1>6, WholeStands DEF CertRefused, At, Alive, Begun, WorkerPc,
     InLibrary, Forgetting, Saving, AfterAuthOk

LEMMA OpenFailsStands ==
    ASSUME IInv, NEW i \in Sessions, OpenFails(i)
    PROVE  IInv'
<1>1. TypeOK /\ Mine(i) /\ sess[i] \in WorkerRec
  BY DEF IInv, SessInv, TypeOK
<1>2. "returning" \in WorkerPc
  BY DEF WorkerPc, InLibrary, Forgetting, Saving
<1>0. detail' \in Details /\ detail'.by = i /\ detail'.about = "reach"
  BY <1>1, SaysWhat, LoginAssumption DEF OpenFails
<1>3. /\ sess' \in [Sessions -> WorkerRec]
      /\ sess'[i].pc = "returning" /\ Keeps(i)
      /\ \A j \in Sessions \ {i} : sess'[j] = sess[j]
  BY <1>1, <1>2, Goes DEF OpenFails
<1>4. TypeOK'
  BY <1>1, <1>3, <1>0 DEF OpenFails, TypeOK, Keeps, Stores, InCallback
<1>5. StepOf(i) /\ beside' = beside
  BY <1>1, <1>3, <1>0 DEF OpenFails, TypeOK, WorkerRec, StepOf, Stores, InCallback
<1>6. Mine(i)'
  BY <1>1, <1>3, <1>0 DEF OpenFails, At, Mine, Heard, Taken, Forgotten, Saved, Keeps,
     TypeOK, WorkerRec, InLibrary, Forgetting, Stores, InCallback
<1> QED
  BY <1>3, <1>4, <1>5, <1>6, WholeStands DEF OpenFails, At, Alive, Begun, WorkerPc,
     InLibrary, Forgetting, Saving, AfterAuthOk

LEMMA FormErrorStands ==
    ASSUME IInv, NEW i \in Sessions, FormError(i)
    PROVE  IInv'
<1>1. TypeOK /\ Mine(i) /\ sess[i] \in WorkerRec
  BY DEF IInv, SessInv, TypeOK
<1>2. "form" \in WorkerPc
  BY DEF WorkerPc, InLibrary, Forgetting, Saving
<1>3. /\ sess' \in [Sessions -> WorkerRec]
      /\ sess'[i].pc = "form" /\ Keeps(i)
      /\ \A j \in Sessions \ {i} : sess'[j] = sess[j]
  BY <1>1, <1>2, Goes DEF FormError
<1>4. TypeOK'
  BY <1>1, <1>3 DEF FormError, TypeOK, Keeps, Stores, InCallback, take_auth_detail,
     set_auth_detail, Details, Abouts
<1>5. StepOf(i) /\ beside' = beside
  BY <1>1, <1>3 DEF FormError, TypeOK, WorkerRec, StepOf, Stores, InCallback,
     take_auth_detail, set_auth_detail, Details, Abouts
<1>6. Mine(i)'
  BY <1>1, <1>3 DEF FormError, At, Mine, Heard, Taken, Forgotten, Saved, Keeps,
     TypeOK, WorkerRec, InLibrary, Forgetting, Stores, InCallback, take_auth_detail,
     set_auth_detail, Details, Abouts
<1> QED
  BY <1>3, <1>4, <1>5, <1>6, WholeStands DEF FormError, At, Alive, Begun, WorkerPc,
     InLibrary, Forgetting, Saving, AfterAuthOk

LEMMA FormFilledStands ==
    ASSUME IInv, NEW i \in Sessions, FormFilled(i)
    PROVE  IInv'
<1>1. TypeOK /\ Mine(i) /\ sess[i] \in WorkerRec
  BY DEF IInv, SessInv, TypeOK
<1>2. "auth" \in WorkerPc
  BY DEF WorkerPc, InLibrary, Forgetting, Saving
<1>3. /\ sess' \in [Sessions -> WorkerRec]
      /\ sess'[i].pc = "auth" /\ Keeps(i)
      /\ \A j \in Sessions \ {i} : sess'[j] = sess[j]
  BY <1>1, <1>2, Goes DEF FormFilled
<1>4. TypeOK'
  BY <1>1, <1>3 DEF FormFilled, TypeOK, Keeps, Stores, InCallback
<1>5. StepOf(i) /\ beside' = beside
  BY <1>1, <1>3 DEF FormFilled, TypeOK, WorkerRec, StepOf, Stores, InCallback
<1>6. Mine(i)'
  BY <1>1, <1>3 DEF FormFilled, At, Mine, Heard, Taken, Forgotten, Saved, Keeps,
     TypeOK, WorkerRec, InLibrary, Forgetting, Stores, InCallback
<1> QED
  BY <1>3, <1>4, <1>5, <1>6, WholeStands DEF FormFilled, At, Alive, Begun, WorkerPc,
     InLibrary, Forgetting, Saving, AfterAuthOk

LEMMA FormCancelledStands ==
    ASSUME IInv, NEW i \in Sessions, FormCancelled(i)
    PROVE  IInv'
<1>1. TypeOK /\ Mine(i) /\ sess[i] \in WorkerRec
  BY DEF IInv, SessInv, TypeOK
<1>2. "returning" \in WorkerPc
  BY DEF WorkerPc, InLibrary, Forgetting, Saving
<1>3. /\ sess' \in [Sessions -> WorkerRec]
      /\ sess'[i].pc = "returning" /\ Keeps(i)
      /\ \A j \in Sessions \ {i} : sess'[j] = sess[j]
  BY <1>1, <1>2, Goes DEF FormCancelled
<1>4. TypeOK'
  BY <1>1, <1>3 DEF FormCancelled, TypeOK, Keeps, Stores, InCallback,
     take_auth_detail, set_auth_detail, Details, Abouts
<1>5. StepOf(i) /\ beside' = beside
  BY <1>1, <1>3 DEF FormCancelled, TypeOK, WorkerRec, StepOf, Stores, InCallback,
     take_auth_detail, set_auth_detail, Details, Abouts
<1>6. Mine(i)'
  BY <1>1, <1>3 DEF FormCancelled, At, Mine, Heard, Taken, Forgotten, Saved, Keeps,
     TypeOK, WorkerRec, InLibrary, Forgetting, Stores, InCallback, take_auth_detail,
     set_auth_detail, Details, Abouts
<1> QED
  BY <1>3, <1>4, <1>5, <1>6, WholeStands DEF FormCancelled, At, Alive, Begun,
     WorkerPc, InLibrary, Forgetting, Saving, AfterAuthOk

LEMMA ObtainFailsStands ==
    ASSUME IInv, NEW i \in Sessions, ObtainFails(i)
    PROVE  IInv'
<1>1. TypeOK /\ Mine(i) /\ sess[i] \in WorkerRec
  BY DEF IInv, SessInv, TypeOK
<1>2. "take" \in WorkerPc
  BY DEF WorkerPc, InLibrary, Forgetting, Saving
<1>3. /\ sess' \in [Sessions -> WorkerRec]
      /\ sess'[i].pc = "take" /\ Keeps(i)
      /\ \A j \in Sessions \ {i} : sess'[j] = sess[j]
  BY <1>1, <1>2, Goes DEF ObtainFails
<1>4. TypeOK'
  BY <1>1, <1>3 DEF ObtainFails, TypeOK, Keeps, Stores, InCallback
<1>5. StepOf(i) /\ beside' = beside
  BY <1>1, <1>3 DEF ObtainFails, TypeOK, WorkerRec, StepOf, Stores, InCallback
<1>6. Mine(i)'
  BY <1>1, <1>3 DEF ObtainFails, At, Mine, Heard, Taken, Forgotten, Saved, Keeps,
     TypeOK, WorkerRec, InLibrary, Forgetting, Stores, InCallback
<1> QED
  BY <1>3, <1>4, <1>5, <1>6, WholeStands DEF ObtainFails, At, Alive, Begun, WorkerPc,
     InLibrary, Forgetting, Saving, AfterAuthOk


LEMMA ReportStands ==
    ASSUME IInv, NEW i \in Sessions, Report(i)
    PROVE  IInv'
<1>1. TypeOK /\ Mine(i) /\ sess[i] \in WorkerRec
  BY DEF IInv, SessInv, TypeOK
<1>2. "done" \in WorkerPc
  BY DEF WorkerPc
<1>3. /\ sess' \in [Sessions -> WorkerRec]
      /\ sess'[i].pc = "done"
      /\ sess'[i].refused = sess[i].refused
      /\ ~sess'[i].toShared
      /\ sess[i].refused => /\ sess'[i].profile = sess[i].profile
                            /\ sess'[i].pw = sess[i].pw
                            /\ sess'[i].usedShared = sess[i].usedShared
      /\ ~sess[i].refused => ~sess'[i].usedShared /\ sess'[i].pw = None
      /\ \A j \in Sessions \ {i} : sess'[j] = sess[j]
  BY <1>1, <1>2, GoesPast DEF Report
<1>4. TypeOK'
  BY <1>1, <1>3 DEF Report, TypeOK, Stores
<1>5. StepOf(i)
  BY <1>1, <1>3 DEF Report, TypeOK, StepOf, Stores
<1>6. Mine(i)'
  BY <1>1, <1>3 DEF Report, At, Mine, Heard, Taken, Forgotten, Saved, InLibrary,
     Forgetting, Stores
<1> QED
  BY <1>3, <1>4, <1>5, <1>6, WholeStands DEF Report, At, Alive, Begun, WorkerPc


LEMMA PublishStands ==
    ASSUME IInv, NEW i \in Sessions, Publish(i)
    PROVE  IInv'
<1>1. TypeOK /\ Mine(i) /\ sess[i] \in WorkerRec
  BY DEF IInv, SessInv, TypeOK
<1>2. "connected" \in WorkerPc
  BY DEF WorkerPc
<1>3. /\ sess' \in [Sessions -> WorkerRec]
      /\ sess'[i].pc = "connected"
      /\ sess'[i].refused = sess[i].refused
      /\ ~sess'[i].toShared
      /\ sess[i].refused => /\ sess'[i].profile = sess[i].profile
                            /\ sess'[i].pw = sess[i].pw
                            /\ sess'[i].usedShared = sess[i].usedShared
      /\ ~sess[i].refused => ~sess'[i].usedShared /\ sess'[i].pw = None
      /\ \A j \in Sessions \ {i} : sess'[j] = sess[j]
  BY <1>1, <1>2, GoesPast DEF Publish
<1>4. TypeOK'
  BY <1>1, <1>3 DEF Publish, TypeOK, Stores
<1>5. StepOf(i)
  BY <1>1, <1>3 DEF Publish, TypeOK, StepOf, Stores
<1>6. Mine(i)'
  BY <1>1, <1>3 DEF Publish, At, Mine, Heard, Taken, Forgotten, Saved, InLibrary,
     Forgetting, Stores
<1> QED
  BY <1>3, <1>4, <1>5, <1>6, WholeStands DEF Publish, At, Alive, Begun, WorkerPc


LEMMA EndStands ==
    ASSUME IInv, NEW i \in Sessions, End(i)
    PROVE  IInv'
<1>1. TypeOK /\ Mine(i) /\ sess[i] \in WorkerRec
  BY DEF IInv, SessInv, TypeOK
<1>2. "done" \in WorkerPc
  BY DEF WorkerPc
<1>3. /\ sess' \in [Sessions -> WorkerRec]
      /\ sess'[i].pc = "done"
      /\ sess'[i].refused = sess[i].refused
      /\ ~sess'[i].toShared
      /\ sess[i].refused => /\ sess'[i].profile = sess[i].profile
                            /\ sess'[i].pw = sess[i].pw
                            /\ sess'[i].usedShared = sess[i].usedShared
      /\ ~sess[i].refused => ~sess'[i].usedShared /\ sess'[i].pw = None
      /\ \A j \in Sessions \ {i} : sess'[j] = sess[j]
  BY <1>1, <1>2, GoesPast DEF End
<1>4. TypeOK'
  BY <1>1, <1>3 DEF End, TypeOK, Stores
<1>5. StepOf(i)
  BY <1>1, <1>3 DEF End, TypeOK, StepOf, Stores
<1>6. Mine(i)'
  BY <1>1, <1>3 DEF End, At, Mine, Heard, Taken, Forgotten, Saved, InLibrary,
     Forgetting, Stores
<1> QED
  BY <1>3, <1>4, <1>5, <1>6, WholeStands DEF End, At, Alive, Begun, WorkerPc


LEMMA SessionFailsStands ==
    ASSUME IInv, NEW i \in Sessions, SessionFails(i)
    PROVE  IInv'
<1>1. TypeOK /\ Mine(i) /\ sess[i] \in WorkerRec
  BY DEF IInv, SessInv, TypeOK
<1>2. "failed" \in WorkerPc
  BY DEF WorkerPc
<1>3. /\ sess' \in [Sessions -> WorkerRec]
      /\ sess'[i].pc = "failed"
      /\ sess'[i].refused = sess[i].refused
      /\ ~sess'[i].toShared
      /\ sess[i].refused => /\ sess'[i].profile = sess[i].profile
                            /\ sess'[i].pw = sess[i].pw
                            /\ sess'[i].usedShared = sess[i].usedShared
      /\ ~sess[i].refused => ~sess'[i].usedShared /\ sess'[i].pw = None
      /\ \A j \in Sessions \ {i} : sess'[j] = sess[j]
  BY <1>1, <1>2, GoesPast DEF SessionFails
<1>4. TypeOK'
  BY <1>1, <1>3 DEF SessionFails, TypeOK, Stores
<1>5. StepOf(i)
  BY <1>1, <1>3 DEF SessionFails, TypeOK, StepOf, Stores
<1>6. Mine(i)'
  BY <1>1, <1>3 DEF SessionFails, At, Mine, Heard, Taken, Forgotten, Saved, InLibrary,
     Forgetting, Stores
<1> QED
  BY <1>3, <1>4, <1>5, <1>6, WholeStands DEF SessionFails, At, Alive, Begun, WorkerPc


LEMMA ForgetOwnStands ==
    ASSUME IInv, NEW i \in Sessions, ForgetOwn(i)
    PROVE  IInv'
<1>1. TypeOK /\ Mine(i) /\ sess[i] \in WorkerRec
  BY DEF IInv, SessInv, TypeOK
<1>0. /\ own' \in [Profiles -> Secrets]
      /\ \A p \in Profiles : own'[p] \in {own[p], None} \cup Good
      /\ ~RemoveFails => own'[sess[i].profile] = None
  BY <1>1, LoginAssumption DEF ForgetOwn, TypeOK, Removed, Secrets, WorkerRec
<1>3. /\ sess' \in [Sessions -> WorkerRec]
      /\ sess'[i].pc = (IF "domain" \in sess[i].saves \/ sess[i].usedShared
                        THEN "forgetRealm" ELSE "failed")
      /\ Keeps(i)
      /\ \A j \in Sessions \ {i} : sess'[j] = sess[j]
  BY <1>1, Goes DEF ForgetOwn, WorkerPc, Forgetting
<1>4. TypeOK'
  BY <1>1, <1>3, <1>0, LoginAssumption DEF ForgetOwn, TypeOK, Keeps, Stores,
     InCallback
<1>5. StepOf(i) /\ beside' = beside
  BY <1>1, <1>3, <1>0, LoginAssumption DEF ForgetOwn, TypeOK, WorkerRec, StepOf,
     Stores, InCallback
<1>6. Mine(i)'
  BY <1>1, <1>3, <1>0, LoginAssumption DEF ForgetOwn, At, Mine, Heard, Taken,
     Forgotten, Saved, Keeps, TypeOK, WorkerRec, InLibrary, Forgetting, Stores,
     InCallback
<1> QED
  BY <1>3, <1>4, <1>5, <1>6, WholeStands DEF ForgetOwn, At, Alive, Begun, WorkerPc,
     InLibrary, Forgetting, Saving, AfterAuthOk

LEMMA ForgetRealmStands ==
    ASSUME IInv, NEW i \in Sessions, ForgetRealm(i)
    PROVE  IInv'
<1>1. TypeOK /\ Mine(i) /\ sess[i] \in WorkerRec
  BY DEF IInv, SessInv, TypeOK
<1>2. "failed" \in WorkerPc
  BY DEF WorkerPc, InLibrary, Forgetting, Saving
<1>3. /\ sess' \in [Sessions -> WorkerRec]
      /\ sess'[i].pc = "failed" /\ Keeps(i)
      /\ \A j \in Sessions \ {i} : sess'[j] = sess[j]
  BY <1>1, <1>2, Goes DEF ForgetRealm
<1>4. TypeOK'
  BY <1>1, <1>3, LoginAssumption DEF ForgetRealm, TypeOK, Keeps, Stores, InCallback,
     Removed, Secrets
<1>5. StepOf(i) /\ beside' = beside
  BY <1>1, <1>3, LoginAssumption DEF ForgetRealm, TypeOK, WorkerRec, StepOf, Stores,
     InCallback, Removed, Secrets
<1>6. Mine(i)'
  BY <1>1, <1>3, LoginAssumption DEF ForgetRealm, At, Mine, Heard, Taken, Forgotten,
     Saved, Keeps, TypeOK, WorkerRec, InLibrary, Forgetting, Stores, InCallback,
     Removed, Secrets
<1> QED
  BY <1>3, <1>4, <1>5, <1>6, WholeStands DEF ForgetRealm, At, Alive, Begun, WorkerPc,
     InLibrary, Forgetting, Saving, AfterAuthOk

LEMMA ObtainsCookieStands ==
    ASSUME IInv, NEW i \in Sessions, ObtainsCookie(i)
    PROVE  IInv'
<1>1. TypeOK /\ Mine(i) /\ sess[i] \in WorkerRec
  BY DEF IInv, SessInv, TypeOK
<1>2. AfterAuthOk(sess[i]) \in WorkerPc
  BY <1>1 DEF WorkerPc, InLibrary, Forgetting, Saving, AfterAuthOk
<1>3. /\ sess' \in [Sessions -> WorkerRec]
      /\ sess'[i].pc = AfterAuthOk(sess[i]) /\ Keeps(i)
      /\ \A j \in Sessions \ {i} : sess'[j] = sess[j]
  BY <1>1, <1>2, Goes DEF ObtainsCookie
<1>4. TypeOK'
  BY <1>1, <1>3, LoginAssumption DEF ObtainsCookie, TypeOK, Keeps, Stores,
     InCallback, AfterAuthOk, Secrets
<1>5. StepOf(i) /\ beside' = beside
  BY <1>1, <1>3, LoginAssumption DEF ObtainsCookie, TypeOK, WorkerRec, StepOf,
     Stores, InCallback, AfterAuthOk, Secrets
<1>6. Mine(i)'
  BY <1>1, <1>3, LoginAssumption DEF ObtainsCookie, At, Mine, Heard, Taken,
     Forgotten, Saved, Keeps, TypeOK, WorkerRec, InLibrary, Forgetting, Stores,
     InCallback, AfterAuthOk, Secrets
<1> QED
  BY <1>3, <1>4, <1>5, <1>6, WholeStands DEF ObtainsCookie, At, Alive, Begun,
     WorkerPc, InLibrary, Forgetting, Saving, AfterAuthOk

LEMMA MarkDomainStands ==
    ASSUME IInv, NEW i \in Sessions, MarkDomain(i)
    PROVE  IInv'
<1>1. TypeOK /\ Mine(i) /\ sess[i] \in WorkerRec
  BY DEF IInv, SessInv, TypeOK
<1>2. "remember" \in WorkerPc
  BY DEF WorkerPc, InLibrary, Forgetting, Saving
<1>3. /\ sess' \in [Sessions -> WorkerRec]
      /\ sess'[i].pc = "remember" /\ Keeps(i)
      /\ \A j \in Sessions \ {i} : sess'[j] = sess[j]
  BY <1>1, <1>2, Goes DEF MarkDomain
<1>4. TypeOK'
  BY <1>1, <1>3 DEF MarkDomain, TypeOK, Keeps, Stores, InCallback, Saving
<1>5. StepOf(i) /\ beside' = beside
  BY <1>1, <1>3 DEF MarkDomain, TypeOK, WorkerRec, StepOf, Stores, InCallback, Saving
<1>6. Mine(i)'
  BY <1>1, <1>3 DEF MarkDomain, At, Mine, Heard, Taken, Forgotten, Saved, Keeps,
     TypeOK, WorkerRec, InLibrary, Forgetting, Stores, InCallback, Saving
<1> QED
  BY <1>3, <1>4, <1>5, <1>6, WholeStands DEF MarkDomain, At, Alive, Begun, WorkerPc,
     InLibrary, Forgetting, Saving, AfterAuthOk


LEMMA WriteRealmStands ==
    ASSUME IInv, NEW i \in Sessions, WriteRealm(i)
    PROVE  IInv'
<1>1. TypeOK /\ Mine(i) /\ sess[i] \in WorkerRec
  BY DEF IInv, SessInv, TypeOK
<1>2. /\ sess' \in [Sessions -> WorkerRec] /\ Keeps(i)
      /\ \A j \in Sessions \ {i} : sess'[j] = sess[j]
      /\ \/ sess'[i].pc = "dropOwn" /\ realm' = sess[i].pw
         \/ sess'[i].pc = "writeOwn" /\ realm' = realm
  BY <1>1, Goes DEF WriteRealm, WorkerPc, Saving
<1>3. TypeOK'
  BY <1>1, <1>2, LoginAssumption DEF WriteRealm, TypeOK, Keeps, WorkerRec
<1>4. StepOf(i) /\ beside' = beside
  BY <1>1, <1>2, LoginAssumption DEF WriteRealm, At, TypeOK, StepOf, Mine, Saved,
     WorkerRec
<1>5. Mine(i)'
  BY <1>1, <1>2, LoginAssumption DEF WriteRealm, At, Mine, Heard, Taken, Forgotten,
     Saved, Keeps, TypeOK, WorkerRec, InLibrary, Forgetting, Removed
<1> QED
  BY <1>3, <1>4, <1>5, WholeStands DEF WriteRealm, At, Alive, Begun, WorkerPc, Saving


LEMMA WriteOwnStands ==
    ASSUME IInv, NEW i \in Sessions, WriteOwn(i)
    PROVE  IInv'
<1>1. TypeOK /\ Mine(i) /\ sess[i] \in WorkerRec
  BY DEF IInv, SessInv, TypeOK
<1>2. /\ sess' \in [Sessions -> WorkerRec] /\ Keeps(i)
      /\ \A j \in Sessions \ {i} : sess'[j] = sess[j]
      /\ \/ /\ sess'[i].pc = "remember"
            /\ own' = [own EXCEPT ![sess[i].profile] = sess[i].pw]
         \/ sess'[i].pc = "up" /\ own' = own
  BY <1>1, Goes DEF WriteOwn, WorkerPc, Saving
<1>3. TypeOK'
  BY <1>1, <1>2, LoginAssumption DEF WriteOwn, TypeOK, Keeps, WorkerRec
<1>4. StepOf(i) /\ beside' = beside
  BY <1>1, <1>2, LoginAssumption DEF WriteOwn, At, TypeOK, StepOf, Mine, Saved,
     WorkerRec
<1>5. Mine(i)'
  BY <1>1, <1>2, LoginAssumption DEF WriteOwn, At, Mine, Heard, Taken, Forgotten,
     Saved, Keeps, TypeOK, WorkerRec, InLibrary, Forgetting, Removed
<1> QED
  BY <1>3, <1>4, <1>5, WholeStands DEF WriteOwn, At, Alive, Begun, WorkerPc, Saving


LEMMA RememberStands ==
    ASSUME IInv, NEW i \in Sessions, Remember(i)
    PROVE  IInv'
<1>1. TypeOK /\ Mine(i) /\ sess[i] \in WorkerRec
  BY DEF IInv, SessInv, TypeOK
<1>2. /\ sess' \in [Sessions -> WorkerRec] /\ Keeps(i)
      /\ \A j \in Sessions \ {i} : sess'[j] = sess[j]
      /\ sess'[i].pc = "up" /\ shared' \in SUBSET Profiles
  BY <1>1, Goes DEF Remember, WorkerPc, TypeOK, WorkerRec
<1>3. TypeOK'
  BY <1>1, <1>2, LoginAssumption DEF Remember, TypeOK, Keeps, WorkerRec
<1>4. StepOf(i) /\ beside' = beside
  BY <1>1, <1>2, LoginAssumption DEF Remember, At, TypeOK, StepOf, Mine, Saved,
     WorkerRec
<1>5. Mine(i)'
  BY <1>1, <1>2, LoginAssumption DEF Remember, At, Mine, Heard, Taken, Forgotten,
     Saved, Keeps, TypeOK, WorkerRec, InLibrary, Forgetting, Removed
<1> QED
  BY <1>3, <1>4, <1>5, WholeStands DEF Remember, At, Alive, Begun, WorkerPc, Saving


LEMMA HttpsOpensStands ==
    ASSUME IInv, NEW i \in Sessions, HttpsOpens(i)
    PROVE  IInv'
<1> DEFINE r == [sess[i] EXCEPT !.reached = TRUE]
<1>1. TypeOK /\ Mine(i) /\ sess[i] \in WorkerRec
  BY DEF IInv, SessInv, TypeOK
<1>2. r \in WorkerRec /\ sess' = [sess EXCEPT ![i] = r]
  BY <1>1 DEF HttpsOpens, WorkerRec, WorkerPc, InLibrary, Saving, Forgetting, TypeOK
<1>3. /\ r.pc = sess[i].pc
      /\ r.profile = sess[i].profile /\ r.pw = sess[i].pw
      /\ r.saves = sess[i].saves /\ r.usedShared = sess[i].usedShared
      /\ r.toShared = sess[i].toShared /\ r.refused = sess[i].refused
      /\ r.taken = sess[i].taken
      /\ r.reached
  BY <1>1 DEF WorkerRec
<1>4. /\ sess' \in [Sessions -> WorkerRec] /\ sess'[i] = r
      /\ \A j \in Sessions \ {i} : sess'[j] = sess[j]
  <2> HIDE DEF r
  <2> QED
    BY <1>1, <1>2 DEF TypeOK
<1> HIDE DEF r
<1>5. TypeOK'
  BY <1>1, <1>3, <1>4 DEF HttpsOpens, TypeOK, Stores
<1>6. StepOf(i) /\ beside' = beside
  BY <1>1, <1>4 DEF HttpsOpens, TypeOK, StepOf, Stores
<1>7. Mine(i)'
  BY <1>1, <1>3, <1>4 DEF HttpsOpens, At, Mine, Heard, Taken, Forgotten, Saved,
     TypeOK, WorkerRec, InLibrary, Forgetting, Stores
<1> QED
  BY <1>3, <1>4, <1>5, <1>6, <1>7, WholeStands DEF HttpsOpens, At, Alive, Begun,
     WorkerPc, InLibrary, Forgetting, Saving


LEMMA TakeAuthDetailStands ==
    ASSUME IInv, NEW i \in Sessions, TakeAuthDetail(i)
    PROVE  IInv'
<1> DEFINE r == [sess[i] EXCEPT !.pc = "judge", !.taken = detail]
<1>1. TypeOK /\ Mine(i) /\ sess[i] \in WorkerRec
  BY DEF IInv, SessInv, TypeOK
<1>2. r \in WorkerRec /\ sess' = [sess EXCEPT ![i] = r]
  BY <1>1 DEF TakeAuthDetail, WorkerRec, WorkerPc, InLibrary, Saving, Forgetting,
     TypeOK
<1>3. /\ r.pc = "judge"
      /\ r.profile = sess[i].profile /\ r.pw = sess[i].pw
      /\ r.saves = sess[i].saves /\ r.usedShared = sess[i].usedShared
      /\ r.toShared = sess[i].toShared /\ r.reached = sess[i].reached
      /\ r.refused = sess[i].refused
      /\ r.taken = detail
  BY <1>1 DEF WorkerRec
<1>4. /\ sess' \in [Sessions -> WorkerRec] /\ sess'[i] = r
      /\ \A j \in Sessions \ {i} : sess'[j] = sess[j]
  <2> HIDE DEF r
  <2> QED
    BY <1>1, <1>2 DEF TypeOK
<1> HIDE DEF r
<1>5. TypeOK'
  BY <1>1, <1>3, <1>4 DEF TakeAuthDetail, TypeOK, Stores, take_auth_detail,
     set_auth_detail, Details, Abouts
<1>6. StepOf(i) /\ beside' = beside
  BY <1>1, <1>4 DEF TakeAuthDetail, TypeOK, StepOf, Stores, take_auth_detail,
     set_auth_detail, Details, Abouts
<1>7. Mine(i)'
  BY <1>1, <1>3, <1>4 DEF TakeAuthDetail, At, Mine, Heard, Taken, Forgotten, Saved,
     TypeOK, WorkerRec, InLibrary, Forgetting, Stores, take_auth_detail,
     set_auth_detail, Details, Abouts
<1> QED
  BY <1>3, <1>4, <1>5, <1>6, <1>7, WholeStands DEF TakeAuthDetail, At, Alive, Begun,
     WorkerPc, InLibrary, Forgetting, Saving


LEMMA DropOwnStands ==
    ASSUME IInv, NEW i \in Sessions, DropOwn(i)
    PROVE  IInv'
<1> DEFINE r == [sess[i] EXCEPT !.pc = "markDomain", !.toShared = TRUE]
<1>1. TypeOK /\ Mine(i) /\ sess[i] \in WorkerRec
  BY DEF IInv, SessInv, TypeOK
<1>0. /\ own' \in [Profiles -> Secrets]
      /\ \A p \in Profiles : own'[p] \in {own[p], None} \cup Good
      /\ ~RemoveFails => own'[sess[i].profile] = None
  BY <1>1, LoginAssumption DEF DropOwn, TypeOK, Removed, Secrets, WorkerRec
<1>2. r \in WorkerRec /\ sess' = [sess EXCEPT ![i] = r]
  BY <1>1 DEF DropOwn, WorkerRec, WorkerPc, InLibrary, Saving, Forgetting, TypeOK
<1>3. /\ r.pc = "markDomain"
      /\ r.profile = sess[i].profile /\ r.pw = sess[i].pw
      /\ r.saves = sess[i].saves /\ r.usedShared = sess[i].usedShared
      /\ r.reached = sess[i].reached /\ r.refused = sess[i].refused
      /\ r.taken = sess[i].taken
      /\ r.toShared
  BY <1>1 DEF WorkerRec
<1>4. /\ sess' \in [Sessions -> WorkerRec] /\ sess'[i] = r
      /\ \A j \in Sessions \ {i} : sess'[j] = sess[j]
  <2> HIDE DEF r
  <2> QED
    BY <1>1, <1>2 DEF TypeOK
<1> HIDE DEF r
<1>5. TypeOK'
  BY <1>1, <1>3, <1>4, <1>0 DEF DropOwn, TypeOK, Stores
<1>6. StepOf(i) /\ beside' = beside
  BY <1>1, <1>4, <1>0 DEF DropOwn, TypeOK, StepOf, Stores
<1>7. Mine(i)'
  BY <1>1, <1>3, <1>4, <1>0 DEF DropOwn, At, Mine, Heard, Taken, Forgotten, Saved,
     TypeOK, WorkerRec, InLibrary, Forgetting, Stores
<1> QED
  BY <1>3, <1>4, <1>5, <1>6, <1>7, WholeStands DEF DropOwn, At, Alive, Begun,
     WorkerPc, InLibrary, Forgetting, Saving

\* A refusal is judged by what was taken, which is of the session itself or of one
\* beside it.
LEMMA JudgeStands ==
    ASSUME IInv, NEW i \in Sessions, Judge(i)
    PROVE  IInv'
<1> DEFINE r == [sess[i] EXCEPT !.pc = "forgetOwn", !.refused = TRUE, !.taken = NoDetail]
<1>1. TypeOK /\ Mine(i) /\ sess[i] \in WorkerRec
  BY DEF IInv, SessInv, TypeOK
<1>2. CASE sess[i].taken.about = "reach"
  <2>1. Past(i, "failed") /\ "failed" \in WorkerPc
    BY <1>2 DEF Judge, WorkerPc
  <2>2. /\ sess' \in [Sessions -> WorkerRec]
        /\ sess'[i].pc = "failed" /\ ~sess'[i].refused /\ ~sess'[i].usedShared
        /\ ~sess'[i].toShared
        /\ \A j \in Sessions \ {i} : sess'[j] = sess[j]
    <3>1. ~sess[i].refused
      BY <1>1 DEF Judge, At, Mine, Forgotten, Forgetting
    <3> QED
      BY <1>1, <2>1, <3>1, GoesPast
  <2>3. TypeOK' /\ StepOf(i) /\ beside' = beside
    BY <1>1, <2>2 DEF Judge, TypeOK, StepOf, Stores
  <2>4. Mine(i)'
    BY <1>1, <2>2 DEF Mine, Heard, Taken, Forgotten, Saved, InLibrary, Forgetting
  <2> QED
    BY <2>2, <2>3, <2>4, WholeStands DEF Judge, At, Alive, Begun, WorkerPc
<1>3. CASE sess[i].taken.about # "reach"
  <2>1. r \in WorkerRec /\ sess' = [sess EXCEPT ![i] = r]
    BY <1>1, <1>3, NoneLoggedIn
       DEF Judge, WorkerRec, WorkerPc, Forgetting, TypeOK, NoSession
  <2>2. /\ r.pc = "forgetOwn" /\ r.refused /\ r.pw = sess[i].pw
        /\ r.toShared = sess[i].toShared /\ r.reached = sess[i].reached
        /\ r.usedShared = sess[i].usedShared
    BY <1>1 DEF WorkerRec
  <2>3. /\ sess' \in [Sessions -> WorkerRec] /\ sess'[i] = r
        /\ \A j \in Sessions \ {i} : sess'[j] = sess[j]
    <3> HIDE DEF r
    <3> QED
      BY <1>1, <2>1 DEF TypeOK
  <2> HIDE DEF r
  <2>4. TypeOK' /\ StepOf(i) /\ beside' = beside
    BY <1>1, <2>2, <2>3 DEF Judge, TypeOK, StepOf, Stores
  <2>5. ~sess[i].reached => beside[i] # {}
    BY <1>1, <1>3 DEF Judge, At, Mine, Taken
  <2>6. Mine(i)'
    BY <1>1, <2>2, <2>3, <2>4, <2>5
       DEF Judge, At, Mine, Heard, Taken, Forgotten, Saved, InLibrary, Forgetting
  <2> QED
    BY <2>2, <2>3, <2>4, <2>6, WholeStands DEF Judge, At, Alive, Begun, WorkerPc,
       Forgetting
<1> QED
  BY <1>2, <1>3

LEMMA SpeakStands ==
    ASSUME IInv, NEW i \in Sessions, NEW m \in Lines, Speak(i, m)
    PROVE  IInv'
<1>1. TypeOK /\ Mine(i)
  BY DEF IInv, SessInv
<1>2. detail' \in Details /\ (detail' = detail \/ detail'.by = i)
  BY <1>1, SaysWhat, LoginAssumption DEF Speak
<1>3. TypeOK' /\ StepOf(i) /\ beside' = beside /\ sess' = sess
  BY <1>1, <1>2 DEF Speak, loginVars, TypeOK, StepOf
<1>4. Mine(i)'
  BY <1>1, <1>2, <1>3
     DEF Speak, loginVars, Mine, Heard, Taken, Forgotten, Saved, InLibrary
<1> QED
  BY <1>3, <1>4, WholeStands DEF Speak, Alive, Begun, WorkerPc, InLibrary

\* Here a session begins to look who is beside it.
LEMMA AuthenticateStands ==
    ASSUME IInv, NEW i \in Sessions, Authenticate(i)
    PROVE  IInv'
<1>1. TypeOK /\ Mine(i) /\ sess[i] \in WorkerRec
  BY DEF IInv, SessInv, TypeOK
<1>2. /\ sess' \in [Sessions -> WorkerRec]
      /\ sess'[i].pc = "auth" /\ Keeps(i)
      /\ \A j \in Sessions \ {i} : sess'[j] = sess[j]
  BY <1>1, Goes DEF Authenticate, WorkerPc, InLibrary
<1>3. beside'[i] = {j \in Sessions \ {i} : Alive(j)}
      /\ beside' \in [Sessions -> SUBSET Sessions]
      /\ \A j \in Sessions \ {i} : beside'[j] = beside[j]
  BY <1>1 DEF Authenticate, TypeOK
<1>4. detail' \in Details /\ detail'.by = i
  BY DEF Authenticate, take_auth_detail, set_auth_detail, Details, Abouts
<1>5. TypeOK'
  BY <1>1, <1>2, <1>3, <1>4 DEF Authenticate, TypeOK, Keeps, Stores
<1>6. StepOf(i)
  BY <1>2, <1>3, <1>4 DEF Authenticate, Stores, StepOf, TypeOK, IInv
<1>7. Overlap'
  <2> SUFFICES ASSUME NEW j \in Sessions, NEW k \in Sessions, j # k,
                      sess'[j].pc \in Begun, Alive(k)'
               PROVE  k \in beside'[j]
    BY DEF Overlap
  <2>1. Alive(k)
    BY <1>2 DEF Alive, Authenticate, At
  <2>2. CASE j = i
    BY <1>3, <2>1, <2>2
  <2>3. CASE j # i
    BY <1>2, <1>3, <2>1, <2>3 DEF IInv, Overlap
  <2> QED
    BY <2>2, <2>3
<1>8. Mine(i)'
  BY <1>1, <1>2, <1>4 DEF Authenticate, At, Mine, Heard, Taken, Forgotten, Saved,
     Keeps, InLibrary, Forgetting
<1>9. SessInv'
  BY <1>5, <1>6, <1>8, OthersStand DEF SessInv, Authenticate, At, Alive
<1> QED
  BY <1>5, <1>7, <1>9 DEF IInv

-----------------------------------------------------------------------------
(***************************************************************************)
(* The steps of the main thread.                                           *)
(***************************************************************************)
LEMMA NothingOfSessions ==
    ASSUME IInv, TypeOK', UNCHANGED <<detail, Stores, sess, beside>>
    PROVE  IInv'
  BY DEF IInv, Overlap, Alive, SessInv, Mine, Heard, Taken, Forgotten, Saved, Stores

LEMMA ConnectStands ==
    ASSUME IInv, NEW i \in Sessions, Connect(i)
    PROVE  IInv'
<1>1. TypeOK /\ asked \in Requests
  BY DEF IInv, TypeOK
<1>2. Request \in WorkerRec /\ Request.pc = "start" /\ ~Request.refused
      /\ ~Request.toShared /\ (Request.usedShared => Request.pw # None)
  <2>1. /\ NoSession.refused = FALSE /\ NoSession.toShared = FALSE
    BY DEF NoSession
  <2> QED
    BY <1>1, <2>1, NoneLoggedIn DEF Request, Requests, WorkerRec, WorkerPc
<1>3. /\ sess' \in [Sessions -> WorkerRec] /\ sess'[i] = Request
      /\ \A j \in Sessions \ {i} : sess'[j] = sess[j]
  BY <1>1, <1>2 DEF Connect, TypeOK
<1>4. /\ beside' \in [Sessions -> SUBSET Sessions]
      /\ \A j \in Sessions : beside'[j] \in {beside[j], beside[j] \cup {i}}
      /\ \A j \in Sessions : Alive(j) => beside'[j] = beside[j] \cup {i}
  BY <1>1 DEF Connect, TypeOK
<1>5. TypeOK'
  BY <1>1, <1>2, <1>3, <1>4, NoneLoggedIn DEF Connect, Stores, TypeOK
<1>6. Overlap'
  <2> SUFFICES ASSUME NEW j \in Sessions, NEW k \in Sessions, j # k,
                      sess'[j].pc \in Begun, Alive(k)'
               PROVE  k \in beside'[j]
    BY DEF Overlap
  <2>1. j # i /\ sess[j].pc \in Begun /\ Alive(j)
    BY <1>2, <1>3 DEF Begun, Alive
  <2>2. CASE k = i
    BY <1>4, <2>1, <2>2
  <2>3. CASE k # i
    BY <1>3, <1>4, <2>1, <2>3 DEF IInv, Overlap, Alive
  <2> QED
    BY <2>2, <2>3
<1>7. SessInv'
  <2> SUFFICES ASSUME NEW j \in Sessions
               PROVE  Mine(j)'
    BY DEF SessInv
  <2>1. CASE j = i
    BY <1>2, <1>3, <2>1
       DEF Mine, Heard, Taken, Forgotten, Saved, InLibrary, Forgetting
  <2>2. CASE j # i
    <3>1. sess'[j] = sess[j] /\ beside'[j] \in {beside[j], beside[j] \cup {i}}
      BY <1>3, <1>4, <2>2
    <3>2. UNCHANGED <<detail, own, realm>> /\ Mine(j)
      BY DEF Connect, Stores, IInv, SessInv
    <3>3. Heard(j)' /\ Taken(j)'
      BY <3>1, <3>2 DEF Mine, Heard, Taken
    <3>4. Forgotten(j)' /\ Saved(j)'
      BY <3>1, <3>2 DEF Mine, Forgotten, Saved
    <3> QED
      BY <3>3, <3>4 DEF Mine
  <2> QED
    BY <2>1, <2>2
<1> QED
  BY <1>5, <1>6, <1>7 DEF IInv

LEMMA MainStands ==
    ASSUME IInv, Main
    PROVE  IInv'
<1>1. TypeOK
  BY DEF IInv
<1>2. ASSUME NEW q \in Asks, Ask(q) PROVE IInv'
  <2>1. q \in [profile : Profiles, typed : Passwords \cup {None},
               saves : SUBSET {"own", "domain"}]
    BY LoginAssumption
  <2>2. TypeOK'
    BY <1>1, <1>2, <2>1 DEF Ask, TypeOK, Stores, Requests, Secrets
  <2> QED
    BY <1>2, <2>2, NothingOfSessions DEF Ask
<1>3. CASE ReadRealm
  <2>1. TypeOK'
    BY <1>1, <1>3 DEF ReadRealm, TypeOK, Stores, Requests
  <2> QED
    BY <1>3, <2>1, NothingOfSessions DEF ReadRealm
<1>4. CASE ConnectRefused
  <2>1. TypeOK'
    BY <1>1, <1>4, NoneLoggedIn DEF ConnectRefused, TypeOK, Stores
  <2> QED
    BY <1>4, <2>1, NothingOfSessions DEF ConnectRefused
<1>5. CASE Disconnect
  <2>1. TypeOK'
    BY <1>1, <1>5 DEF Disconnect, TypeOK, Stores
  <2> QED
    BY <1>5, <2>1, NothingOfSessions DEF Disconnect
<1> QED
  BY <1>2, <1>3, <1>4, <1>5, ConnectStands DEF Main

-----------------------------------------------------------------------------
LEMMA InitIInv == Init => IInv
<1> SUFFICES ASSUME Init PROVE IInv
  OBVIOUS
<1>1. NoSession \in WorkerRec /\ NoSession.pc = "none" /\ ~NoSession.refused
      /\ ~NoSession.toShared /\ ~NoSession.usedShared
  BY NoneLoggedIn DEF NoSession
<1>2. NoDetail \in Details
  BY DEF NoDetail, Details, Abouts
<1>3. PICK st \in InitStores : own = st.own /\ realm = st.realm /\ shared = st.shared
  BY DEF Init
<1>4. own \in [Profiles -> Secrets] /\ realm \in Secrets /\ shared \in SUBSET Profiles
  BY <1>3, LoginAssumption DEF Secrets
<1>5. TypeOK
  BY <1>1, <1>2, <1>4, NoneLoggedIn DEF Init, TypeOK
<1>6. Overlap
  BY <1>1 DEF Init, Overlap, Begun
<1>7. SessInv
  BY <1>1 DEF Init, SessInv, Mine, Heard, Taken, Forgotten, Saved, InLibrary,
     Forgetting
<1> QED
  BY <1>5, <1>6, <1>7 DEF IInv

LEMMA StepIInv == IInv /\ [Next]_vars => IInv'
<1> SUFFICES ASSUME IInv, [Next]_vars PROVE IInv'
  OBVIOUS
<1>1. CASE UNCHANGED vars
  <2>1. TypeOK'
    BY <1>1 DEF IInv, TypeOK, vars, loginVars
  <2> QED
    BY <1>1, <2>1, NothingOfSessions DEF vars, loginVars, Stores
<1>2. CASE Main
  BY <1>2, MainStands
<1>3. ASSUME NEW i \in Sessions, Library(i) PROVE IInv'
  BY <1>3, SpeakStands, HttpsOpensStands, CertRefusedStands, OpenFailsStands,
     FormErrorStands, FormFilledStands, FormCancelledStands, ObtainFailsStands
     DEF Library
<1>4. ASSUME NEW i \in Sessions, Worker(i) PROVE IInv'
  BY <1>4, AuthenticateStands, TakeAuthDetailStands, JudgeStands, ForgetOwnStands,
     ForgetRealmStands, ReportStands, ObtainsCookieStands, WriteRealmStands,
     DropOwnStands, MarkDomainStands, WriteOwnStands, RememberStands, PublishStands,
     EndStands, SessionFailsStands
     DEF Worker
<1> QED
  BY <1>1, <1>2, <1>3, <1>4 DEF Next

\* The invariant that implies all the rest.
THEOREM Inductive == Spec => []IInv
  BY InitIInv, StepIInv, PTL DEF Spec

\* Every variable keeps its type, and a request is said to use the shared login
\* only if it carries a password (request.rs, from_profile).
THEOREM TypeCorrect == Spec => []TypeOK
<1>1. IInv => TypeOK
  BY DEF IInv
<1> QED
  BY <1>1, Inductive, PTL

\* auth_detail belongs to the process, and yet a failed login is judged by what it
\* said itself or a session beside it said, never by what an earlier one left there
\* (session.rs, session_body).
THEOREM FreshDetailHolds == Spec => []FreshDetail
<1>1. IInv => FreshDetail
  BY DEF IInv, SessInv, Mine, Taken, FreshDetail, At
<1> QED
  BY <1>1, Inductive, PTL

\* A login alone in the process that never reached HTTPS takes no saved password
\* away (session.rs, session_body; persist.rs, after_auth_fail).
THEOREM LoneUnreachedKeepsHolds == Spec => []LoneUnreachedKeeps
<1>1. IInv => LoneUnreachedKeeps
  BY DEF IInv, SessInv, Mine, Taken, LoneUnreachedKeeps
<1> QED
  BY <1>1, Inductive, PTL

\* A refused password that the server does not know is gone from where it came, and
\* nobody writes it there again (persist.rs, after_auth_fail).
THEOREM RefusedForgottenHolds == Spec => []RefusedForgotten
<1>1. IInv => RefusedForgotten
  BY DEF IInv, SessInv, Mine, Forgotten, RefusedForgotten
<1> QED
  BY <1>1, Inductive, PTL

\* A saved login is the one that the next request resolves to, whichever of its
\* writes failed on the way (persist.rs, after_auth_ok; cred.rs, resolve).
THEOREM SavedResolvesHolds == Spec => SavedResolves
<1> DEFINE Found(i) ==
       /\ At(i, "remember") /\ sess'[i].pc = "up"
       /\ beside[i] = {} /\ sess[i].pw # None /\ ~RemoveFails
       /\ (sess[i].toShared => sess[i].profile \in shared')
       => Resolved(sess[i].profile)' = sess[i].pw
<1>1. IInv /\ [Next]_vars => [\A i \in Sessions : Found(i)]_vars
  <2> SUFFICES ASSUME IInv, Next, NEW i \in Sessions,
                      At(i, "remember"), sess'[i].pc = "up",
                      beside[i] = {}, sess[i].pw # None, ~RemoveFails,
                      sess[i].toShared => sess[i].profile \in shared'
               PROVE  Resolved(sess[i].profile)' = sess[i].pw
    OBVIOUS
  <2>1. TypeOK /\ Mine(i) /\ sess[i] \in WorkerRec
    BY DEF IInv, SessInv, TypeOK
  <2>2. sess'[i].pc # sess[i].pc
    BY DEF At
  <2>3. ~Main
    <3> SUFFICES ASSUME Main PROVE sess'[i] = sess[i]
      BY <2>2
    <3> QED
      BY <2>1 DEF Main, Ask, ReadRealm, ConnectRefused, Disconnect, Connect, At,
         TypeOK
  <2>4. PICK j \in Sessions : Library(j) \/ Worker(j)
    BY <2>3 DEF Next
  <2>5. j = i
    <3> SUFFICES ASSUME j # i PROVE sess'[i] = sess[i]
      BY <2>2
    <3>1. CASE Library(j)
      BY <2>1, <3>1 DEF Library, Speak, HttpsOpens, CertRefused, OpenFails, FormError,
         FormFilled, FormCancelled, ObtainFails, Go, TypeOK, loginVars
    <3>2. CASE Worker(j)
      BY <2>1, <3>2 DEF Worker, Authenticate, TakeAuthDetail, Judge, ForgetOwn,
         ForgetRealm, Report, ObtainsCookie, WriteRealm, DropOwn, MarkDomain,
         WriteOwn, Remember, Publish, End, SessionFails, Go, Past, TypeOK
    <3> QED
      BY <2>4, <3>1, <3>2
  <2>6. Remember(i)
    BY <2>4, <2>5 DEF Library, Speak, HttpsOpens, CertRefused, OpenFails, FormError,
       FormFilled, FormCancelled, ObtainFails, Worker, Authenticate, TakeAuthDetail,
       Judge, ForgetOwn, ForgetRealm, Report, ObtainsCookie, WriteRealm, DropOwn,
       MarkDomain, WriteOwn, Publish, End, SessionFails, At, InLibrary
  <2>7. UNCHANGED <<own, realm>> /\ sess'[i].profile = sess[i].profile
    BY <2>1, <2>6, Goes DEF Remember, WorkerPc, Keeps
  <2>8. IF sess[i].toShared THEN realm = sess[i].pw /\ own[sess[i].profile] = None
                            ELSE own[sess[i].profile] = sess[i].pw
    BY <2>1 DEF At, Mine, Saved
  <2> QED
    BY <2>7, <2>8 DEF Resolved
<1> QED
  BY <1>1, Inductive, PTL DEF Spec, SavedResolves
=============================================================================
