--------------------------- MODULE MCProfileStore ---------------------------
(***************************************************************************)
(* Two profiles of one domain, and one thread of each kind: the main       *)
(* thread, with the operations of the user interface; a worker that has    *)
(* just logged in; a geo thread with an answer.                            *)
(***************************************************************************)
EXTENDS ProfileStore, TLC

CONSTANTS p1, p2, ui, worker, geo

MCIds == {p1, p2}
MCDomainIds == {p1, p2}
MCThreads == {ui, worker, geo}

\* What the user saves for p1: made anew, or the stale copy of an editor.
Edited == [mode |-> "proxy", exit |-> FALSE, shared |-> FALSE]

MCCalls ==
    (ui :> [kind : {"add", "update"}, id : {p1}, rec : {Edited}]
           \cup [kind : {"delete", "clear_password"}, id : {p1}]
           \cup [kind : {"set_mode"}, id : {p1}, mode : {"tunnel"}]
           \cup [kind : {"apply_catalog"}, gone : {{p1}}, new : {{p2}}])
    @@ (worker :> [kind : {"remember_login"}, id : {p1}, shared : {TRUE}]
                  \cup [kind : {"set_shared_for_domain"}, shared : {TRUE}])
    @@ (geo :> [kind : {"set_geo"}, id : {p1}])
=============================================================================
