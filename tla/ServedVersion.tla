---------------------------- MODULE ServedVersion ----------------------------
(***************************************************************************)
(* What ingestion promises the readers, whatever its steps: a document is  *)
(* served from one version at a time, only a version that is indexed in    *)
(* full is served, a new version takes over from the old one in a single   *)
(* step, and the points of the version being served do not change.         *)
(***************************************************************************)
CONSTANTS Versions, Documents, DocumentOf

VARIABLES
    served,   \* served[d]: the versions of d that searches are filtered by
    whole     \* the versions all of whose points a search can return

vars == <<served, whole>>

Init == served = [d \in Documents |-> {}] /\ whole = {}

Serve(v) ==
    /\ v \in whole
    /\ served' = [served EXCEPT ![DocumentOf[v]] = {v}]
    /\ UNCHANGED whole

Withdraw(v) ==
    /\ v \in served[DocumentOf[v]]
    /\ served' = [served EXCEPT ![DocumentOf[v]] = {}]
    /\ UNCHANGED whole

(* The points of versions that are not being served come and go.           *)
Reindex(W) ==
    /\ \A v \in Versions : v \in served[DocumentOf[v]] => (v \in W <=> v \in whole)
    /\ whole' = W
    /\ UNCHANGED served

Next ==
    \/ \E v \in Versions : Serve(v) \/ Withdraw(v)
    \/ \E W \in SUBSET Versions : Reindex(W)

Spec == Init /\ [][Next]_vars
=============================================================================
