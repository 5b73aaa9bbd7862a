----------------------------- MODULE ChunkStore -----------------------------
(***************************************************************************)
(* The Qdrant collection behind QdrantChunkStore: for every version and    *)
(* chunk, whether its point exists and what its "active" payload says.     *)
(* Each adapter call is one Qdrant request with wait=True, so it is one    *)
(* atomic change; the reads of verify_version are merged into one.         *)
(***************************************************************************)
EXTENDS CorpusIdentity

VARIABLE points

PointState == {"absent", "inactive", "active"}

ChunkStoreTypeOK == points \in [Versions -> [Chunks -> PointState]]

ChunkStoreInit == points = [v \in Versions |-> [c \in Chunks |-> "absent"]]

(* Every point of v exists and is published.                               *)
FullyActive(v) == \A c \in Chunks : points[v][c] = "active"

NoPoints(v) == \A c \in Chunks : points[v][c] = "absent"

(* VersionVerification.is_valid for the counts and the payloads read by    *)
(* verify_version: all expected points are there and all are inactive.     *)
VerifiesStaged(v) == \A c \in Chunks : points[v][c] = "inactive"

-----------------------------------------------------------------------------
(* stage_version: upsert the points in S inactive, over whatever is there. *)
(* S = Chunks when the request succeeds.                                   *)
StageVersion(v, S) ==
    points' = [points EXCEPT ![v] =
                 [c \in Chunks |-> IF c \in S THEN "inactive" ELSE points[v][c]]]

(* The points of the versions in W that exist get the payload flag s.      *)
SetPayload(W, s) ==
    points' = [v \in Versions |-> [c \in Chunks |->
                 IF v \in W /\ points[v][c] # "absent" THEN s ELSE points[v][c]]]

ActivateVersion(v) == SetPayload({v}, "active")

DeactivatePreviousVersions(v) == SetPayload(OtherVersions(v), "inactive")

DeletePoints(W) ==
    points' = [v \in Versions |-> [c \in Chunks |->
                 IF v \in W THEN "absent" ELSE points[v][c]]]

DiscardVersion(v) == DeletePoints({v})

DeleteDocumentPoints(d) == DeletePoints(VersionsOf(d))
=============================================================================
