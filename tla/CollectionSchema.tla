-------------------------- MODULE CollectionSchema --------------------------
(***************************************************************************)
(* QdrantSchemaManager.ensure_collection, called before every read and     *)
(* write of points by the threads of the API and of the worker: it creates *)
(* the collection with its payload indexes, one request after another, or  *)
(* checks the one that is there and adds the indexes it lacks.             *)
(*                                                                         *)
(* Nothing else changes the collection's schema.  A request can fail       *)
(* before it reaches Qdrant, or after Qdrant has carried it out.           *)
(***************************************************************************)
EXTENDS Naturals, Sequences, Functions

CONSTANTS Callers,         \* threads that call ensure_collection
          PayloadIndexes   \* the indexed payload fields, in the order of the schema

ASSUME SchemaAssumption ==
    Len(PayloadIndexes) \in Nat /\ DOMAIN PayloadIndexes = 1..Len(PayloadIndexes)

VARIABLES collection,  \* its vector configuration and payload indexes, in Qdrant
          ensuring     \* caller |-> where its call is, the indexes it was told of
                       \* and the next one to look at

schemaVars == <<collection, ensuring>>

Indexes == Range(PayloadIndexes)

(* dense: the named vector is there with the expected size, with another,  *)
(* or is not.  sparse: the named sparse vector has IDF, or not, or is not. *)
Collections == [there : {TRUE}, dense : {"ours", "resized", "missing"},
                sparse : {"idf", "plain", "missing"}, indexes : SUBSET Indexes]
NoCollection == [there |-> FALSE, dense |-> "missing", sparse |-> "missing", indexes |-> {}]
NewCollection == [there |-> TRUE, dense |-> "ours", sparse |-> "idf", indexes |-> {}]

Call(pc, seen) == [pc |-> pc, seen |-> seen, next |-> 1]

SchemaInit ==
    /\ collection \in Collections \cup {NoCollection}
    /\ ensuring = [c \in Callers |-> Call("idle", {})]

CallGoes(c, pc, seen) == ensuring' = [ensuring EXCEPT ![c] = Call(pc, seen)]

CheckExists(c) ==
    /\ ensuring[c].pc \in {"idle", "returned", "raised"}
    /\ CallGoes(c, IF collection.there THEN "validating" ELSE "creating", {})
    /\ UNCHANGED collection

(* Qdrant refuses to create what another caller has created meanwhile.     *)
CreateCollection(c) ==
    /\ ensuring[c].pc = "creating"
    /\ \/ collection.there /\ CallGoes(c, "raised", {}) /\ UNCHANGED collection
       \/ /\ ~collection.there /\ collection' = NewCollection
          /\ \E pc \in {"indexing", "raised"} : CallGoes(c, pc, {})

Compatible(info) == info.dense = "ours" /\ info.sparse = "idf"

(* Mutant of ValidateExisting: an existing collection was indexed when it  *)
(* was created.                                                            *)
ValidateVectors(c) ==
    /\ ensuring[c].pc = "validating"
    /\ CallGoes(c, IF Compatible(collection) THEN "returned" ELSE "raised", {})
    /\ UNCHANGED collection

ValidateExisting(c) ==
    /\ ensuring[c].pc = "validating"
    /\ IF Compatible(collection) THEN CallGoes(c, "indexing", collection.indexes)
       ELSE CallGoes(c, "raised", {})
    /\ UNCHANGED collection

NextIndex(c) == ensuring' = [ensuring EXCEPT ![c].next = @ + 1]

(* A new collection has no index to skip; to create one again is no error. *)
EnsureIndex(c) ==
    /\ ensuring[c].pc = "indexing" /\ ensuring[c].next <= Len(PayloadIndexes)
    /\ LET field == PayloadIndexes[ensuring[c].next]
       IN  \/ field \in ensuring[c].seen /\ NextIndex(c) /\ UNCHANGED collection
           \/ /\ field \notin ensuring[c].seen
              /\ collection' = [collection EXCEPT !.indexes = @ \cup {field}]
              /\ NextIndex(c) \/ CallGoes(c, "raised", {})

EnsureReturns(c) ==
    /\ ensuring[c].pc = "indexing" /\ ensuring[c].next > Len(PayloadIndexes)
    /\ CallGoes(c, "returned", {})
    /\ UNCHANGED collection

(* The request did not reach Qdrant, or the caller's process ended.        *)
EnsureFails(c) ==
    /\ ensuring[c].pc \in {"creating", "validating", "indexing"}
    /\ CallGoes(c, "raised", {})
    /\ UNCHANGED collection

SchemaNext ==
    \E c \in Callers :
        \/ CheckExists(c) \/ CreateCollection(c) \/ ValidateExisting(c)
        \/ EnsureIndex(c) \/ EnsureReturns(c) \/ EnsureFails(c)

SchemaSpec == SchemaInit /\ [][SchemaNext]_schemaVars

-----------------------------------------------------------------------------
(* A call that returned may use the collection: it has both vectors and    *)
(* every index, although calls overlap, one of them may have died between  *)
(* the collection and its indexes, and an older revision may have left     *)
(* some of them out.                                                       *)
ReturnedMeansReady ==
    \A c \in Callers : ensuring[c].pc = "returned" =>
        collection.there /\ Compatible(collection) /\ Indexes \subseteq collection.indexes
=============================================================================
