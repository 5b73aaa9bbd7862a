----------------------------- MODULE Vocabulary -----------------------------
(***************************************************************************)
(* BM25SparseEncoder: the vocabulary that numbers the features of the      *)
(* sparse vectors.  The worker fits it and stores it in a file before it   *)
(* embeds a document; a worker that restarts, and the API when it starts,  *)
(* load the file.  Document texts are sets of terms.                       *)
(*                                                                         *)
(* fit_documents runs in a thread.  The standalone worker runs one job at  *)
(* a time; the background tasks of an embedded worker may overlap, and     *)
(* then the threads fit one vocabulary without a lock.                     *)
(***************************************************************************)
EXTENDS Naturals, FiniteSets

CONSTANTS Terms,       \* terms of the documents
          Texts,       \* the texts that are ingested: sets of terms
          Threads,     \* threads that fit and embed
          MaxStarts    \* bound on the starts of the worker

VARIABLES file,      \* [whole, terms]: the stored vocabulary; no file is an empty one
          memory,    \* the worker's vocabulary: term |-> feature
          fitting,   \* the thread's job
          indexed,   \* features stored in Qdrant: pairs <<term, feature>>
          api,       \* the vocabulary of the API: [up, terms]
          workerUp, starts,
          overlapped \* history: two threads were at work together

vocabularyVars == <<file, memory, fitting, indexed, api, workerUp, starts, overlapped>>

Unfitted == << >>
NoFit == [pc |-> "idle", text |-> {}, left |-> {}, term |-> "none", next |-> 0]
Torn   == [file EXCEPT !.whole = FALSE]
Whole(terms) == [whole |-> TRUE, terms |-> terms]

VocabularyInit ==
    /\ file = Whole(Unfitted) /\ memory = Unfitted /\ indexed = {}
    /\ api = [up |-> FALSE, terms |-> Unfitted]
    /\ fitting = [t \in Threads |-> NoFit]
    /\ workerUp = FALSE /\ starts = 0 /\ overlapped = FALSE

-----------------------------------------------------------------------------
(* _load_state raises on a torn file, and the process does not start.      *)
StartWorker ==
    /\ ~workerUp /\ file.whole /\ starts < MaxStarts
    /\ workerUp' = TRUE /\ memory' = file.terms
    /\ starts' = starts + 1
    /\ UNCHANGED <<file, fitting, indexed, api, overlapped>>

(* The API loads the file when it starts, at any time, and never again.    *)
StartApi ==
    /\ file.whole /\ ~api.up
    /\ api' = [up |-> TRUE, terms |-> file.terms]
    /\ UNCHANGED <<file, memory, fitting, indexed, workerUp, starts, overlapped>>

(* The worker dies; its memory is lost.                                    *)
WorkerDies ==
    /\ workerUp /\ workerUp' = FALSE
    /\ memory' = Unfitted /\ fitting' = [t \in Threads |-> NoFit]
    /\ UNCHANGED <<file, indexed, api, starts, overlapped>>

-----------------------------------------------------------------------------
(* Bound: behind an overlap, which breaks what is claimed here, no further *)
(* text is followed.                                                       *)
BeginFit(t, text) ==
    /\ workerUp /\ fitting[t].pc = "idle" /\ ~overlapped
    /\ fitting' = [fitting EXCEPT ![t] = [NoFit EXCEPT !.pc = "fit", !.text = text, !.left = text]]
    /\ overlapped' = (overlapped \/ \E u \in Threads : fitting[u].pc # "idle")
    /\ UNCHANGED <<file, memory, indexed, api, workerUp, starts>>

(* len(self._vocabulary).                                                  *)
NextFeature(t) == Cardinality(DOMAIN memory)

(* A new term: its number is computed, and another thread may run before   *)
(* it is stored.                                                           *)
NumberTerm(t, term) ==
    /\ fitting[t].pc = "fit" /\ term \in fitting[t].left
    /\ fitting' = IF term \in DOMAIN memory THEN [fitting EXCEPT ![t].left = @ \ {term}]
                  ELSE [fitting EXCEPT ![t].pc = "store", ![t].term = term,
                                       ![t].next = NextFeature(t)]
    /\ UNCHANGED <<file, memory, indexed, api, workerUp, starts, overlapped>>

StoreTerm(t) ==
    /\ fitting[t].pc = "store"
    /\ LET term == fitting[t].term
       IN  /\ memory' = [x \in DOMAIN memory \cup {term} |->
                            IF x = term THEN fitting[t].next ELSE memory[x]]
           /\ fitting' = [fitting EXCEPT ![t].pc = "fit", ![t].left = @ \ {term},
                                         ![t].term = "none", ![t].next = 0]
    /\ UNCHANGED <<file, indexed, api, workerUp, starts, overlapped>>

(* _save_state writes the file in place: while it is written, it is torn.  *)
OpenFile(t) ==
    /\ fitting[t].pc = "fit" /\ fitting[t].left = {}
    /\ file' = Torn
    /\ fitting' = [fitting EXCEPT ![t].pc = "write"]
    /\ UNCHANGED <<memory, indexed, api, workerUp, starts, overlapped>>

(* Mutant of FileAfterSave: the state is not saved.                        *)
FileNotSaved == Whole(Unfitted)

(* The vocabulary at that moment.                                          *)
FileAfterSave == Whole(memory)

CloseFile(t) ==
    /\ fitting[t].pc = "write"
    /\ file' = FileAfterSave
    /\ fitting' = [fitting EXCEPT ![t].pc = "embed"]
    /\ UNCHANGED <<memory, indexed, api, workerUp, starts, overlapped>>

(* embed_documents, and the upsert of the vectors.                         *)
EmbedAndStore(t) ==
    /\ fitting[t].pc = "embed"
    /\ indexed' = indexed \cup {<<term, memory[term]>> : term \in fitting[t].text}
    /\ fitting' = [fitting EXCEPT ![t] = NoFit]
    /\ UNCHANGED <<file, memory, api, workerUp, starts, overlapped>>

VocabularyNext ==
    \/ StartWorker \/ StartApi \/ WorkerDies
    \/ \E t \in Threads :
          \/ \E text \in Texts : BeginFit(t, text)
          \/ \E term \in Terms : NumberTerm(t, term)
          \/ StoreTerm(t) \/ OpenFile(t) \/ CloseFile(t) \/ EmbedAndStore(t)

VocabularySpec == VocabularyInit /\ [][VocabularyNext]_vocabularyVars

-----------------------------------------------------------------------------
(* What a process knows of a term agrees with what is stored.              *)
Knows(known) ==
    \A p \in indexed : p[1] \in DOMAIN known => known[p[1]] = p[2]

(* A feature that is stored in Qdrant is that of one term for ever, across *)
(* restarts of the worker, and the API, however old its copy, asks for the *)
(* features that were stored; unless two fits overlapped.                  *)
FeaturesKeepTheirTerm ==
    ~overlapped =>
        /\ \A p, q \in indexed : (p[1] = q[1]) <=> (p[2] = q[2])
        /\ workerUp => Knows(memory)
        /\ api.up => Knows(api.terms)
=============================================================================
