----------------------------- MODULE MCServices -----------------------------
(***************************************************************************)
(* The components around the pipeline and the demo, one at a time: they    *)
(* share no state, so that each behaviour follows one of them (focus) and  *)
(* leaves the others as they began.                                        *)
(***************************************************************************)
EXTENDS LiveTraces, Evaluations, DocumentPages, RecoveryQueue, WorkerHealth, Chunking,
        RegistryAdapters, RegistryMigration, CollectionSchema, TLC

VARIABLE focus

(* Uploads of one to three pages: all short texts of letters, full stops   *)
(* and spaces, and some with section markers.                              *)
MCCharacters == {"w", "m", "n", ".", " ", "\n"}
MCTexts(n) == UNION {[1..k -> {"w", ".", " "}] : k \in 0..n}
MCMarkers == ("two" :> << <<"m">>, <<"n", " ", "n">> >>) @@ ("one" :> << <<"m">>, <<"m", ".">> >>)
MCCandidates == <<"two", "one">>
MCMarkedTexts == {<<"w", "m", " ", "n", " ", "n", ".">>, <<"n", "\n", "n", "m">>, << >>,
                  <<"w", ".", " ", "w", ".", " ", "n", "\n", "n">>, <<"m", ".", " ", "w">>}
MCUploads == {<<a, b>> : a \in MCTexts(3), b \in {<< >>, <<"w">>}}
             \cup (MCMarkedTexts \X MCMarkedTexts)
             \cup {<<a, <<"w">>, b>> : a, b \in MCTexts(1)}
MCSentenceSets == {[size |-> 2, overlap |-> 1], [size |-> 2, overlap |-> 0],
                   [size |-> 3, overlap |-> 1]}

MCColumns == <<"tenant_id", "attempt_count">>
MCIndexes == <<"document_id", "version_id", "tenant_id">>

MCInit ==
    /\ TracesInit /\ EvaluationsInit /\ PagesInit /\ QueueInit /\ HealthInit
    /\ ChunkingInit /\ AdaptersInit /\ MigrationInit /\ SchemaInit
    /\ focus \in {"traces", "evaluations", "pages", "queue", "health", "chunking",
                  "adapters", "migration", "schema"}
    /\ focus # "evaluations" => head = "r1"
    /\ focus # "schema" => collection = NoCollection

Rest(component, vars) == IF focus = component THEN TRUE ELSE UNCHANGED vars

MCNext ==
    /\ UNCHANGED focus
    /\ Rest("traces", traceVars) /\ Rest("evaluations", evalVars) /\ Rest("pages", pagesVars)
    /\ Rest("queue", queueVars) /\ Rest("health", health)
    /\ Rest("chunking", upload) /\ Rest("adapters", adapterVars)
    /\ Rest("migration", migrationVars) /\ Rest("schema", schemaVars)
    /\ \/ focus = "traces"      /\ TracesNext
       \/ focus = "evaluations" /\ EvaluationsNext
       \/ focus = "pages"       /\ PagesNext
       \/ focus = "queue"       /\ QueueNext
       \/ focus = "health"      /\ HealthNext
       \/ focus = "chunking"    /\ ChunkingNext
       \/ focus = "adapters"    /\ AdaptersNext
       \/ focus = "migration"   /\ MigrationNext
       \/ focus = "schema"      /\ SchemaNext

MCSpec ==
    /\ MCInit
    /\ [][MCNext]_<<focus, traceVars, evalVars, pagesVars, queueVars, health, upload,
                    adapterVars, migrationVars, schemaVars>>
    /\ TracesFairness /\ EvaluationsFairness /\ QueueFairness
=============================================================================
