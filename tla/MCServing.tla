------------------------------ MODULE MCServing ------------------------------
(* What one serving process does beside the catalog and the event handlers,   *)
(* one concern per behaviour: starting behind a migrated schema, living beside *)
(* its balancer, swapping rankers, paging, suggesting and recommending. The   *)
(* concerns share no variable, so `part` chooses instead of interleaving them. *)
EXTENDS SchemaLedger, ServerLifecycle, ModelRegistry, SearchPaging, Suggestions,
        Recommendation, TLC

CONSTANTS r1, r2, p1, p2, good1, good2, s1, s2, v1, v2, v3, v4, c1

VARIABLES part

MCBucket == (s1 :> 10) @@ (s2 :> 60)
MCDefinitions ==
  {{[min |-> 0, max |-> 50, version |-> r1], [min |-> 50, max |-> 100, version |-> r2]}}

\* The directory holds the artifacts of one version and of its retraining, or the
\* first of them only; which path and which digest is which does not matter.
MCFiles == {(p1 :> good1) @@ (p2 :> good2), (p1 :> good1) @@ (p2 :> NoModel)}

\* A registry nobody has used, and one whose first version is active and served to
\* the subjects of an experiment.
MCRegistry(status) ==
  [v \in Versions |->
     IF v = r1 /\ status # "none"
     THEN [status |-> status, sha |-> good1, path |-> p1, metrics |-> NoModel] ELSE NoRow]
MCStarts == {<<MCRegistry("none"), {}>>} \cup ({MCRegistry("active")} \X MCDefinitions)

MCLimits == {-1, 1, 3, 9}

\* A title and a popular query of one text, a history entry of another query's
\* text, a typo's title: every stream, alone and merged with another.  The scores
\* keep the order of the default weights: a history entry stands above every
\* document, and a query may stand above either.
Candidate(text, source, exact, video, score) ==
  [text |-> text, source |-> source, personal |-> source = "history", exact |-> exact,
   video |-> video, score |-> score]
MCStreamRows ==
  <<Candidate("a", "doc", TRUE, v1, 1), Candidate("b", "doc", TRUE, v2, 0),
    Candidate("a", "query", TRUE, NoVideo, 5), Candidate("c", "query", TRUE, NoVideo, 2),
    Candidate("d", "query", TRUE, NoVideo, 6), Candidate("c", "history", TRUE, NoVideo, 4),
    Candidate("e", "history", TRUE, NoVideo, 4), Candidate("f", "doc", FALSE, v3, 1)>>
MCTextOrder ==
  ("a" :> 1) @@ ("b" :> 2) @@ ("c" :> 3) @@ ("d" :> 4) @@ ("e" :> 5) @@ ("f" :> 6)

\* Three videos of one channel, more than its cap, and one without a channel.
MCChannelOf == (v1 :> c1) @@ (v2 :> c1) @@ (v3 :> NoChannel) @@ (v4 :> c1)
MCPopularOrder == <<v1, v2, v3, v4>>
MCRecentOrder == <<v4, v3, v2, v1>>
MCSimilar == [v \in Videos |-> {v1, v3}]
MCCoWatched == [v \in Videos |-> IF v = v1 THEN {v2, v4} ELSE {v1}]
MCTrendingList == <<v2, v3>>
-----------------------------------------------------------------------------
servingVars == <<part, schemaVars, lifecycleVars, registryVars, pagingVars,
                 suggestionsVars, recommendationVars>>

\* Only the chosen part has its choice of initial states.
ServingInit ==
  /\ part \in {"schema", "lifecycle", "registry", "paging", "suggestions", "feeds"}
  /\ SchemaInit /\ (part # "schema" => services = {})
  /\ LifecycleInit
  /\ RegistryInit /\ <<models, definitions>> \in MCStarts /\ files \in MCFiles
  /\ part # "registry" => definitions = {} /\ files[p2] = NoModel
  /\ PagingInit /\ (part # "paging" => corpus = 0 /\ mode = "simple")
  /\ SuggestionsInit
  /\ RecommendationInit /\ (part # "feeds" => eligible = {} /\ seed = v1)

ServingNext ==
  /\ UNCHANGED part
  /\ \/ /\ part = "schema" /\ SchemaNext
        /\ UNCHANGED <<lifecycleVars, registryVars, pagingVars, suggestionsVars,
                       recommendationVars>>
     \/ /\ part = "lifecycle" /\ LifecycleNext
        /\ UNCHANGED <<schemaVars, registryVars, pagingVars, suggestionsVars,
                       recommendationVars>>
     \/ /\ part = "registry" /\ RegistryNext
        /\ UNCHANGED <<schemaVars, lifecycleVars, pagingVars, suggestionsVars,
                       recommendationVars>>
     \/ /\ part = "paging" /\ PagingNext
        /\ UNCHANGED <<schemaVars, lifecycleVars, registryVars, suggestionsVars,
                       recommendationVars>>
     \/ /\ part = "suggestions" /\ SuggestionsNext
        /\ UNCHANGED <<schemaVars, lifecycleVars, registryVars, pagingVars,
                       recommendationVars>>
     \/ /\ part = "feeds" /\ RecommendationNext
        /\ UNCHANGED <<schemaVars, lifecycleVars, registryVars, pagingVars,
                       suggestionsVars>>

\* The fairness of a part binds the behaviours of that part only; elsewhere its
\* actions are enabled and never taken.
ServingFairness ==
  /\ WF_registryVars(part = "registry" /\ Refresh)
  /\ WF_registryVars(part = "registry" /\ ShadowRun)
  /\ WF_lifecycleVars(part = "lifecycle" /\ Tick)
  /\ WF_lifecycleVars(part = "lifecycle" /\ ShutdownGoesOn)
  /\ WF_lifecycleVars(part = "lifecycle" /\ OrphanPings)
  /\ WF_lifecycleVars(part = "lifecycle" /\ ProbeArrives(Balancer))
  /\ \A w \in Watchers : WF_lifecycleVars(part = "lifecycle" /\ GiveUp(w))
  /\ \A r \in Requests : WF_lifecycleVars(part = "lifecycle" /\ RequestDeadline(r))

ServingSpec == ServingInit /\ [][ServingNext]_servingVars /\ ServingFairness
-----------------------------------------------------------------------------
(* Once operators leave the registry alone, a process serves the active model *)
(* and the shadows carry their metrics (ModelRegistry, RegistrySettles).       *)
RegistryComesToRest == part = "registry" => RegistrySettles

(* A process that was told to stop exits, within its two timeouts and those   *)
(* of its handlers (ServerLifecycle, DrainEnds).                              *)
DrainComesToEnd == part = "lifecycle" => DrainEnds
=============================================================================
