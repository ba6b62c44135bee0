----------------------------- MODULE ModelRegistry -----------------------------
(***************************************************************************)
(* The learned ranker of one process: the rows of search.models and the     *)
(* artifact files operators manage, the loader that swaps the served model  *)
(* behind a pointer, the experiment definitions cached beside it, requests  *)
(* that are routed by the one and scored by the other, and the shadow       *)
(* evaluation that writes metrics onto rows.                                *)
(***************************************************************************)
EXTENDS Naturals, FiniteSets

CONSTANTS
  Versions,     \* model versions
  Paths,        \* artifact files
  Contents,     \* what a file may hold; a digest is the content it identifies
  Loadable,     \* the contents that are a model
  Subjects,
  Bucket,       \* the bucket of each subject
  Definitions,  \* what operators write into search.experiments
  NoModel,      \* no model, row, file, arm or metrics
  HeuristicVersion,
  MaxChanges    \* changes operators make

ASSUME RegistryAssumption ==
  /\ Loadable \subseteq Contents
  /\ Bucket \in [Subjects -> 0..99]
  /\ NoModel \notin Versions \cup Contents \cup {HeuristicVersion}
  /\ HeuristicVersion \notin Versions
  /\ MaxChanges \in Nat

VARIABLES
  models,       \* search.models, by version
  files,        \* the artifact directory
  definitions,  \* search.experiments: the variants of search_ranker
  served,       \* Loader.current
  loader,       \* the Refresh under way
  arms,         \* Registry.byKey
  request,      \* the request under way
  shadow,       \* the shadow evaluation under way
  changes       \* changes so far

registryVars ==
  <<models, files, definitions, served, loader, arms, request, shadow, changes>>
-----------------------------------------------------------------------------
NoRow == [status |-> "none", sha |-> NoModel, path |-> NoModel, metrics |-> NoModel]

Active(rows) == {v \in Versions : rows[v].status = "active"}

IdleLoader == [phase |-> "idle", version |-> NoModel, sha |-> NoModel, path |-> NoModel]

NoRequest == [phase |-> "idle", subject |-> NoModel, want |-> NoModel,
              ranker |-> NoModel, stamp |-> NoModel]

IdleShadow == [phase |-> "idle", todo |-> {}, version |-> NoModel, report |-> NoModel]

ModelRows ==
  [status : {"shadow", "active", "retired"}, sha : Contents, path : Paths,
   metrics : Contents \cup {NoModel}]

\* A process starts beside whatever registry, artifacts and experiment are there.
RegistryInit ==
  /\ models \in [Versions -> ModelRows \cup {NoRow}] /\ Cardinality(Active(models)) <= 1
  /\ files \in [Paths -> Contents \cup {NoModel}]
  /\ definitions \in Definitions \cup {{}}
  /\ served = NoModel
  /\ loader = IdleLoader
  /\ arms = {}
  /\ request = NoRequest
  /\ shadow = IdleShadow
  /\ changes = 0

\* An operator's change, which touches nothing of the process.
Change(rows) ==
  /\ changes < MaxChanges
  /\ changes' = changes + 1
  /\ models' = rows
  /\ UNCHANGED <<served, loader, arms, request, shadow>>
-----------------------------------------------------------------------------
\* A file is placed once under a path and never rewritten, only removed.
PlaceArtifact(p, content) ==
  /\ files[p] = NoModel
  /\ files' = [files EXCEPT ![p] = content]
  /\ UNCHANGED definitions
  /\ Change(models)

RemoveArtifact(p) ==
  /\ files[p] \in Contents
  /\ files' = [files EXCEPT ![p] = "removed"]
  /\ UNCHANGED definitions
  /\ Change(models)

\* InsertModel: a trained version, or one trained again, becomes a shadow. The
\* trainer, which alone writes rows, always names a digest.
InsertModel(v, sha, p) ==
  /\ UNCHANGED <<files, definitions>>
  /\ Change([models EXCEPT ![v] = [status |-> "shadow", sha |-> sha, path |-> p,
                                   metrics |-> NoModel]])

Retired(rows) ==
  [v \in Versions |-> IF v \in Active(rows) THEN [rows[v] EXCEPT !.status = "retired"]
                      ELSE rows[v]]

\* RetireActiveModels and ActivateModel in one transaction
ActivateModel(v) ==
  /\ UNCHANGED <<files, definitions>>
  /\ Change([u \in Versions |->
       IF u = v /\ models[v].status # "none" THEN [models[v] EXCEPT !.status = "active"]
       ELSE Retired(models)[u]])

RetireActiveModels ==
  /\ Active(models) # {}
  /\ UNCHANGED <<files, definitions>>
  /\ Change(Retired(models))

UpsertExperiment(variants) ==
  /\ definitions' = variants
  /\ UNCHANGED files
  /\ Change(models)
-----------------------------------------------------------------------------
\* GetActiveModel; an error ends the pass with nothing changed.
RefreshRead ==
  /\ loader.phase = "idle"
  /\ IF Active(models) = {}
     THEN loader' = [IdleLoader EXCEPT !.phase = "clear"]
     ELSE \E v \in Active(models) :
            loader' = [phase |-> "check", version |-> v,
                       sha |-> models[v].sha, path |-> models[v].path]
  /\ UNCHANGED <<models, files, definitions, served, arms, request, shadow, changes>>

\* No active ranker: back to the heuristic.
RefreshClear ==
  /\ loader.phase = "clear"
  /\ served' = NoModel
  /\ loader' = IdleLoader
  /\ UNCHANGED <<models, files, definitions, arms, request, shadow, changes>>

\* Mutation: the version alone tells whether the model is the one served.
SameVersion == served # NoModel /\ served.version = loader.version

AlreadyServed ==
  served # NoModel /\ served.version = loader.version /\ served.sha = loader.sha

RefreshSkip ==
  /\ loader.phase = "check" /\ AlreadyServed
  /\ loader' = IdleLoader
  /\ UNCHANGED <<models, files, definitions, served, arms, request, shadow, changes>>

\* LoadLeaves: the file is a model, and what the row's digest names; a row without
\* a digest skips the checksum.
Verified(path, sha) ==
  /\ path \in Paths /\ files[path] \in Loadable
  /\ sha # NoModel => files[path] = sha

RefreshLoad ==
  /\ loader.phase = "check" /\ ~AlreadyServed
  /\ Verified(loader.path, loader.sha)
  /\ served' = [version |-> loader.version, sha |-> loader.sha]
  /\ loader' = IdleLoader
  /\ UNCHANGED <<models, files, definitions, arms, request, shadow, changes>>

\* A missing, foreign or malformed artifact keeps what is served.
RefreshKeeps ==
  /\ loader.phase = "check" /\ ~AlreadyServed
  /\ ~Verified(loader.path, loader.sha)
  /\ loader' = IdleLoader
  /\ UNCHANGED <<models, files, definitions, served, arms, request, shadow, changes>>

\* Registry.Refresh; the map is replaced under the lock.
RefreshExperiments ==
  /\ arms # definitions
  /\ arms' = definitions
  /\ UNCHANGED <<models, files, definitions, served, loader, request, shadow, changes>>
-----------------------------------------------------------------------------
\* Registry.Assign: the variant whose range holds the bucket, the first by Min.
Matching(subject) ==
  {x \in arms : x.min <= Bucket[subject] /\ Bucket[subject] < x.max}

Routed(subject) ==
  LET first == {x \in Matching(subject) : \A y \in Matching(subject) : x.min <= y.min}
  IN IF subject = NoModel \/ Matching(subject) = {} THEN {NoModel}
     ELSE {x.version : x \in first}

\* A request is assigned to an arm, or to none.
Assign(subject) ==
  /\ request.phase \in {"idle", "done"}
  /\ \E want \in IF subject = NoModel THEN {NoModel} ELSE Routed(subject) :
       request' = [NoRequest EXCEPT !.phase = "assigned", !.subject = subject, !.want = want]
  /\ UNCHANGED <<models, files, definitions, served, loader, arms, shadow, changes>>

\* Mutation: any loaded model serves an arm that wants a model.
AnyLoadedModel(want) ==
  IF want # NoModel /\ served # NoModel
  THEN [ranker |-> served, stamp |-> want]
  ELSE [ranker |-> NoModel, stamp |-> HeuristicVersion]

\* RankerFor loads the pointer once; what it returns belongs together.
RankerFor(want) ==
  IF want # NoModel /\ served # NoModel /\ served.version = want
  THEN [ranker |-> served, stamp |-> want]
  ELSE [ranker |-> NoModel, stamp |-> HeuristicVersion]

PickRanker ==
  /\ request.phase = "assigned"
  /\ LET picked == RankerFor(request.want)
     IN request' = [request EXCEPT !.phase = "ranking", !.ranker = picked.ranker,
                                   !.stamp = picked.stamp]
  /\ UNCHANGED <<models, files, definitions, served, loader, arms, shadow, changes>>

\* Recall, features and Rerank; the answer carries the stamp.
Answer ==
  /\ request.phase = "ranking"
  /\ request' = [request EXCEPT !.phase = "done"]
  /\ UNCHANGED <<models, files, definitions, served, loader, arms, shadow, changes>>
-----------------------------------------------------------------------------
Shadows == {v \in Versions : models[v].status = "shadow"}

\* ListShadowModels; the rows are read once.
ShadowList ==
  /\ shadow.phase = "idle" /\ Shadows # {}
  /\ shadow' = [IdleShadow EXCEPT !.phase = "score",
       !.todo = {[version |-> v, sha |-> models[v].sha, path |-> models[v].path] : v \in Shadows}]
  /\ UNCHANGED <<models, files, definitions, served, loader, arms, request, changes>>

\* LoadModel and the replay of the impressions; the report is of that content.
\* A model that does not load is skipped.
ShadowScore ==
  /\ shadow.phase = "score"
  /\ \E row \in shadow.todo :
       shadow' = IF Verified(row.path, row.sha)
                 THEN [phase |-> "write", todo |-> shadow.todo \ {row},
                       version |-> row.version, report |-> row.sha]
                 ELSE [shadow EXCEPT !.todo = @ \ {row}]
  /\ UNCHANGED <<models, files, definitions, served, loader, arms, request, changes>>

\* UpdateModelMetrics writes one column of the row, whatever the row is by now.
ShadowWrite ==
  /\ shadow.phase = "write"
  /\ models' = [models EXCEPT ![shadow.version].metrics = shadow.report]
  /\ shadow' = [shadow EXCEPT !.phase = "score", !.version = NoModel, !.report = NoModel]
  /\ UNCHANGED <<files, definitions, served, loader, arms, request, changes>>

ShadowEnds ==
  /\ shadow.phase = "score" /\ shadow.todo = {}
  /\ shadow' = IdleShadow
  /\ UNCHANGED <<models, files, definitions, served, loader, arms, request, changes>>

OperatorChange ==
  \/ \E p \in Paths, content \in Contents : PlaceArtifact(p, content)
  \/ \E p \in Paths : RemoveArtifact(p)
  \/ \E v \in Versions, sha \in Contents, p \in Paths : InsertModel(v, sha, p)
  \/ \E v \in Versions : ActivateModel(v)
  \/ RetireActiveModels
  \/ \E variants \in Definitions : UpsertExperiment(variants)

Refresh == RefreshRead \/ RefreshClear \/ RefreshSkip \/ RefreshLoad \/ RefreshKeeps

ShadowRun == ShadowList \/ ShadowScore \/ ShadowWrite \/ ShadowEnds

RegistryNext ==
  \/ OperatorChange \/ Refresh \/ RefreshExperiments \/ ShadowRun
  \/ \E subject \in Subjects \cup {NoModel} : Assign(subject)
  \/ PickRanker \/ Answer
-----------------------------------------------------------------------------
(* An answer is stamped with the version that scored it, which the caller's *)
(* arm had asked for, or with the heuristic's: no swap of the model or of   *)
(* the definitions in between attributes a ranking to another model         *)
(* (loader.go:72-76, evaluation.md:173-175).                                *)
StampIsTheScorer ==
  request.phase = "done" =>
    IF request.ranker = NoModel THEN request.stamp = HeuristicVersion
    ELSE request.stamp = request.ranker.version /\ request.stamp = request.want

ServedIsActive ==
  \A v \in Active(models) :
    Verified(models[v].path, models[v].sha) =>
      served = [version |-> v, sha |-> models[v].sha]

MetricsDescribeShadows ==
  \A v \in Shadows :
    Verified(models[v].path, models[v].sha) => models[v].metrics = models[v].sha

(* When operators leave the registry alone, the active ranker is served and *)
(* the metrics of each shadow are those of its artifact, whatever passes    *)
(* were under way (loader.go, Refresh; shadow.go, Run).                     *)
RegistrySettles ==
  <>[](ServedIsActive /\ MetricsDescribeShadows /\ (Active(models) = {} => served = NoModel))
=============================================================================
