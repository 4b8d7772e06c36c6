-------------------------- MODULE RepositoryIndexing --------------------------
(***************************************************************************)
(* The agent-led indexing of one repository: RepositoryIndexingService.    *)
(* A coding agent submits one stage after the other; each call reads the   *)
(* session's row, validates the submission against that copy, stores the   *)
(* entities, and writes the copy back as the session's whole state.        *)
(*                                                                         *)
(* A service or feature stands for its name; an entity id is a function of *)
(* the name, so an id is recorded iff the name is.                         *)
(***************************************************************************)
EXTENDS Naturals, Sequences, FiniteSets

CONSTANTS Services,      \* the services of the repository
          Features,      \* its features
          Calls,         \* calls of the tool that can be in flight at once
          MaxSessions    \* bound: how many sessions are created

ASSUME BoundAssumption == MaxSessions \in Nat \ {0}

StageOrder == <<"repository_inventory", "service_extraction",
                "feature_extraction", "dfd_creation", "threat_model_creation",
                "relationship_correlation", "completeness_check", "completed">>

Stages == {StageOrder[i] : i \in 1..8}

Position(stage) == CHOOSE i \in 1..8 : StageOrder[i] = stage

\* Mutation: off by one.
NextStageSkipping(stage) ==
    StageOrder[IF Position(stage) > 6 THEN 8 ELSE Position(stage) + 2]

NextStage(stage) ==
    StageOrder[IF Position(stage) = 8 THEN 8 ELSE Position(stage) + 1]

\* RepositoryIndexingRunMetadata, with the run's status.
Session == [status: {"running", "completed"},
            stage: Stages,
            done: SUBSET Stages,          \* completedStages
            repo: BOOLEAN,                \* persistedIds.repositoryId
            services: SUBSET Services,    \* persistedIds.serviceIds
            drafts: SUBSET Features,      \* drafts.features
            features: SUBSET Features,    \* persistedIds.featureIds
            dfds: SUBSET Services,        \* persistedIds.servicesWithDfd
            models: SUBSET Features]      \* persistedIds.featuresWithThreatModel

NewSession ==
    [status |-> "running", stage |-> "repository_inventory", done |-> {},
     repo |-> FALSE, services |-> {}, drafts |-> {}, features |-> {},
     dfds |-> {}, models |-> {}]

\* A submission: its stage, the names it lists, and for a threat model the
\* services it gives a DFD for.
Submission == [stage: Stages \ {"completed"},
               services: SUBSET Services, features: SUBSET Features]

\* The submissions that list names only where the stage has a place for them.
Payloads ==
    {s \in Submission :
        /\ s.services # {} =>
             s.stage \in {"service_extraction", "threat_model_creation"}
        /\ s.features # {} =>
             s.stage \in {"feature_extraction", "dfd_creation", "threat_model_creation"}}

VARIABLES
    sessions,   \* the indexing_runs rows, in creation order
    entities,   \* what is stored of the repository, its services and features
    at,         \* where each call is
    id,         \* the session each call found or created
    copy,       \* its copy of the session's state
    sent,       \* its submission
    overlap     \* history: calls were in flight together, or forced a session

vars == <<sessions, entities, at, id, copy, sent, overlap>>

NoSubmission == [stage |-> "repository_inventory", services |-> {}, features |-> {}]

TypeOK ==
    /\ sessions \in Seq(Session)
    /\ entities \in [repo: BOOLEAN, services: SUBSET Services,
                     features: SUBSET Features, dfds: SUBSET Services,
                     models: SUBSET Features]
    /\ at \in [Calls -> {"idle", "create", "validate", "persist", "save"}]
    /\ id \in [Calls -> 0..Len(sessions)]
    /\ copy \in [Calls -> Session]
    /\ sent \in [Calls -> Submission]
    /\ overlap \in BOOLEAN

Init ==
    /\ sessions = <<>>
    /\ entities = [repo |-> FALSE, services |-> {}, features |-> {},
                   dfds |-> {}, models |-> {}]
    /\ at = [c \in Calls |-> "idle"]
    /\ id = [c \in Calls |-> 0]
    /\ copy = [c \in Calls |-> NewSession]
    /\ sent = [c \in Calls |-> NoSubmission]
    /\ overlap = FALSE

-----------------------------------------------------------------------------
(* Which session a call is about.                                          *)

Running == {i \in DOMAIN sessions : sessions[i].status = "running"}

Newest == {i \in Running : \A j \in Running : j <= i}

Use(c, i) ==
    /\ id' = [id EXCEPT ![c] = i]
    /\ copy' = [copy EXCEPT ![c] = sessions[i]]
    /\ at' = [at EXCEPT ![c] = "validate"]

Quiet == \A c \in Calls : at[c] = "idle"

Want(c, s) == sent' = [sent EXCEPT ![c] = s] /\ overlap' = (overlap \/ ~Quiet)

\* With a sessionId.
Resume(c, i, s) ==
    /\ at[c] = "idle"
    /\ Use(c, i)
    /\ Want(c, s)
    /\ UNCHANGED <<sessions, entities>>

\* Without one: the newest running session, if there is one.
Find(c, s) ==
    /\ at[c] = "idle"
    /\ \/ \E i \in Newest : Use(c, i)
       \/ Running = {} /\ at' = [at EXCEPT ![c] = "create"] /\ UNCHANGED <<id, copy>>
    /\ Want(c, s)
    /\ UNCHANGED <<sessions, entities>>

\* With forceNewSession.
ForceNew(c, s) ==
    /\ at[c] = "idle"
    /\ at' = [at EXCEPT ![c] = "create"]
    /\ sent' = [sent EXCEPT ![c] = s]
    /\ overlap' = TRUE
    /\ UNCHANGED <<sessions, entities, id, copy>>

CreateNewRun(c) ==
    /\ at[c] = "create"
    /\ Len(sessions) < MaxSessions
    /\ sessions' = Append(sessions, NewSession)
    /\ id' = [id EXCEPT ![c] = Len(sessions) + 1]
    /\ copy' = [copy EXCEPT ![c] = NewSession]
    /\ at' = [at EXCEPT ![c] = "validate"]
    /\ UNCHANGED <<entities, sent, overlap>>

Done(c) ==
    /\ at' = [at EXCEPT ![c] = "idle"]
    /\ id' = [id EXCEPT ![c] = 0]
    /\ copy' = [copy EXCEPT ![c] = NewSession]
    /\ sent' = [sent EXCEPT ![c] = NoSubmission]

\* A call without a submission only asks for instructions.
Ask(c) ==
    /\ at[c] = "validate"
    /\ Done(c)
    /\ UNCHANGED <<sessions, entities, overlap>>

-----------------------------------------------------------------------------
(* validateSubmission, as far as it depends on the session.                *)

\* Once features are persisted their names count, before that the drafts'.
KnownFeatures(m) == IF m.features # {} THEN m.features ELSE m.drafts

\* A submission with no features is let through with a warning.  Names that
\* are not known are refused, unless nothing is known.
ValidPayload(m, s) ==
    CASE s.stage = "service_extraction" -> s.services # {}
      [] s.stage \in {"dfd_creation", "threat_model_creation"} ->
           KnownFeatures(m) # {} =>
               /\ s.features # {} /\ s.features \subseteq KnownFeatures(m)
               /\ m.services # {} => s.services \subseteq m.services
      [] OTHER -> TRUE

Valid(m, s) == s.stage = m.stage /\ ValidPayload(m, s)

-----------------------------------------------------------------------------
(* persistStage, and the state the session moves to.                       *)

\* Features and services a threat model submission reaches: the service DFDs
\* are listed under a feature, which must have been persisted.
ModelledFeatures(m, s) == s.features \cap m.features

\* Mutation: only DFDs that exist are replaced.
ModelledServicesAgain(m, s) == s.services \cap m.dfds

ModelledServices(m, s) ==
    IF ModelledFeatures(m, s) = {} THEN {} ELSE s.services \cap m.services

\* What the stage records in the session's persistedIds and drafts.
Recorded(m, s) ==
    CASE s.stage = "repository_inventory" -> [m EXCEPT !.repo = TRUE]
      [] s.stage = "service_extraction" ->
           [m EXCEPT !.services = @ \cup s.services]
      [] s.stage = "feature_extraction" -> [m EXCEPT !.drafts = s.features]
      [] s.stage = "dfd_creation" ->
           [m EXCEPT !.features = @ \cup (s.features \cap m.drafts)]
      [] s.stage = "threat_model_creation" ->
           [m EXCEPT !.dfds = ModelledServices(m, s),
                     !.models = ModelledFeatures(m, s)]
      [] OTHER -> m

\* What it stores.  storeEntity merges the top-level fields of an entity: a
\* service keeps its DFD, a feature stored anew loses its threat model.
Stored(e, m, s) ==
    CASE s.stage = "repository_inventory" -> [e EXCEPT !.repo = TRUE]
      [] s.stage = "service_extraction" ->
           [e EXCEPT !.services = @ \cup s.services]
      [] s.stage = "dfd_creation" ->
           [e EXCEPT !.features = @ \cup (s.features \cap m.drafts),
                     !.models = @ \ (s.features \cap m.drafts)]
      [] s.stage = "threat_model_creation" ->
           [e EXCEPT !.dfds = @ \cup ModelledServices(m, s),
                     !.models = @ \cup ModelledFeatures(m, s)]
      [] OTHER -> e

\* Mutation: services without a DFD are let through.
MeetsMinimumBarNoDfds(m) == m.repo /\ m.services # {}

MeetsMinimumBar(m) ==
    /\ m.repo
    /\ m.services # {}
    /\ m.features # {} => "dfd_creation" \in m.done
    /\ "threat_model_creation" \in m.done => m.services \subseteq m.dfds

\* Mutation: a failed completeness check reopens the threat models.
AdvanceReopening(m) ==
    IF m.stage = "completeness_check" /\ ~MeetsMinimumBar(m)
      THEN [m EXCEPT !.stage = "threat_model_creation"]
      ELSE [m EXCEPT !.done = @ \cup {m.stage}, !.stage = NextStage(@)]

\* processSubmission from "Advance stage" on.
Advance(m) ==
    LET n == [m EXCEPT !.done = @ \cup {m.stage}]
    IN  IF m.stage # "completeness_check" THEN [n EXCEPT !.stage = NextStage(@)]
        ELSE IF MeetsMinimumBar(n)
          THEN [n EXCEPT !.stage = "completed", !.status = "completed",
                         !.done = @ \cup {"completed"}]
          ELSE n

-----------------------------------------------------------------------------
\* Mutation: a refused call ends in a state of its own.
ValidateRefusing(c) ==
    /\ at[c] = "validate"
    /\ at' = [at EXCEPT ![c] = IF Valid(copy[c], sent[c]) THEN "persist" ELSE "refused"]
    /\ UNCHANGED <<sessions, entities, id, copy, sent, overlap>>

\* An invalid submission is recorded in the session's history: the copy is
\* written back all the same.
Validate(c) ==
    /\ at[c] = "validate"
    /\ at' = [at EXCEPT ![c] = IF Valid(copy[c], sent[c]) THEN "persist" ELSE "save"]
    /\ UNCHANGED <<sessions, entities, id, copy, sent, overlap>>

\* Mutation: the entities are not stored before the session is saved.
PersistRecordsOnly(c) ==
    /\ at[c] = "persist"
    /\ copy' = [copy EXCEPT ![c] = Advance(Recorded(@, sent[c]))]
    /\ at' = [at EXCEPT ![c] = "save"]
    /\ UNCHANGED <<sessions, entities, id, sent, overlap>>

Persist(c) ==
    /\ at[c] = "persist"
    /\ entities' = Stored(entities, copy[c], sent[c])
    /\ copy' = [copy EXCEPT ![c] = Advance(Recorded(@, sent[c]))]
    /\ at' = [at EXCEPT ![c] = "save"]
    /\ UNCHANGED <<sessions, id, sent, overlap>>

\* A write fails part way: what was stored stays, the session is not saved.
PersistFails(c) ==
    /\ at[c] = "persist"
    /\ \E S \in SUBSET sent[c].services, F \in SUBSET sent[c].features :
          entities' = Stored(entities, copy[c],
                             [sent[c] EXCEPT !.services = S, !.features = F])
    /\ Done(c)
    /\ UNCHANGED <<sessions, overlap>>

\* saveMeta: the row is replaced by the copy, its status included.
SaveMeta(c) ==
    /\ at[c] = "save"
    /\ sessions' = [sessions EXCEPT ![id[c]] = copy[c]]
    /\ Done(c)
    /\ UNCHANGED <<entities, overlap>>

\* The call is cut off by a failing query or a restart.
Abort(c) ==
    /\ at[c] # "idle"
    /\ Done(c)
    /\ UNCHANGED <<sessions, entities, overlap>>

-----------------------------------------------------------------------------
Request(c) ==
    \E s \in Payloads :
       \/ \E i \in DOMAIN sessions : Resume(c, i, s)
       \/ Find(c, s)

Step(c) == CreateNewRun(c) \/ Validate(c) \/ Persist(c) \/ SaveMeta(c)

Next ==
    \E c \in Calls :
       \/ Request(c)
       \/ \E s \in Payloads : ForceNew(c, s)
       \/ Ask(c) \/ Step(c) \/ PersistFails(c) \/ Abort(c)

\* Calls overlap: two agents, or one that repeats a call it gave up on.
Spec == Init /\ [][Next]_vars

-----------------------------------------------------------------------------
(* The agent of /batta-index: it submits the stage it was last told, lists *)
(* everything the repository has, and repeats what failed until the status *)
(* is "completed".  A call that is repeated often enough succeeds.         *)

Stage == IF sessions = <<>> THEN "repository_inventory" ELSE sessions[1].stage

Submit(c, stage, services) ==
    Quiet /\ Find(c, [stage |-> stage, services |-> services, features |-> Features])

Honest(c) == Stage # "completed" /\ Submit(c, Stage, Services)

DiligentNext ==
    \E c \in Calls : Honest(c) \/ Ask(c) \/ Step(c) \/ PersistFails(c) \/ Abort(c)

Fairness ==
    \A c \in Calls : /\ SF_vars(Honest(c)) /\ SF_vars(CreateNewRun(c))
                     /\ SF_vars(Validate(c)) /\ SF_vars(Persist(c))
                     /\ SF_vars(SaveMeta(c))

DiligentSpec == Init /\ [][DiligentNext]_vars /\ Fairness

\* One whose first threat models leave services out, and which then does what
\* the gap's follow-up asks: re-submit the threat_model_creation stage.
Resubmit(c) ==
    Stage = "completeness_check" /\ Submit(c, "threat_model_creation", Services)

HastyNext ==
    \E c \in Calls :
       \/ Honest(c) \/ Resubmit(c) \/ Step(c)
       \/ \E S \in SUBSET Services :
             Stage = "threat_model_creation" /\ Submit(c, Stage, S)

HastySpec ==
    Init /\ [][HastyNext]_vars /\ Fairness /\ \A c \in Calls : SF_vars(Resubmit(c))

-----------------------------------------------------------------------------
(* However many calls overlap.                                             *)

\* Calls write back stale copies and roll sessions back, yet a session that
\* shows as completed has passed the completeness check with what it records,
\* and only such a session shows as completed.
CompletedMeetsBar ==
    \A i \in DOMAIN sessions : LET s == sessions[i] IN
        /\ s.status = "completed" <=> s.stage = "completed"
        /\ s.status = "completed" =>
             s.repo /\ s.services # {} /\ s.services \subseteq s.dfds

\* What a session, or a copy in flight, records as persisted is stored, so a
\* later stage finds the entities it extends.
RecordedEntitiesExist ==
    \A s \in {sessions[i] : i \in DOMAIN sessions} \cup {copy[c] : c \in Calls} :
        /\ s.repo => entities.repo
        /\ s.services \subseteq entities.services
        /\ s.features \subseteq entities.features
        /\ s.dfds \subseteq entities.dfds

\* The stages behind a session are exactly those before its current one; a
\* failed completeness check counts as done and stays current.
DoneIsPrefix ==
    \A i \in DOMAIN sessions : LET s == sessions[i] IN
        {StageOrder[j] : j \in 1..(Position(s.stage) - 1)} = s.done \ {s.stage}

(* As long as one agent awaits its replies and forces no new session.      *)

\* A session never goes back to an earlier stage, whatever is repeated, given
\* up or fails.
NeverBack ==
    [][~overlap' => \A i \in DOMAIN sessions :
          Position(sessions[i].stage) <= Position(sessions'[i].stage)]_vars

(* For an agent that follows the instructions.                             *)

\* Indexing ends.
IndexingCompletes == <>(Stage = "completed")
=============================================================================
