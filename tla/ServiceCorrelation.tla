------------------------- MODULE ServiceCorrelation -------------------------
(***************************************************************************)
(* ServiceRelationshipsExtractor on what one scan extracted: agents read   *)
(* the deployment artifacts and the services, and then find, one step      *)
(* after the other, the cloud resources an artifact deploys, the services  *)
(* it deploys, and the resources a service runs on and uses.               *)
(*                                                                         *)
(* An agent may answer anything that its completion tool accepts: links    *)
(* between the entity it was asked about and the ones it was shown.  Of an *)
(* artifact's analysis only its deployment scope is kept: the resource     *)
(* groups it targets, and those its resources are named after.             *)
(***************************************************************************)
EXTENDS CodeIndexing, SequencesExt

CONSTANTS
    Needs,      \* manifest |-> content |-> the package names it depends on
    Resources,  \* the cloud resources in the data store
    Groups,     \* resource groups
    GroupOf,    \* resource |-> its group
    EnvOf,      \* deployment |-> the known groups named after the environment
                \* in its path
    Analyses,   \* what the analysis of an artifact may say
    Unread,     \* an artifact without an analysis
    MaxOffered  \* MAX_CANDIDATES_PER_SERVICE and the bound of a query

ASSUME CorrelationAssumption ==
    /\ Needs \in [Manifests -> [Contents -> SUBSET Names]]
    /\ GroupOf \in [Resources -> Groups]
    /\ EnvOf \in [Deployments -> SUBSET Groups]
    /\ Analyses \subseteq [targets : SUBSET Groups, named : SUBSET Groups]
    /\ Unread \notin Analyses
    /\ MaxOffered \in Nat \ {0}

VARIABLES
    iac,  \* iacAnalysis of the rows of deployment artifacts
    sre   \* the run of extract, or the last one

corrVars == <<iac, sre>>
vars == <<codeVars, corrVars>>

NoRun == [at |-> "idle", domains |-> {},
          art |-> [d \in Deployments |-> Unread],         \* artifactMap
          order |-> << >>,                                \* of Step 2
          reaches |-> [d \in Deployments |-> {}],         \* affinityByArtifact
          deploys |-> {},                                 \* of Step 6
          bound |-> {}]                                   \* of Step 7

Steps == <<"analyse", "order", "iac to cloud", "iac to service",
           "service to cloud", "done">>

CorrelationTypeOK ==
    /\ iac \in [Deployments -> Analyses \cup {Unread}]
    /\ DOMAIN sre = DOMAIN NoRun
    /\ sre.at \in {"idle"} \cup ToSet(Steps)
    /\ sre.domains \subseteq AllDomains
    /\ sre.art \in [Deployments -> Analyses \cup {Unread}]
    /\ ToSet(sre.order) \subseteq Services
    /\ sre.reaches \in [Deployments -> SUBSET Groups]
    /\ sre.deploys \subseteq Deployments \X Services
    /\ sre.bound \subseteq Services \X Resources

Init == CodeInit /\ iac = [d \in Deployments |-> Unread] /\ sre = NoRun

-----------------------------------------------------------------------------
(* topoSortServices: Kahn's algorithm over the names of the services.      *)

NeedsOf(s) == Needs[s[1]][scan.read[s[1]]]

\* The elements of seq at these positions, in their order.
Kept(seq, positions) ==
    LET nth(k) == CHOOSE i \in positions :
                      Cardinality({j \in positions : j <= i}) = k
    IN [k \in 1..Cardinality(positions) |-> seq[nth(k)]]

Named(svcs) == [i \in DOMAIN svcs |-> svcs[i][2]]
NamesOf(svcs) == ToSet(Named(svcs))

\* inDegree: what services of the name need, as far as it is in the run.
Degrees(svcs) ==
    [n \in NamesOf(svcs) |->
        Cardinality({e \in (DOMAIN svcs) \X NamesOf(svcs) :
                        svcs[e[1]][2] = n /\ e[2] \in NeedsOf(svcs[e[1]])})]

Dependents(svcs) ==
    [n \in NamesOf(svcs) |->
        Kept(Named(svcs), {i \in DOMAIN svcs : n \in NeedsOf(svcs[i])})]

\* The names that need nothing, in the order in which they come up.
First(svcs) ==
    Kept(Named(svcs), {i \in DOMAIN svcs :
                          /\ Degrees(svcs)[svcs[i][2]] = 0
                          /\ \A j \in 1..(i - 1) : svcs[j][2] # svcs[i][2]})

\* A mutant: what depends on it joins it, whatever else it waits for.
PopEarly(st, dependents) ==
    [queue |-> Tail(st.queue) \o dependents[Head(st.queue)], degree |-> st.degree,
     sorted |-> Append(st.sorted, Head(st.queue))]

\* One name of the queue: those that wait for nothing else join it, each when
\* its degree has been counted down to nothing.
Pop(st, dependents) ==
    LET waiting == dependents[Head(st.queue)]
        free == {i \in DOMAIN waiting :
                    Cardinality({j \in 1..i : waiting[j] = waiting[i]})
                        = st.degree[waiting[i]]}
        times(n) == Cardinality({i \in DOMAIN waiting : waiting[i] = n})
    IN [queue |-> Tail(st.queue) \o Kept(waiting, free),
        degree |-> [n \in DOMAIN st.degree |-> st.degree[n] - times(n)],
        sorted |-> Append(st.sorted, Head(st.queue))]

Unsorted(svcs) == [queue |-> First(svcs), degree |-> Degrees(svcs), sorted |-> << >>]

Kahn(svcs) ==
    LET kahn[k \in 0..Len(svcs)] ==
            IF k = 0 THEN Unsorted(svcs)
            ELSE IF kahn[k - 1].queue = << >> THEN kahn[k - 1]
            ELSE Pop(kahn[k - 1], Dependents(svcs))
    IN kahn[Len(svcs)]

\* What is on a cycle, or behind one, is appended in its original order.
TopoSort(svcs) ==
    LET sorted == Kahn(svcs).sorted
        \* nameToService: of services with one name the last one
        called(n) == svcs[CHOOSE i \in DOMAIN svcs :
                              /\ svcs[i][2] = n
                              /\ \A j \in (i + 1)..Len(svcs) : svcs[j][2] # n]
    IN [i \in DOMAIN sorted |-> called(sorted[i])]
       \o Kept(svcs, {i \in DOMAIN svcs : svcs[i][2] \notin ToSet(sorted)})

-----------------------------------------------------------------------------
(* The cloud resources an agent is shown.                                  *)

In(groups) == {r \in Resources : GroupOf[r] \in groups}

\* CloudResourceRepository.query: never more than it is asked for.
Query(found) ==
    IF Cardinality(found) <= MaxOffered THEN {found}
    ELSE {some \in SUBSET found : Cardinality(some) = MaxOffered}

\* resolveArtifactScope: what the artifact targets, the groups its resources
\* are named after, those of its environment.  An empty scope is a fallback.
Scope(d) ==
    IF sre.art[d] # Unread /\ sre.art[d].targets # {} THEN sre.art[d].targets
    ELSE IF sre.art[d] # Unread /\ sre.art[d].named # {} THEN sre.art[d].named
    ELSE EnvOf[d]

\* resolveResourceCandidates: fallback scopes have no candidates here.
InScopes(ds) == In(UNION {Scope(d) : d \in ds})

-----------------------------------------------------------------------------
(* extract.                                                                *)

Extracted == scan.files \cap Deployments

Advance(at) == sre' = [sre EXCEPT !.at = at]

\* runLLMCorrelationStage merges what was extracted with its rows, which
\* keeps the analysis of an earlier scan, if they can be queried.  No domain of
\* this stage may have been asked for.
BeginCorrelation(domains, fetched) ==
    /\ scan.at = "correlate" /\ sre.at = "idle"
    /\ IF domains = {}
       THEN /\ scan' = [scan EXCEPT !.at = "finish"]
            /\ UNCHANGED sre
       ELSE /\ sre' = [NoRun EXCEPT !.at = "analyse", !.domains = domains,
                                    !.art = [d \in Deployments |->
                                                IF fetched /\ d \in Extracted THEN iac[d]
                                                ELSE Unread]]
            /\ UNCHANGED scan
    /\ UNCHANGED iac

\* Steps 0 and 0.5.  An analysis that fails leaves the artifact what it was,
\* and one that cannot be stored is used all the same.
AnalyseIaC ==
    LET read == IF "iac" \in sre.domains THEN Extracted ELSE {} IN
    /\ sre.at = "analyse"
    /\ \E failed \in SUBSET read :
       \E said \in [read \ failed -> Analyses], stored \in SUBSET (read \ failed) :
          /\ iac' = [d \in Deployments |->
                        IF d \in stored THEN said[d] ELSE iac[d]]
          /\ sre' = [sre EXCEPT
                 !.at = "order",
                 !.art = [d \in Deployments |->
                             IF d \in read \ failed THEN said[d] ELSE @[d]]]
    /\ UNCHANGED scan

\* Step 2: the services in dependency order, so that the surfaces of what a
\* service depends on are context for it.  The order they come in is glob's.
AnalyseServices ==
    /\ sre.at = "order"
    /\ IF "services" \in sre.domains
       THEN \E svcs \in SetToSeqs(scan.services) :
               sre' = [sre EXCEPT !.at = "iac to cloud", !.order = TopoSort(svcs)]
       ELSE Advance("iac to cloud")
    /\ UNCHANGED <<iac, scan>>

\* Step 5: an artifact is shown what is in its scope, or anything; the groups
\* of what it deploys are its affinity.
IaCToCloud ==
    LET shown == IF "iac" \in sre.domains THEN Extracted ELSE {}
        offered(d) == Query(IF Scope(d) # {} THEN In(Scope(d)) ELSE Resources)
        answers(d) == UNION {SUBSET o : o \in offered(d)}
    IN
    /\ sre.at = "iac to cloud"
    /\ \E deployed \in [shown -> SUBSET Resources] :
          /\ \A d \in shown : deployed[d] \in answers(d)
          /\ sre' = [sre EXCEPT
                 !.at = "iac to service", !.order = << >>,
                 !.reaches = [d \in Deployments |->
                                 IF d \in shown
                                 THEN {GroupOf[r] : r \in deployed[d]} ELSE {}]]
    /\ UNCHANGED <<iac, scan>>

\* Step 6.
IaCToService ==
    LET shown == IF "iac" \in sre.domains THEN Extracted ELSE {} IN
    /\ sre.at = "iac to service"
    /\ \E deploys \in SUBSET (shown \X scan.services) :
          sre' = [sre EXCEPT !.at = "service to cloud", !.deploys = deploys]
    /\ UNCHANGED <<iac, scan>>

DeployedBy(s) == {d \in Deployments : <<d, s>> \in sre.deploys}

\* A mutant: the groups of all artifacts, whatever they deploy.
AffinityOfAll(s) == UNION {sre.reaches[d] : d \in Deployments}

\* Affinity promotion: the groups of the artifacts that deploy a service.
Affinity(s) == UNION {sre.reaches[d] : d \in DeployedBy(s)}

\* What the agent of Step 7 is shown for a service: without an artifact that
\* deploys it, resources of the types its analysis says it depends on.
Offered(s) ==
    IF DeployedBy(s) = {} THEN {o \in SUBSET Resources : Cardinality(o) <= MaxOffered}
    ELSE IF Affinity(s) # {} THEN Query(In(Affinity(s)))
    ELSE Query(InScopes(DeployedBy(s)))

\* Step 7.  The services are asked about one after the other and no answer
\* depends on another: the run is followed through one of them.
ServiceToCloud ==
    /\ sre.at = "service to cloud"
    /\ IF "service_relationships" \in sre.domains /\ scan.services # {}
       THEN \E s \in scan.services :
            \E uses \in UNION {SUBSET o : o \in Offered(s)} :
               sre' = [sre EXCEPT !.at = "done", !.bound = {s} \X uses]
       ELSE Advance("done")
    /\ UNCHANGED <<iac, scan>>

EndCorrelation ==
    /\ sre.at = "done"
    /\ sre' = NoRun
    /\ scan' = [scan EXCEPT !.at = "finish"]
    /\ UNCHANGED iac

CorrelationStep ==
    \/ \E domains \in left.domains, fetched \in BOOLEAN :
          BeginCorrelation(domains, fetched)
    \/ AnalyseIaC \/ AnalyseServices \/ IaCToCloud \/ IaCToService
    \/ ServiceToCloud \/ EndCorrelation

\* A scan that fails takes its run with it.
Next ==
    \/ /\ CodeEnvironment \/ CodeStep
       /\ sre' = IF scan'.at = "idle" THEN NoRun ELSE sre
       /\ UNCHANGED iac
    \/ /\ CorrelationStep
       /\ UNCHANGED <<tree, known, base, rows, service, owner, links, torn, left>>

Spec == Init /\ [][Next]_vars

-----------------------------------------------------------------------------
(* Properties.                                                             *)

\* Which service of the run needs which, by name.
Dependency == {e \in scan.services \X scan.services : e[2][2] \in NeedsOf(e[1])}

\* No set that holds s leads back to itself wherever it is left: what s
\* depends on, however far, forms no cycle.
Acyclic(s) ==
    \A on \in SUBSET scan.services :
        s \in on => \E x \in on : \A d \in on : <<x, d>> \notin Dependency

\* Step 2 promises each service the surfaces of what it depends on: where
\* names tell services apart, all of them are in the order, each once, and a
\* dependency comes first unless it is on a cycle or depends on one.
DependenciesFirst ==
    LET distinct == \A s, o \in scan.services : s[2] = o[2] => s = o
        place(s) == CHOOSE i \in DOMAIN sre.order : sre.order[i] = s
    IN
    sre.at = "iac to cloud" /\ "services" \in sre.domains /\ distinct =>
        /\ IsInjective(sre.order) /\ ToSet(sre.order) = scan.services
        /\ \A e \in Dependency : Acyclic(e[1]) => place(e[2]) < place(e[1])

\* Whatever the agents answer in four steps, a service that only artifacts of
\* known scope deploy is bound to resources of those scopes: those of another
\* environment are never among them.
LinksInScope ==
    sre.at = "done" =>
        \A link \in sre.bound :
            LET by == DeployedBy(link[1])
            IN by # {} /\ (\A d \in by : Scope(d) # {}) =>
                   GroupOf[link[2]] \in UNION {Scope(d) : d \in by}
=============================================================================
