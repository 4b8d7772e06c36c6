---------------------- MODULE RepositoryIndexing_proofs ----------------------
(***************************************************************************)
(* Proofs about RepositoryIndexing, for any services and features, any     *)
(* number of calls in flight and any number of sessions.                   *)
(*                                                                         *)
(* The copies in flight are what make it an argument: a call writes back   *)
(* the session it started from, so whatever holds of a session must hold   *)
(* of every copy of it that may still be written.                          *)
(***************************************************************************)
EXTENDS RepositoryIndexing, TLAPS

-----------------------------------------------------------------------------
(* The order of the stages.                                                *)

LEMMA StagesDistinct ==
    \A i, j \in 1..8 : StageOrder[i] = StageOrder[j] => i = j
BY DEF StageOrder

\* Position is the inverse of StageOrder.
LEMMA PositionOfNth == \A i \in 1..8 : Position(StageOrder[i]) = i
BY StagesDistinct DEF Position

LEMMA PositionRange ==
    ASSUME NEW s \in Stages
    PROVE  Position(s) \in 1..8 /\ StageOrder[Position(s)] = s
BY PositionOfNth DEF Stages

LEMMA Names ==
    /\ "completed" \in Stages /\ Position("completed") = 8
    /\ "completeness_check" \in Stages /\ Position("completeness_check") = 7
    /\ "threat_model_creation" \in Stages /\ Position("threat_model_creation") = 5
    /\ "repository_inventory" \in Stages /\ Position("repository_inventory") = 1
<1>1. /\ StageOrder[8] = "completed" /\ StageOrder[7] = "completeness_check"
      /\ StageOrder[5] = "threat_model_creation"
      /\ StageOrder[1] = "repository_inventory"
  BY DEF StageOrder
<1> QED BY <1>1, PositionOfNth DEF Stages

Earlier(p) == {StageOrder[j] : j \in 1..(p - 1)}

LEMMA EarlierNext ==
    ASSUME NEW p \in 1..7
    PROVE  /\ Earlier(p + 1) = Earlier(p) \cup {StageOrder[p]}
           /\ StageOrder[p + 1] \notin Earlier(p + 1)
<1>1. 1..((p + 1) - 1) = 1..(p - 1) \cup {p}
  OBVIOUS
<1>2. Earlier(p + 1) = Earlier(p) \cup {StageOrder[p]}
  BY <1>1 DEF Earlier
<1>3. StageOrder[p + 1] \notin Earlier(p + 1)
  BY StagesDistinct DEF Earlier
<1> QED BY <1>2, <1>3

\* NextStage of a stage that is not the last.
LEMMA NextStageIs ==
    ASSUME NEW s \in Stages, s # "completed"
    PROVE  /\ Position(s) \in 1..7
           /\ NextStage(s) = StageOrder[Position(s) + 1]
           /\ NextStage(s) \in Stages
           /\ Position(NextStage(s)) = Position(s) + 1
<1>1. Position(s) \in 1..8 /\ StageOrder[Position(s)] = s
  BY PositionRange
<1>2. StageOrder[8] = "completed"
  BY DEF StageOrder
<1>3. Position(s) \in 1..7
  BY <1>1, <1>2
<1>4. NextStage(s) = StageOrder[Position(s) + 1]
  BY <1>3 DEF NextStage
<1> QED BY <1>3, <1>4, PositionOfNth DEF Stages

-----------------------------------------------------------------------------
(* The invariant.                                                          *)

InOrder(m) == Earlier(Position(m.stage)) = m.done \ {m.stage}

\* A session, or a copy of one, that may be written at any time.
SoundState(m) ==
    /\ m \in Session
    /\ m.status = "completed" <=> m.stage = "completed"
    /\ m.status = "completed" =>
         m.repo /\ m.services # {} /\ m.services \subseteq m.dfds
    /\ InOrder(m)

\* What it records is among the stored entities.
Backed(m, e) ==
    /\ m.repo => e.repo
    /\ m.services \subseteq e.services
    /\ m.features \subseteq e.features
    /\ m.dfds \subseteq e.dfds

Holding == {"validate", "persist", "save"}

\* Without overlap, what a call holds is the session it is about, as it is
\* stored or further on.
UpToDate(c) ==
    at[c] \in Holding =>
        IF at[c] = "save"
        THEN Position(sessions[id[c]].stage) <= Position(copy[c].stage)
        ELSE copy[c] = sessions[id[c]]

SoundCall(c) ==
    /\ SoundState(copy[c]) /\ Backed(copy[c], entities)
    /\ at[c] \in Holding => id[c] \in DOMAIN sessions
    /\ at[c] = "persist" => sent[c].stage = copy[c].stage

Alone ==
    /\ \A c, d \in Calls : at[c] # "idle" /\ at[d] # "idle" => c = d
    /\ \A c \in Calls : UpToDate(c)

IInv ==
    /\ TypeOK
    /\ \A i \in DOMAIN sessions :
          SoundState(sessions[i]) /\ Backed(sessions[i], entities)
    /\ \A c \in Calls : SoundCall(c)
    /\ ~overlap => Alone

-----------------------------------------------------------------------------
(* The functions on a session.                                             *)

LEMMA NewSessionSound == SoundState(NewSession) /\ \A e : Backed(NewSession, e)
<1>1. NewSession \in Session /\ Position("repository_inventory") = 1
  BY Names DEF NewSession, Session
<1>2. Earlier(1) = {}
  BY DEF Earlier
<1> QED BY <1>1, <1>2 DEF SoundState, Backed, InOrder, NewSession

Entities == [repo: BOOLEAN, services: SUBSET Services, features: SUBSET Features,
             dfds: SUBSET Services, models: SUBSET Features]

\* What a stage records does not move the session, and is stored.
LEMMA RecordedKeeps ==
    ASSUME NEW m \in Session, NEW s \in Submission
    PROVE  /\ Recorded(m, s) \in Session
           /\ Recorded(m, s).stage = m.stage
           /\ Recorded(m, s).status = m.status
           /\ Recorded(m, s).done = m.done
<1>1. ModelledServices(m, s) \in SUBSET Services /\ ModelledFeatures(m, s) \in SUBSET Features
  BY DEF ModelledServices, ModelledFeatures, Session, Submission
<1> QED BY <1>1 DEF Recorded, Session, Submission

LEMMA RecordedIsStored ==
    ASSUME NEW m \in Session, NEW s \in Submission, NEW e \in Entities, Backed(m, e)
    PROVE  Backed(Recorded(m, s), Stored(e, m, s))
BY DEF Backed, Recorded, Stored, Session, Submission, Entities, ModelledServices

\* A stage stores more and takes nothing away that a session records.
LEMMA StoredGrows ==
    ASSUME NEW m \in Session, NEW s \in Submission, NEW e \in Entities
    PROVE  /\ Stored(e, m, s) \in Entities
           /\ \A n : Backed(n, e) => Backed(n, Stored(e, m, s))
<1>1. ModelledServices(m, s) \in SUBSET Services /\ ModelledFeatures(m, s) \in SUBSET Features
  BY DEF ModelledServices, ModelledFeatures, Session, Submission
<1>2. Stored(e, m, s) \in Entities
  BY <1>1 DEF Stored, Session, Submission, Entities
<1>3. /\ e.repo => Stored(e, m, s).repo
      /\ e.services \subseteq Stored(e, m, s).services
      /\ e.features \subseteq Stored(e, m, s).features
      /\ e.dfds \subseteq Stored(e, m, s).dfds
  BY <1>1 DEF Stored, Session, Submission, Entities
<1> QED BY <1>2, <1>3 DEF Backed

\* Moving on from a stage that is not the last one: the stages stay in order,
\* and the session completes only past the completeness check.
LEMMA AdvanceSound ==
    ASSUME NEW m \in Session, m.stage # "completed", m.status # "completed", InOrder(m)
    PROVE  /\ SoundState(Advance(m))
           /\ Position(m.stage) <= Position(Advance(m).stage)
           /\ \A e : Backed(m, e) => Backed(Advance(m), e)
<1> DEFINE p == Position(m.stage)
           n == [m EXCEPT !.done = @ \cup {m.stage}]
<1>0. m.stage \in Stages /\ m.status = "running"
  BY DEF Session
<1>1. p \in 1..7 /\ StageOrder[p] = m.stage
  BY <1>0, PositionRange, NextStageIs
<1>2. n.done = Earlier(p + 1) /\ n.done = Earlier(p) \cup {m.stage}
  BY <1>1, EarlierNext DEF InOrder, Session
<1>3. n \in Session /\ n.stage = m.stage /\ n.status = "running"
  BY <1>0 DEF Session
<1>4. CASE m.stage # "completeness_check"
  <2>1. Advance(m) = [n EXCEPT !.stage = NextStage(m.stage)]
    BY <1>3, <1>4 DEF Advance
  <2>2. NextStage(m.stage) = StageOrder[p + 1] /\ NextStage(m.stage) \in Stages
        /\ Position(NextStage(m.stage)) = p + 1
    BY <1>0, NextStageIs
  <2>3. NextStage(m.stage) # "completed"
    BY <1>0, <1>1, <1>4, <2>2, Names DEF StageOrder
  <2>4. InOrder(Advance(m))
    BY <1>1, <1>2, <1>3, <2>1, <2>2, EarlierNext DEF InOrder, Session
  <2>5. /\ Advance(m) \in Session /\ Advance(m).stage = NextStage(m.stage)
        /\ Advance(m).status = "running" /\ Advance(m).repo = m.repo
        /\ Advance(m).services = m.services /\ Advance(m).features = m.features
        /\ Advance(m).dfds = m.dfds
    BY <1>3, <2>1, <2>2 DEF Session
  <2>6. SoundState(Advance(m))
    BY <2>3, <2>4, <2>5 DEF SoundState
  <2> QED BY <1>1, <2>2, <2>5, <2>6 DEF Backed
<1>5. CASE m.stage = "completeness_check"
  <2>1. "threat_model_creation" \in n.done
    <3>1. StageOrder[5] = "threat_model_creation" /\ p = 7
      BY <1>5, Names DEF StageOrder
    <3> QED BY <1>2, <3>1 DEF Earlier
  <2>2. CASE MeetsMinimumBar(n)
    <3> DEFINE r == [n EXCEPT !.stage = "completed", !.status = "completed",
                              !.done = @ \cup {"completed"}]
    <3>1. Advance(m) = r
      BY <1>5, <2>2 DEF Advance
    <3>2. r \in Session /\ r.repo = n.repo /\ r.services = n.services /\ r.dfds = n.dfds
          /\ r.stage = "completed" /\ r.status = "completed" /\ r.done = n.done \cup {"completed"}
      BY <1>3, Names DEF Session
    <3>3. r.repo /\ r.services # {} /\ r.services \subseteq r.dfds
      BY <2>1, <2>2, <3>2 DEF MeetsMinimumBar
    <3>4. Earlier(8) = n.done /\ "completed" \notin n.done
      BY <1>2, <1>5, Names, EarlierNext DEF StageOrder
    <3>5. InOrder(r)
      BY <3>2, <3>4, Names DEF InOrder
    <3> QED BY <1>1, <1>3, <3>1, <3>2, <3>3, <3>5, Names DEF SoundState, Backed, Session
  <2>3. CASE ~MeetsMinimumBar(n)
    <3>1. Advance(m) = n
      BY <1>5, <2>3 DEF Advance
    <3>2. InOrder(n)
      BY <1>2, <1>3 DEF InOrder, Session
    <3> QED BY <1>1, <1>3, <1>5, <3>1, <3>2 DEF SoundState, Backed, Session
  <2> QED BY <2>2, <2>3
<1> QED BY <1>4, <1>5

-----------------------------------------------------------------------------
(* What a step leaves alone stays sound.                                   *)

SessionsSound ==
    \A i \in DOMAIN sessions : SoundState(sessions[i]) /\ Backed(sessions[i], entities)

LEMMA OtherCall ==
    ASSUME NEW d \in Calls, SoundCall(d),
           at'[d] = at[d], id'[d] = id[d], copy'[d] = copy[d], sent'[d] = sent[d],
           DOMAIN sessions \subseteq DOMAIN sessions',
           \A n : Backed(n, entities) => Backed(n, entities')
    PROVE  SoundCall(d)'
BY DEF SoundCall, Holding, SoundState, Backed, InOrder

\* Alone, a call that is in flight is the only one.
LEMMA AloneFor ==
    ASSUME NEW c \in Calls, \A d \in Calls \ {c} : at'[d] = "idle", UpToDate(c)'
    PROVE  Alone'
BY DEF Alone, UpToDate, Holding

LEMMA OthersIdle ==
    ASSUME Alone, NEW c \in Calls, at[c] # "idle"
    PROVE  \A d \in Calls \ {c} : at[d] = "idle"
BY DEF Alone

LEMMA NoSubmissionType == NoSubmission \in Submission
<1>1. "repository_inventory" \in Stages \ {"completed"}
  BY Names
<1> QED BY <1>1 DEF NoSubmission, Submission

LEMMA InitIInv == Init => IInv
<1> SUFFICES ASSUME Init PROVE IInv
  OBVIOUS
<1>1. TypeOK
  <2>1. sessions \in Seq(Session) /\ Len(sessions) = 0
    BY DEF Init
  <2>2. copy \in [Calls -> Session] /\ sent \in [Calls -> Submission]
    BY NewSessionSound, NoSubmissionType DEF Init, SoundState
  <2>3. id \in [Calls -> 0..Len(sessions)]
    <3>1. 0 \in 0..Len(sessions)
      BY <2>1
    <3> QED BY <3>1 DEF Init
  <2>4. entities \in [repo: BOOLEAN, services: SUBSET Services,
                     features: SUBSET Features, dfds: SUBSET Services,
                     models: SUBSET Features]
    BY DEF Init
  <2>5. /\ at \in [Calls -> {"idle", "create", "validate", "persist", "save"}]
        /\ overlap \in BOOLEAN
    BY DEF Init
  <2> QED BY <2>1, <2>2, <2>3, <2>4, <2>5 DEF TypeOK
<1>2. \A c \in Calls : SoundCall(c)
  BY NewSessionSound DEF Init, SoundCall, Holding
<1>3. Alone
  BY DEF Init, Alone, UpToDate, Holding
<1>4. \A i \in DOMAIN sessions : SoundState(sessions[i]) /\ Backed(sessions[i], entities)
  BY DEF Init
<1> QED BY <1>1, <1>2, <1>3, <1>4 DEF IInv

-----------------------------------------------------------------------------
(* Each action preserves the invariant.                                    *)

\* A call begins: its copy, if it has one, is a stored session.
Begins(c, s) ==
    /\ at[c] = "idle"
    /\ sent' = [sent EXCEPT ![c] = s]
    /\ UNCHANGED <<sessions, entities>>
    /\ overlap' \/ overlap' = (overlap \/ ~Quiet)
    /\ \/ \E i \in DOMAIN sessions : Use(c, i)
       \/ at' = [at EXCEPT ![c] = "create"] /\ UNCHANGED <<id, copy>>

LEMMA BeginsIs ==
    ASSUME IInv, NEW c \in Calls, NEW s \in Submission,
           (\E i \in DOMAIN sessions : Resume(c, i, s)) \/ Find(c, s) \/ ForceNew(c, s)
    PROVE  Begins(c, s) /\ overlap' \in BOOLEAN
BY DEF IInv, TypeOK, Begins, Resume, Find, ForceNew, Want, Newest, Running

LEMMA BeginsIInv ==
    ASSUME IInv, NEW c \in Calls, NEW s \in Submission, Begins(c, s), overlap' \in BOOLEAN
    PROVE  IInv'
<1>0. TypeOK /\ SessionsSound /\ \A d \in Calls : SoundCall(d)
  BY DEF IInv, SessionsSound
<1>1. at'[c] \in {"create", "validate"}
  BY <1>0 DEF Begins, Use, TypeOK
<1>2. /\ SoundState(copy'[c]) /\ Backed(copy'[c], entities)
      /\ at'[c] = "validate" => id'[c] \in DOMAIN sessions /\ copy'[c] = sessions[id'[c]]
  BY <1>0 DEF Begins, Use, TypeOK, SessionsSound, SoundCall
<1>3. TypeOK'
  <2>1. Session' = Session
    BY DEF Session
  <2>2. copy' \in [Calls -> Session]
    BY <1>0, <1>2 DEF Begins, Use, TypeOK, SoundState
  <2>3. id' \in [Calls -> 0..Len(sessions)]
    BY <1>0 DEF Begins, Use, TypeOK
  <2> QED BY <1>0, <2>2, <2>3 DEF Begins, Use, TypeOK
<1>4. SoundCall(c)'
  BY <1>1, <1>2 DEF SoundCall, Holding, Begins, SoundState, InOrder, Backed
<1>5. ASSUME NEW d \in Calls, d # c PROVE SoundCall(d)'
  <2>1. at'[d] = at[d] /\ id'[d] = id[d] /\ copy'[d] = copy[d] /\ sent'[d] = sent[d]
    BY <1>0, <1>5 DEF Begins, Use, TypeOK
  <2> QED BY <1>0, <2>1, OtherCall DEF Begins
<1>6. SessionsSound'
  BY <1>0 DEF Begins, SessionsSound, SoundState, InOrder, Backed
<1>7. ASSUME ~overlap' PROVE Alone'
  <2>1. Quiet
    BY <1>7 DEF Begins
  <2>2. \A d \in Calls \ {c} : at'[d] = "idle"
    BY <1>0, <2>1 DEF Quiet, Begins, Use, TypeOK
  <2>3. UpToDate(c)'
    BY <1>1, <1>2 DEF UpToDate, Holding, Begins
  <2> QED BY <2>2, <2>3, AloneFor
<1> QED BY <1>3, <1>4, <1>5, <1>6, <1>7 DEF IInv, SessionsSound

LEMMA CreateNewRunIInv ==
    ASSUME IInv, NEW c \in Calls, CreateNewRun(c)
    PROVE  IInv'
<1> USE DEF CreateNewRun
<1>0. TypeOK /\ SessionsSound /\ \A d \in Calls : SoundCall(d)
  BY DEF IInv, SessionsSound
<1>1. NewSession \in Session
  BY NewSessionSound DEF SoundState
<1>2. /\ sessions' \in Seq(Session) /\ Len(sessions') = Len(sessions) + 1
      /\ DOMAIN sessions \subseteq DOMAIN sessions'
      /\ \A i \in DOMAIN sessions : sessions'[i] = sessions[i]
      /\ sessions'[Len(sessions) + 1] = NewSession
      /\ DOMAIN sessions' = DOMAIN sessions \cup {Len(sessions) + 1}
  BY <1>0, <1>1 DEF TypeOK
<1>3. /\ at'[c] = "validate" /\ id'[c] = Len(sessions) + 1 /\ copy'[c] = NewSession
      /\ sent'[c] = sent[c]
  BY <1>0 DEF TypeOK
<1>4. TypeOK'
  BY <1>0, <1>1, <1>2 DEF TypeOK
<1>5. SoundCall(c)'
  BY <1>2, <1>3, NewSessionSound DEF SoundCall, Holding, SoundState, InOrder, Backed
<1>6. ASSUME NEW d \in Calls, d # c PROVE SoundCall(d)'
  <2>1. at'[d] = at[d] /\ id'[d] = id[d] /\ copy'[d] = copy[d] /\ sent'[d] = sent[d]
    BY <1>0, <1>6 DEF TypeOK
  <2> QED BY <1>0, <1>2, <2>1, OtherCall
<1>7. SessionsSound'
  BY <1>0, <1>2, NewSessionSound DEF SessionsSound, SoundState, InOrder, Backed
<1>8. ASSUME ~overlap' PROVE Alone'
  <2>1. Alone /\ at[c] # "idle"
    BY <1>8 DEF IInv
  <2>2. \A d \in Calls \ {c} : at'[d] = "idle"
    BY <1>0, <2>1, OthersIdle DEF TypeOK
  <2>3. UpToDate(c)'
    BY <1>2, <1>3 DEF UpToDate, Holding
  <2> QED BY <2>2, <2>3, AloneFor
<1> QED BY <1>4, <1>5, <1>6, <1>7, <1>8 DEF IInv, SessionsSound

\* A call ends, with what it stored and without writing its copy.
LEMMA LeavesIInv ==
    ASSUME IInv, NEW c \in Calls, at[c] # "idle", Done(c), entities' \in Entities,
           \A n : Backed(n, entities) => Backed(n, entities'),
           UNCHANGED <<sessions, overlap>>
    PROVE  IInv'
<1> USE DEF Done
<1>0. TypeOK /\ SessionsSound /\ \A d \in Calls : SoundCall(d)
  BY DEF IInv, SessionsSound
<1>1. at'[c] = "idle" /\ copy'[c] = NewSession
  BY <1>0 DEF TypeOK
<1>2. TypeOK'
  BY <1>0, NewSessionSound, NoSubmissionType DEF TypeOK, Entities, SoundState
<1>3. SoundCall(c)'
  BY <1>1, NewSessionSound DEF SoundCall, Holding, SoundState, InOrder, Backed
<1>4. ASSUME NEW d \in Calls, d # c PROVE SoundCall(d)'
  <2>1. at'[d] = at[d] /\ id'[d] = id[d] /\ copy'[d] = copy[d] /\ sent'[d] = sent[d]
    BY <1>0, <1>4 DEF TypeOK
  <2> QED BY <1>0, <2>1, OtherCall
<1>5. SessionsSound'
  BY <1>0 DEF SessionsSound, SoundState, InOrder, Backed
<1>6. ASSUME ~overlap' PROVE Alone'
  <2>1. \A d \in Calls \ {c} : at'[d] = "idle"
    BY <1>0, <1>6, OthersIdle DEF TypeOK, IInv
  <2>2. UpToDate(c)'
    BY <1>1 DEF UpToDate, Holding
  <2> QED BY <2>1, <2>2, AloneFor
<1> QED BY <1>2, <1>3, <1>4, <1>5, <1>6 DEF IInv, SessionsSound

LEMMA ValidateIInv ==
    ASSUME IInv, NEW c \in Calls, Validate(c)
    PROVE  IInv'
<1> USE DEF Validate
<1>0. TypeOK /\ SessionsSound /\ \A d \in Calls : SoundCall(d)
  BY DEF IInv, SessionsSound
<1>1. /\ at'[c] \in {"persist", "save"}
      /\ at'[c] = "persist" => sent[c].stage = copy[c].stage
  BY <1>0 DEF TypeOK, Valid
<1>2. TypeOK'
  BY <1>0 DEF TypeOK
<1>3. SoundCall(c)'
  BY <1>0, <1>1 DEF SoundCall, Holding, SoundState, InOrder, Backed
<1>4. ASSUME NEW d \in Calls, d # c PROVE SoundCall(d)'
  <2>1. at'[d] = at[d] /\ id'[d] = id[d] /\ copy'[d] = copy[d] /\ sent'[d] = sent[d]
    BY <1>0, <1>4 DEF TypeOK
  <2> QED BY <1>0, <2>1, OtherCall
<1>5. SessionsSound'
  BY <1>0 DEF SessionsSound, SoundState, InOrder, Backed
<1>6. ASSUME ~overlap' PROVE Alone'
  <2>0. Alone
    BY <1>6 DEF IInv
  <2>1. \A d \in Calls \ {c} : at'[d] = "idle"
    BY <1>0, <2>0, OthersIdle DEF TypeOK
  <2>2. copy[c] = sessions[id[c]]
    BY <2>0 DEF Alone, UpToDate, Holding
  <2>3. Position(copy[c].stage) \in 1..8
    BY <1>0, PositionRange DEF TypeOK, Session
  <2>4. UpToDate(c)'
    BY <1>1, <2>2, <2>3 DEF UpToDate, Holding
  <2> QED BY <2>1, <2>4, AloneFor
<1> QED BY <1>2, <1>3, <1>4, <1>5, <1>6 DEF IInv, SessionsSound

LEMMA PersistIInv ==
    ASSUME IInv, NEW c \in Calls, Persist(c)
    PROVE  IInv'
<1> USE DEF Persist
<1> DEFINE m == copy[c]
           s == sent[c]
<1>0. TypeOK /\ SessionsSound /\ \A d \in Calls : SoundCall(d)
  BY DEF IInv, SessionsSound
<1>1. /\ m \in Session /\ s \in Submission /\ entities \in Entities
      /\ SoundState(m) /\ Backed(m, entities) /\ s.stage = m.stage
      /\ id[c] \in DOMAIN sessions
  BY <1>0 DEF TypeOK, Entities, SoundCall, Holding
<1>2. m.stage # "completed" /\ m.status # "completed" /\ InOrder(m)
  BY <1>1 DEF SoundState, Submission
<1> DEFINE r == Recorded(m, s)
<1>3. /\ r \in Session /\ r.stage = m.stage /\ r.status = m.status /\ r.done = m.done
      /\ Backed(r, entities')
  BY <1>1, RecordedKeeps, RecordedIsStored
<1>4. r.stage # "completed" /\ r.status # "completed" /\ InOrder(r)
  BY <1>2, <1>3 DEF InOrder
<1>5. /\ SoundState(Advance(r)) /\ Backed(Advance(r), entities')
      /\ Position(m.stage) <= Position(Advance(r).stage)
  <2> HIDE DEF r
  <2> QED BY <1>3, <1>4, AdvanceSound
<1>6. entities' \in Entities /\ \A n : Backed(n, entities) => Backed(n, entities')
  BY <1>1, StoredGrows
<1>7. at'[c] = "save" /\ copy'[c] = Advance(r) /\ id'[c] = id[c]
  BY <1>0 DEF TypeOK
<1>8. TypeOK'
  <2>1. copy' \in [Calls -> Session]
    BY <1>0, <1>5 DEF TypeOK, SoundState
  <2> QED BY <1>0, <1>6, <2>1 DEF TypeOK, Entities
<1>9. SoundCall(c)'
  BY <1>1, <1>5, <1>7 DEF SoundCall, Holding, SoundState, InOrder, Backed
<1>10. ASSUME NEW d \in Calls, d # c PROVE SoundCall(d)'
  <2>1. at'[d] = at[d] /\ id'[d] = id[d] /\ copy'[d] = copy[d] /\ sent'[d] = sent[d]
    BY <1>0, <1>10 DEF TypeOK
  <2> QED BY <1>0, <1>6, <2>1, OtherCall
<1>11. SessionsSound'
  BY <1>0, <1>6 DEF SessionsSound, SoundState, InOrder, Backed
<1>12. ASSUME ~overlap' PROVE Alone'
  <2>0. Alone
    BY <1>12 DEF IInv
  <2>1. \A d \in Calls \ {c} : at'[d] = "idle"
    BY <1>0, <2>0, OthersIdle DEF TypeOK
  <2>2. copy[c] = sessions[id[c]]
    BY <2>0 DEF Alone, UpToDate, Holding
  <2>3. UpToDate(c)'
    BY <1>5, <1>7, <2>2 DEF UpToDate, Holding
  <2> QED BY <2>1, <2>3, AloneFor
<1> QED BY <1>8, <1>9, <1>10, <1>11, <1>12 DEF IInv, SessionsSound

LEMMA PersistFailsIInv ==
    ASSUME IInv, NEW c \in Calls, PersistFails(c)
    PROVE  IInv'
<1>0. TypeOK
  BY DEF IInv
<1>1. PICK S \in SUBSET sent[c].services, F \in SUBSET sent[c].features :
         entities' = Stored(entities, copy[c],
                            [sent[c] EXCEPT !.services = S, !.features = F])
  BY DEF PersistFails
<1>2. [sent[c] EXCEPT !.services = S, !.features = F] \in Submission
  <2>1. sent[c] \in Submission
    BY <1>0 DEF TypeOK
  <2>2. S \in SUBSET Services /\ F \in SUBSET Features
    BY <2>1 DEF Submission
  <2> QED BY <2>1, <2>2 DEF Submission
<1>3. copy[c] \in Session /\ entities \in Entities
  BY <1>0 DEF TypeOK, Entities
<1>4. entities' \in Entities /\ \A n : Backed(n, entities) => Backed(n, entities')
  BY <1>1, <1>2, <1>3, StoredGrows
<1>5. at[c] # "idle" /\ Done(c) /\ UNCHANGED <<sessions, overlap>>
  BY DEF PersistFails
<1> QED BY <1>4, <1>5, LeavesIInv

LEMMA SaveMetaIInv ==
    ASSUME IInv, NEW c \in Calls, SaveMeta(c)
    PROVE  IInv'
<1> USE DEF SaveMeta, Done
<1>0. TypeOK /\ SessionsSound /\ \A d \in Calls : SoundCall(d)
  BY DEF IInv, SessionsSound
<1>1. SoundState(copy[c]) /\ Backed(copy[c], entities) /\ id[c] \in DOMAIN sessions
  BY <1>0 DEF SoundCall, Holding
<1>2. /\ sessions' \in Seq(Session) /\ Len(sessions') = Len(sessions)
      /\ DOMAIN sessions' = DOMAIN sessions
      /\ sessions'[id[c]] = copy[c]
      /\ \A i \in DOMAIN sessions : i # id[c] => sessions'[i] = sessions[i]
  BY <1>0, <1>1 DEF TypeOK, SoundState
<1>3. at'[c] = "idle" /\ copy'[c] = NewSession
  BY <1>0 DEF TypeOK
<1>4. TypeOK'
  BY <1>0, <1>2, NewSessionSound, NoSubmissionType DEF TypeOK, SoundState
<1>5. SoundCall(c)'
  BY <1>3, NewSessionSound DEF SoundCall, Holding, SoundState, InOrder, Backed
<1>6. ASSUME NEW d \in Calls, d # c PROVE SoundCall(d)'
  <2>1. at'[d] = at[d] /\ id'[d] = id[d] /\ copy'[d] = copy[d] /\ sent'[d] = sent[d]
    BY <1>0, <1>6 DEF TypeOK
  <2> QED BY <1>0, <1>2, <2>1, OtherCall
<1>7. SessionsSound'
  <2>1. ASSUME NEW i \in DOMAIN sessions
        PROVE  SoundState(sessions'[i]) /\ Backed(sessions'[i], entities)
    BY <1>0, <1>1, <1>2 DEF SessionsSound
  <2> QED BY <1>2, <2>1 DEF SessionsSound, SoundState, InOrder, Backed
<1>8. ASSUME ~overlap' PROVE Alone'
  <2>1. \A d \in Calls \ {c} : at'[d] = "idle"
    BY <1>0, <1>8, OthersIdle DEF TypeOK, IInv
  <2>2. UpToDate(c)'
    BY <1>3 DEF UpToDate, Holding
  <2> QED BY <2>1, <2>2, AloneFor
<1> QED BY <1>4, <1>5, <1>6, <1>7, <1>8 DEF IInv, SessionsSound

LEMMA NextIInv == IInv /\ [Next]_vars => IInv'
<1> SUFFICES ASSUME IInv, [Next]_vars PROVE IInv'
  OBVIOUS
<1>1. ASSUME NEW c \in Calls, NEW s \in Payloads,
             (\E i \in DOMAIN sessions : Resume(c, i, s)) \/ Find(c, s) \/ ForceNew(c, s)
      PROVE  IInv'
  <2>1. s \in Submission
    BY DEF Payloads
  <2> QED BY <1>1, <2>1, BeginsIs, BeginsIInv
<1>2. ASSUME NEW c \in Calls, Ask(c) \/ Abort(c)
      PROVE  IInv'
  <2>1. entities' \in Entities /\ \A n : Backed(n, entities) => Backed(n, entities')
    BY <1>2 DEF Ask, Abort, IInv, TypeOK, Entities
  <2> QED BY <1>2, <2>1, LeavesIInv DEF Ask, Abort
<1>3. CASE UNCHANGED vars
  <2>1. ASSUME NEW d \in Calls PROVE SoundCall(d)'
    BY <1>3, OtherCall DEF IInv, vars
  <2>2. TypeOK'
    BY <1>3 DEF IInv, TypeOK, vars
  <2>3. SessionsSound'
    BY <1>3 DEF IInv, vars, SessionsSound, SoundState, InOrder, Backed
  <2>4. ~overlap' => Alone'
    BY <1>3 DEF IInv, vars, Alone, UpToDate
  <2> QED BY <2>1, <2>2, <2>3, <2>4 DEF IInv, SessionsSound
<1> QED
  BY <1>1, <1>2, <1>3, CreateNewRunIInv, ValidateIInv, PersistIInv, PersistFailsIInv,
     SaveMetaIInv DEF Next, Request, Step

LEMMA Inductive == Spec => []IInv
BY InitIInv, NextIInv, PTL DEF Spec

-----------------------------------------------------------------------------
(* The theorems.                                                           *)

\* The sessions, copies and entities keep their types (TypeOK).
THEOREM TypeCorrect == Spec => []TypeOK
<1>1. IInv => TypeOK
  BY DEF IInv
<1> QED BY <1>1, Inductive, PTL

\* Whatever stale copies calls write back, a session shows as completed exactly
\* when it passed the completeness check with what it records (saveMeta).
THEOREM CompletedSessionsMeetTheBar == Spec => []CompletedMeetsBar
<1>1. IInv => CompletedMeetsBar
  BY DEF IInv, CompletedMeetsBar, SoundState
<1> QED BY <1>1, Inductive, PTL

\* Whatever is persisted according to a session, or to a copy that may yet be
\* saved, is stored, also when a write fails half way (persistStage).
THEOREM RecordedEntitiesAreStored == Spec => []RecordedEntitiesExist
<1>1. IInv => RecordedEntitiesExist
  BY DEF IInv, SoundCall, Backed, RecordedEntitiesExist
<1> QED BY <1>1, Inductive, PTL

\* No session skips a stage or claims one it has not reached (processSubmission).
THEOREM StagesInOrder == Spec => []DoneIsPrefix
<1>1. IInv => DoneIsPrefix
  BY DEF IInv, SoundState, InOrder, Earlier, DoneIsPrefix
<1> QED BY <1>1, Inductive, PTL

\* As long as calls do not overlap, no session goes back to an earlier stage,
\* whatever is repeated, refused, cut off or fails (saveMeta).
THEOREM NeverBackAlone == Spec => NeverBack
<1> DEFINE Forward == \A i \in DOMAIN sessions :
                         Position(sessions[i].stage) <= Position(sessions'[i].stage)
<1>1. ASSUME IInv, [Next]_vars, ~overlap' PROVE Forward
  <2>0. /\ sessions \in Seq(Session)
        /\ \A i \in DOMAIN sessions : Position(sessions[i].stage) \in 1..8
    <3>1. sessions \in Seq(Session)
      BY <1>1 DEF IInv, TypeOK
    <3>2. ASSUME NEW i \in DOMAIN sessions PROVE sessions[i].stage \in Stages
      <4>1. sessions[i] \in Session
        BY <3>1, <3>2
      <4> QED BY <4>1 DEF Session
    <3> QED BY <3>1, <3>2, PositionRange
  <2>1. CASE UNCHANGED sessions
    BY <2>0, <2>1
  <2>2. ASSUME NEW c \in Calls, CreateNewRun(c) PROVE Forward
    <3>1. \A i \in DOMAIN sessions : sessions'[i] = sessions[i]
      BY <2>0, <2>2 DEF CreateNewRun
    <3> QED BY <2>0, <3>1
  <2>3. ASSUME NEW c \in Calls, SaveMeta(c) PROVE Forward
    <3>1. Alone
      BY <1>1, <2>3 DEF IInv, SaveMeta
    <3>2. Position(sessions[id[c]].stage) <= Position(copy[c].stage)
      BY <2>3, <3>1 DEF Alone, UpToDate, Holding, SaveMeta
    <3>3. \A i \in DOMAIN sessions :
             sessions'[i] = IF i = id[c] THEN copy[c] ELSE sessions[i]
      BY <2>0, <2>3 DEF SaveMeta
    <3> QED BY <2>0, <3>2, <3>3
  <2> QED
    BY <1>1, <2>1, <2>2, <2>3
       DEF Next, Request, Step, Resume, Find, ForceNew, Ask, Abort, Validate,
           Persist, PersistFails, vars
<1>2. IInv /\ [Next]_vars => [~overlap' => Forward]_vars
  BY <1>1
<1> QED BY <1>2, Inductive, PTL DEF Spec, NeverBack

=============================================================================
