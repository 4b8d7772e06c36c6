--------------------------- MODULE PolicyTemplates --------------------------
(***************************************************************************)
(* A tenant's policy templates: PolicyService and its repository, the page *)
(* that lists them (PoliciesPage) and the editors people have open         *)
(* (PolicyEditorPage).  Every listing first creates the templates that are *)
(* missing.  A request is a chain of queries, other requests go on between *)
(* them, and its reply meets an editor that may have changed meanwhile.    *)
(*                                                                         *)
(* Of a template the questions are kept and which of them have task rules; *)
(* the baseline tasks, the name and the Jira settings are saved with them. *)
(***************************************************************************)
EXTENDS Integers, Sequences, SequencesExt

CONSTANTS Types,          \* types of policies, in the order they are seeded
          Factory,        \* questions of the factory defaults, all with rules
          QuestionIds,      \* ids of questions, of the defaults and new ones
          Editors,        \* browsers with an editor open, or not
          Slots,          \* requests the server works on at one time, a bound
          MaxRequests     \* requests ever made, a bound

NoEditor == "no editor"

ASSUME PolicyTemplatesAssumption ==
    /\ Types \in Seq(STRING) /\ IsInjective(Types)
    /\ Factory \subseteq QuestionIds
    /\ NoEditor \notin Editors
    /\ MaxRequests \in Nat

VARIABLES rows,       \* policy_templates, oldest first; a row's id is its index
          overview,   \* the template each card of the overview leads to
          editors,
          calls,      \* the requests in progress
          requests,   \* requests made so far
          overlapped, \* history: a seeding began during another one
          listed      \* history: a listing ended well

policyVars == <<rows, overview, editors, calls, requests, overlapped, listed>>

Content == [questions : SUBSET QuestionIds, rules : SUBSET QuestionIds]

Defaults == [questions |-> Factory, rules |-> Factory]

TypeSet == Range(Types)

Ids == 1..Len(rows)

Template == [type : TypeSet, active : BOOLEAN, version : Nat \ {0}, content : Content]

Editor == [id : Nat, content : Content, active : BOOLEAN, dirty : BOOLEAN,
           saving : BOOLEAN]

Closed == [id |-> 0, content |-> Defaults, active |-> FALSE, dirty |-> FALSE,
           saving |-> FALSE]

\* A request carries what it asks to store, later what it replies with.
NoRequest == [kind |-> "none", at |-> "idle", who |-> NoEditor, id |-> 0, type |-> "none",
              content |-> Defaults, active |-> FALSE, version |-> 0,
              missing |-> {}, found |-> <<>>]

PolicyTypeOK ==
    /\ rows \in Seq(Template)
    /\ overview \in [TypeSet -> 0..Len(rows)]
    /\ editors \in [Editors -> Editor]
    /\ \A e \in Editors : editors[e].id \in 0..Len(rows)
    /\ \A s \in Slots :
          /\ calls[s].kind \in {"none", "list", "update", "reset"}
          /\ calls[s].at \in {"idle", "read", "active", "reread", "write",
                              "seed", "create", "all", "reply", "failed"}
    /\ requests \in 0..MaxRequests

PolicyInit ==
    /\ rows = <<>>
    /\ overview = [t \in TypeSet |-> 0]
    /\ editors = [e \in Editors |-> Closed]
    /\ calls = [s \in Slots |-> NoRequest]
    /\ requests = 0
    /\ overlapped = FALSE /\ listed = FALSE

-----------------------------------------------------------------------------
(* What the pages ask for.                                                 *)

Request(s, call) ==
    /\ calls[s] = NoRequest /\ requests < MaxRequests
    /\ calls' = [calls EXCEPT ![s] = call]
    /\ requests' = requests + 1

\* The overview is opened.
ListPolicies(s) ==
    /\ Request(s, [NoRequest EXCEPT !.kind = "list", !.at = "seed"])
    /\ UNCHANGED <<rows, overview, editors, overlapped, listed>>

\* A card leads to the editor, which loads the template.
OpenEditor(e, t) ==
    /\ editors[e] = Closed /\ overview[t] # 0
    /\ LET row == rows[overview[t]] IN
          editors' = [editors EXCEPT ![e] =
                        [id |-> overview[t], content |-> row.content,
                         active |-> row.active, dirty |-> FALSE, saving |-> FALSE]]
    /\ UNCHANGED <<rows, overview, calls, requests, overlapped, listed>>

CloseEditor(e) ==
    /\ editors[e] # Closed
    /\ editors' = [editors EXCEPT ![e] = Closed]
    /\ calls' = [s \in Slots |-> IF calls[s].who = e
                                 THEN [calls[s] EXCEPT !.who = NoEditor] ELSE calls[s]]
    /\ UNCHANGED <<rows, overview, requests, overlapped, listed>>

\* A new question gets a fresh id.
Fresh(q) ==
    /\ \A i \in Ids : q \notin rows[i].content.questions
    /\ \A e \in Editors : q \notin editors[e].content.questions
    /\ \A s \in Slots : q \notin calls[s].content.questions

WithQuestion(c, q) == [c EXCEPT !.questions = @ \union {q}]

\* Mutation: the question goes, and its rules stay.
WithoutQuestionOnly(c, q) == [c EXCEPT !.questions = @ \ {q}]

WithoutQuestion(c, q) == [questions |-> c.questions \ {q}, rules |-> c.rules \ {q}]

WithTask(c, q) == [c EXCEPT !.rules = @ \union {q}]

\* The rule of a question goes with its last task.
WithoutTasks(c, q) == [c EXCEPT !.rules = @ \ {q}]

\* The changes an editor offers, to what it has at that moment: the wording and
\* the order of questions, baseline tasks, names and Jira settings are not seen.
Edits(c) ==
    {c} \union {WithQuestion(c, q) : q \in {q \in QuestionIds : Fresh(q)}}
       \union {WithoutQuestion(c, q) : q \in c.questions}
       \union {WithTask(c, q) : q \in c.questions \ c.rules}
       \union {WithoutTasks(c, q) : q \in c.rules}

\* Nothing keeps the user from editing while a request is under way.
Mutate(e) ==
    /\ editors[e] # Closed
    /\ \/ \E c \in Edits(editors[e].content) :
             editors' = [editors EXCEPT ![e].content = c, ![e].dirty = TRUE]
       \/ editors' = [editors EXCEPT ![e].active = ~@, ![e].dirty = TRUE]
    /\ UNCHANGED <<rows, overview, calls, requests, overlapped, listed>>

HandleSave(e, s) ==
    /\ editors[e] # Closed /\ editors[e].dirty /\ ~editors[e].saving
    /\ Request(s, [NoRequest EXCEPT !.kind = "update", !.at = "read", !.who = e,
                                 !.id = editors[e].id, !.active = editors[e].active,
                                 !.content = editors[e].content])
    /\ editors' = [editors EXCEPT ![e].saving = TRUE]
    /\ UNCHANGED <<rows, overview, overlapped, listed>>

\* The defaults are asked for by type, once the user has confirmed, also
\* while a save is under way.
HandleRestoreDefaults(e, s) ==
    /\ editors[e] # Closed
    /\ Request(s, [NoRequest EXCEPT !.kind = "reset", !.at = "active", !.who = e,
                                 !.type = rows[editors[e].id].type])
    /\ UNCHANGED <<rows, overview, editors, overlapped, listed>>

-----------------------------------------------------------------------------
(* The queries of the service.                                             *)

GoesTo(s, at) == calls' = [calls EXCEPT ![s].at = at]

NewestFirst == [k \in Ids |-> Len(rows) + 1 - k]

OfType(t) == {i \in Ids : rows[i].type = t}

ActiveOf(t) == {i \in OfType(t) : rows[i].active}

\* getActiveByType
Newest(S) == IF S = {} THEN 0 ELSE CHOOSE i \in S : \A j \in S : j <= i

\* Mutation: a type counts as there when it is active.
MissingActive == {t \in TypeSet : ActiveOf(t) = {}}

\* The types no template has.
Missing == {t \in TypeSet : OfType(t) = {}}

Lowest(S) == CHOOSE i \in S : \A j \in S : i <= j

FirstOf(types) == Types[Lowest({k \in DOMAIN Types : Types[k] \in types})]

AfterSeeding(s) == IF calls[s].kind = "list" THEN "reply" ELSE "all"

\* seedDefaultPolicies: what is there is read ...
ReadExisting(s) ==
    /\ calls[s].at = "seed"
    /\ calls' = [calls EXCEPT
                   ![s].missing = Missing,
                   ![s].found = IF Missing = {} THEN NewestFirst ELSE <<>>,
                   ![s].at = IF Missing = {} THEN AfterSeeding(s) ELSE "create"]
    /\ overlapped' = (overlapped \/ \E r \in Slots \ {s} : calls[r].at = "create")
    /\ UNCHANGED <<rows, overview, editors, requests, listed>>

\* ... and each missing one created; the new ones alone are returned.
Create(s) ==
    LET type == FirstOf(calls[s].missing)
        rest == calls[s].missing \ {type} IN
    /\ calls[s].at = "create"
    /\ rows' = Append(rows, [type |-> type, active |-> TRUE,
                             version |-> 1, content |-> Defaults])
    /\ calls' = [calls EXCEPT
                   ![s].missing = rest,
                   ![s].found = Append(@, Len(rows) + 1),
                   ![s].at = IF rest = {} THEN AfterSeeding(s) ELSE @]
    /\ UNCHANGED <<overview, editors, requests, overlapped, listed>>

\* updatePolicy reads the version ...
ReadVersion(s) ==
    /\ calls[s].kind = "update" /\ calls[s].at = "read"
    /\ calls' = [calls EXCEPT ![s].version = rows[calls[s].id].version + 1,
                              ![s].at = "reread"]
    /\ UNCHANGED <<rows, overview, editors, requests, overlapped, listed>>

\* ... resetToDefaults that of the active template, when there is one.
ReadActive(s) ==
    LET id == Newest(ActiveOf(calls[s].type)) IN
    /\ calls[s].kind = "reset" /\ calls[s].at = "active"
    /\ calls' = IF id = 0 THEN [calls EXCEPT ![s].at = "seed"]
                ELSE [calls EXCEPT ![s].id = id, ![s].at = "reread",
                                   ![s].version = rows[id].version + 1]
    /\ UNCHANGED <<rows, overview, editors, requests, overlapped, listed>>

\* A reset leaves the template active or not, as the second read found it.
Kept(call) == IF call.kind = "reset" THEN rows[call.id].active ELSE call.active

\* The repository reads the row again, and lays the changes over it.
ReadAgain(s) ==
    /\ calls[s].at = "reread"
    /\ calls' = [calls EXCEPT ![s].active = Kept(calls[s]), ![s].at = "write"]
    /\ UNCHANGED <<rows, overview, editors, requests, overlapped, listed>>

Write(s) ==
    LET call == calls[s] IN
    /\ call.at = "write"
    /\ rows' = [rows EXCEPT ![call.id] =
                   [@ EXCEPT !.active = call.active, !.version = call.version,
                             !.content = call.content]]
    /\ GoesTo(s, "reply")
    /\ UNCHANGED <<overview, editors, requests, overlapped, listed>>

\* Without an active template a reset returns what is there of the type.
ReadAll(s) ==
    LET id == Newest(OfType(calls[s].type)) IN
    /\ calls[s].at = "all"
    /\ calls' = [calls EXCEPT ![s].id = id, ![s].content = rows[id].content,
                              ![s].active = rows[id].active, ![s].at = "reply"]
    /\ UNCHANGED <<rows, overview, editors, requests, overlapped, listed>>

\* Any query may fail, which is the end of the request; and so may the reply.
QueryFails(s) ==
    /\ calls[s].at \notin {"idle", "failed"}
    /\ GoesTo(s, "failed")
    /\ UNCHANGED <<rows, overview, editors, requests, overlapped, listed>>

-----------------------------------------------------------------------------
(* The replies.                                                            *)

\* A card shows the first template of its type in the reply.
Shown(found, t) ==
    LET ofType == {k \in DOMAIN found : rows[found[k]].type = t} IN
    IF ofType = {} THEN 0 ELSE found[Lowest(ofType)]

ListReply(s) ==
    /\ calls[s].kind = "list" /\ calls[s].at = "reply"
    /\ overview' = [t \in TypeSet |-> Shown(calls[s].found, t)]
    /\ listed' = TRUE
    /\ calls' = [calls EXCEPT ![s] = NoRequest]
    /\ UNCHANGED <<rows, editors, requests, overlapped>>

\* The editor takes the template it gets for its own, whatever the user has
\* typed since; saving ends with the reply to a save, good or bad.
EditorReply(s) ==
    LET call == calls[s]
        e == call.who IN
    /\ call.kind \in {"update", "reset"} /\ call.at \in {"reply", "failed"}
    /\ editors' = IF e = NoEditor THEN editors
                  ELSE [editors EXCEPT
                    ![e] = IF call.at = "failed" THEN @
                           ELSE [@ EXCEPT !.id = call.id, !.content = call.content,
                                          !.active = call.active, !.dirty = FALSE],
                    ![e].saving = @ /\ call.kind # "update"]
    /\ calls' = [calls EXCEPT ![s] = NoRequest]
    /\ UNCHANGED <<rows, overview, requests, overlapped, listed>>

\* The overview keeps what it shows.
ListFails(s) ==
    /\ calls[s].kind = "list" /\ calls[s].at = "failed"
    /\ calls' = [calls EXCEPT ![s] = NoRequest]
    /\ UNCHANGED <<rows, overview, editors, requests, overlapped, listed>>

-----------------------------------------------------------------------------
PageStep ==
    \/ \E s \in Slots : ListPolicies(s)
    \/ \E e \in Editors, t \in TypeSet : OpenEditor(e, t)
    \/ \E e \in Editors : CloseEditor(e) \/ Mutate(e)
    \/ \E e \in Editors, s \in Slots : HandleSave(e, s) \/ HandleRestoreDefaults(e, s)

Serves(s) ==
    \/ ReadExisting(s) \/ Create(s)
    \/ ReadVersion(s) \/ ReadActive(s) \/ ReadAgain(s) \/ Write(s) \/ ReadAll(s)
    \/ QueryFails(s)
    \/ ListReply(s) \/ EditorReply(s) \/ ListFails(s)

PolicyNext == PageStep \/ \E s \in Slots : Serves(s)

PolicySpec == PolicyInit /\ [][PolicyNext]_policyVars

-----------------------------------------------------------------------------
(* Properties                                                              *)

\* After a listing every type has a template; and none has two, whatever is
\* edited, deactivated and reset, unless one seeding read what was there while
\* another one was creating the rest.
OneTemplateOfEachType ==
    \A t \in TypeSet :
        /\ listed => OfType(t) # {}
        /\ ~overlapped => Cardinality(OfType(t)) <= 1

\* Tasks hang on questions: a rule whose question is gone can never be
\* triggered.  The editor would list it (TaskRulesTab, rules of no question),
\* but no order of edits, saves, resets and replies leaves one behind, in the
\* table or in an editor.
RulesHaveQuestions ==
    /\ \A i \in Ids : rows[i].content.rules \subseteq rows[i].content.questions
    /\ \A e \in Editors :
          editors[e].content.rules \subseteq editors[e].content.questions

-----------------------------------------------------------------------------
(* What does not hold                                                      *)

\* "This will replace all questions and task rules with the factory defaults"
\* (PolicyEditorPage.tsx:1455): it does not when the template is inactive.
ResetRestores ==
    \A s \in Slots : (calls[s].kind = "reset" /\ calls[s].at = "reply")
                        => calls[s].content = Defaults

\* A save does not change what the user sees.
SaveKeepsEdits ==
    [][\A s \in Slots : LET e == calls[s].who IN
         (calls[s].kind = "update" /\ calls[s].at = "reply" /\ e # NoEditor
            /\ calls'[s] = NoRequest)
         => editors'[e].content = editors[e].content]_policyVars

\* "When active, this policy is used for all new reviews of this type"
\* (PolicyEditorPage.tsx:1366): what the overview shows is what is used, or
\* nothing is.
ShownIsUsed ==
    \A t \in TypeSet : overview[t] # 0 => Newest(ActiveOf(t)) \in {0, overview[t]}

\* Two versions of a template have two numbers.
VersionsAreNew ==
    [][\A i \in Ids : rows'[i] # rows[i] => rows'[i].version > rows[i].version]_policyVars
=============================================================================
