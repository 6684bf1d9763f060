------------------------------ MODULE Research ------------------------------
(***************************************************************************)
(* One research run: the pipeline that has the Analyst draft, the Checker  *)
(* review and the Strategist advise, the loop each of them runs until it   *)
(* hands its work in, the model calls with their retries, and the thesis   *)
(* saved in the end.  Nothing of it is checkpointed: a run that raises, or *)
(* whose worker dies, is over.                                             *)
(*                                                                         *)
(* A story is the number of its draft, a review names the draft it is of   *)
(* and its verdict, and advice names the draft and the verdict it is on.   *)
(***************************************************************************)
EXTENDS Naturals, Sequences

CONSTANTS
    MAX_REVISIONS,
    MAX_REMINDERS,
    RETRY_ATTEMPTS,
    RECURSION_LIMIT,  \* how many steps a role may take
    None              \* nothing handed in yet

ResearchAssumption ==
    /\ MAX_REVISIONS \in Nat /\ MAX_REMINDERS \in Nat /\ RECURSION_LIMIT \in Nat
    /\ RETRY_ATTEMPTS \in Nat \ {0}
    /\ None \notin Nat

VARIABLES
    node,      \* the node of the pipeline that runs
    state,     \* PipelineState: story, review, advice, revisions
    role,      \* the role's loop: its next step, what it called, and its counters
    theses,    \* the theses saved by this run
    told,      \* the progress published
    verdicts,  \* history, the verdicts handed in
    drafts     \* history, how many stories were handed in

vars == <<node, state, role, theses, told, verdicts, drafts>>

Drafts == 1..MAX_REVISIONS + 1
Verdicts == {"approve", "revise"}
Review == [of : Drafts, verdict : Verdicts]
Advice == [story : Drafts, review : Review]
Roles == {"analyst", "checker", "advisor"}

State == [story : Drafts \cup {None}, review : Review \cup {None}, advice : Advice \cup {None},
          revisions : 0..MAX_REVISIONS]

\* result: whether the submit tool wrote one.
Role == [step : {"off", "agent", "tools", "remind", "end"}, called : {"nothing", "lookup", "submit"},
         attempt : 1..RETRY_ATTEMPTS, reminders : 0..MAX_REMINDERS, steps : 0..RECURSION_LIMIT,
         result : BOOLEAN]

Off == [step |-> "off", called |-> "nothing", attempt |-> 1, reminders |-> 0, steps |-> 0,
        result |-> FALSE]

Line(of, n) == <<of, n>>

Running == node \notin {"done", "failed"}

Init ==
    /\ node = "load_context"
    /\ state = [story |-> None, review |-> None, advice |-> None, revisions |-> 0]
    /\ role = Off
    /\ theses = <<>>
    /\ told = <<>>
    /\ verdicts = <<>>
    /\ drafts = 0

-----------------------------------------------------------------------------
(* graph/role.py *)

\* Mutant: a step is not counted.
StepFree(next) == [role EXCEPT !.step = next]

Step(next) == [role EXCEPT !.step = next, !.steps = @ + 1]

In(step) == role.step = step /\ role.steps < RECURSION_LIMIT

RoleOnly == UNCHANGED <<node, state, theses, told, verdicts, drafts>>

\* agent: the model answers with one tool call, or in text; then it is reminded, or ends.
Reply ==
    /\ In("agent")
    /\ \/ \E call \in {"lookup", "submit"} :
            role' = [Step("tools") EXCEPT !.called = call, !.attempt = 1]
       \/ role' = [Step(IF role.reminders < MAX_REMINDERS THEN "remind" ELSE "end")
                     EXCEPT !.attempt = 1]
    /\ RoleOnly

\* Backoff: the call failed in a way that may pass, and is made again.
Retry ==
    /\ In("agent")
    /\ role.attempt < RETRY_ATTEMPTS
    /\ role' = [role EXCEPT !.attempt = @ + 1]
    /\ RoleOnly

Remind ==
    /\ In("remind")
    /\ role' = [Step("agent") EXCEPT !.reminders = @ + 1]
    /\ RoleOnly

\* tools: a submit whose arguments are valid writes the result, which ends the loop.
Tools ==
    /\ In("tools")
    /\ \/ role.called = "submit" /\ role' = [Step("end") EXCEPT !.called = "nothing", !.result = TRUE]
       \/ role' = [Step("agent") EXCEPT !.called = "nothing"]
    /\ RoleOnly

\* run: the role has handed its work in.
HandedIn == role.step = "end" /\ role.result

-----------------------------------------------------------------------------
(* graph/pipeline.py *)

\* A node tells its progress, and its role starts.
Start(line) ==
    /\ role.step = "off"
    /\ told' = Append(told, line)
    /\ role' = [Off EXCEPT !.step = "agent"]
    /\ UNCHANGED <<node, state, theses, verdicts, drafts>>

LoadContext ==
    /\ node = "load_context"
    /\ node' = "analyst"
    /\ UNCHANGED <<state, role, theses, told, verdicts, drafts>>

Analyst ==
    /\ node = "analyst"
    /\ Start(IF state.story = None THEN Line("drafting", 0) ELSE Line("redrafting", state.revisions + 1))

\* Mutant: the first draft counts as a revision.
AnalystEndCounts ==
    /\ node = "analyst"
    /\ HandedIn
    /\ drafts' = drafts + 1
    /\ state' = [state EXCEPT !.story = drafts + 1, !.revisions = @ + 1]
    /\ node' = "checker"
    /\ role' = Off
    /\ UNCHANGED <<theses, told, verdicts>>

AnalystEnd ==
    /\ node = "analyst"
    /\ HandedIn
    /\ drafts' = drafts + 1
    /\ state' = [state EXCEPT !.story = drafts + 1,
                              !.revisions = IF state.story = None THEN @ ELSE @ + 1]
    /\ node' = "checker"
    /\ role' = Off
    /\ UNCHANGED <<theses, told, verdicts>>

Checker ==
    /\ node = "checker"
    /\ Start(Line("checking", 0))

\* Mutant: a story that may be redrafted is advised on.
Needs_revisionNever(review) == FALSE

Needs_revision(review) == review.verdict = "revise" /\ state.revisions < MAX_REVISIONS

\* Mutant: the first review stands.
CheckerEndOnce ==
    /\ node = "checker"
    /\ HandedIn
    /\ \E verdict \in Verdicts :
         LET review == [of |-> state.story, verdict |-> verdict] IN
         /\ state' = [state EXCEPT !.review = IF @ = None THEN review ELSE @]
         /\ verdicts' = Append(verdicts, verdict)
         /\ told' = Append(told, Line("verdict", verdict))
         /\ node' = IF Needs_revision(review) THEN "analyst" ELSE "advisor"
    /\ role' = Off
    /\ UNCHANGED <<theses, drafts>>

CheckerEnd ==
    /\ node = "checker"
    /\ HandedIn
    /\ \E verdict \in Verdicts :
         LET review == [of |-> state.story, verdict |-> verdict] IN
         /\ state' = [state EXCEPT !.review = review]
         /\ verdicts' = Append(verdicts, verdict)
         /\ told' = Append(told, Line("verdict", verdict))
         /\ node' = IF Needs_revision(review) THEN "analyst" ELSE "advisor"
    /\ role' = Off
    /\ UNCHANGED <<theses, drafts>>

Advisor ==
    /\ node = "advisor"
    /\ Start(Line("sizing", 0))

AdvisorEnd ==
    /\ node = "advisor"
    /\ HandedIn
    /\ state' = [state EXCEPT !.advice = [story |-> state.story, review |-> state.review]]
    /\ node' = "save"
    /\ role' = Off
    /\ UNCHANGED <<theses, told, verdicts, drafts>>

\* theses.save, then the last progress and run_research's result.  What fails after the row is in
\* the table (its reply, the progress) fails the job, and the thesis stays.
Save ==
    /\ node = "save"
    /\ theses' = Append(theses, state)
    /\ \/ told' = Append(told, Line("saving", 0)) /\ node' = "done"
       \/ UNCHANGED told /\ node' = "failed"
    /\ UNCHANGED <<state, role, verdicts, drafts>>

-----------------------------------------------------------------------------
\* The run raises: a model call that may not be retried or not again, a reply cut off or empty, a
\* tool, the database or a publish that fails, a worker that dies.
Fail ==
    /\ Running
    /\ node' = "failed"
    /\ role' = Off
    /\ UNCHANGED <<state, theses, told, verdicts, drafts>>

\* RoleDidNotSubmit, and the recursion limit.
RoleFails ==
    /\ \/ role.step = "end" /\ ~role.result
       \/ role.step \in {"agent", "tools", "remind"} /\ role.steps = RECURSION_LIMIT
    /\ Fail

Next ==
    \/ Reply \/ Retry \/ Remind \/ Tools
    \/ LoadContext \/ Analyst \/ AnalystEnd \/ Checker \/ CheckerEnd \/ Advisor \/ AdvisorEnd \/ Save
    \/ RoleFails \/ Fail

\* A model call ends or times out, and the worker's loop goes on with what it returned.  Nothing is
\* assumed of failures, nor of what the model answers.
Fairness == WF_vars(Next)

Spec == Init /\ [][Next]_vars

FairSpec == Spec /\ Fairness

-----------------------------------------------------------------------------
(* Properties *)

TypeOK ==
    /\ node \in {"load_context", "save", "done", "failed"} \cup Roles
    /\ state \in State
    /\ role \in Role
    /\ Len(theses) <= 1
    /\ verdicts \in Seq(Verdicts)
    /\ drafts \in 0..MAX_REVISIONS + 1

\* pipeline.py 1-2: what is saved belongs together: the last draft, the Checker's review of that
\* draft and the advice on both, approved unless every redraft was used up.
SavedBelongsTogether ==
    \A i \in DOMAIN theses :
        LET t == theses[i] IN
        /\ t.story = drafts
        /\ t.review.of = t.story
        /\ t.advice = [story |-> t.story, review |-> t.review]
        /\ t.review.verdict = "approve" \/ t.revisions = MAX_REVISIONS

\* pipeline.py 51-64: a redraft answers a review that asked for changes to the draft it replaces, and
\* each counts once.
RedraftAnswersReview ==
    /\ drafts > 0 => state.revisions = drafts - 1
    /\ node = "analyst" /\ state.story # None =>
         state.review = [of |-> state.story, verdict |-> "revise"]

\* The k-th draft is announced, and a review of the n-th draft sends it back.
Draft_line(k) == IF k = 1 THEN Line("drafting", 0) ELSE Line("redrafting", k - 1)
Sent_back(n) == n > 0 => verdicts[n] = "revise" /\ n <= MAX_REVISIONS

\* pipeline.py 56 and 75: the progress published tells the run as it went: each draft, numbered, its
\* check and its verdict, and then the next draft if the verdict sent it back and the advice if not.
ToldAsItWent ==
    LET n == Len(verdicts)
        draft == Draft_line(n + 1)
        checking == Line("checking", 0)
        sizing == Line("sizing", 0)
        saving == Line("saving", 0)
    IN /\ \A k \in 1..n :
            /\ told[3 * k - 2] = Draft_line(k)
            /\ told[3 * k - 1] = checking
            /\ told[3 * k] = Line("verdict", verdicts[k])
            /\ k < n => Sent_back(k)
       /\ SubSeq(told, 3 * n + 1, Len(told)) \in
            {<<>>} \cup (IF Sent_back(n) THEN {<<draft>>, <<draft, checking>>}
                                       ELSE {<<sizing>>, <<sizing, saving>>})

\* Whatever the models answer and however long they go on in text or look things up, a run ends.
EveryRunEnds == <>(node \in {"done", "failed"})

=============================================================================
