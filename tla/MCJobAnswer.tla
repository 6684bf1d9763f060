---------------------------- MODULE MCJobAnswer ----------------------------
(***************************************************************************)
(* Instances for TLC of how a job comes to its end: the analyst reads     *)
(* annual figures (AnnualFigures), the run comes to a thesis (Research),   *)
(* the outcome of a job reaches whoever waits for it (JobAnswer), and the  *)
(* reply of a voice turn is read aloud (Pieces).  They share no state at   *)
(* the grain they are modelled at, so a behaviour is one of one of them:   *)
(* `part` says which.  The others stay in their initial state.             *)
(***************************************************************************)
EXTENDS JobAnswer, TLC

CONSTANTS
    MAX_REVISIONS, MAX_REMINDERS, RETRY_ATTEMPTS, RECURSION_LIMIT, None,   \* Research
    Limit, MaxText,                                                        \* Pieces
    LINE_ITEMS, Anchor, Units, Balances, YearDays, StaleDays, Years, Ends,
    MaxDelay, MaxFacts                                                     \* AnnualFigures

VARIABLES
    part,
    node, pipeline, role, theses, told, verdicts, drafts,
    text, rest, sentence, current, parts, said, speech,
    document

Run == INSTANCE Research WITH state <- pipeline
Voice == INSTANCE Pieces
Figures == INSTANCE AnnualFigures

ASSUME PartsAssumption == Run!ResearchAssumption /\ Voice!PiecesAssumption /\ Figures!FiguresAssumption

researchVars == <<node, pipeline, role, theses, told, verdicts, drafts>>
voiceVars == <<text, rest, sentence, current, parts, said, speech>>
jobVars == <<part, vars, researchVars, voiceVars, document>>

AllRoutes == {"sse", "job", "voice", "mcp"} \cup Chat
Spoken == {"token"}
Both == {"stream", "hash"}

\* A line item two tags of which are in use, one in two units, and a balance.
Lines == [revenue |-> <<"Revenues", "Sales">>, cash |-> <<"Cash">>]
InUse == [Revenues |-> <<"USD", "CAD">>, Sales |-> <<"USD">>, Cash |-> <<"USD">>]

JobInit ==
    /\ part \in {"answer", "research", "voice", "figures"}
    /\ IF part = "answer" THEN Init ELSE InitOf("job")
    /\ Run!Init
    /\ Figures!Init
    /\ IF part = "voice" THEN Voice!Init ELSE Voice!InitOf(<<>>)

JobNext ==
    /\ UNCHANGED part
    /\ \/ part = "answer" /\ Next /\ UNCHANGED <<researchVars, voiceVars, document>>
       \/ part = "research" /\ Run!Next /\ UNCHANGED <<vars, voiceVars, document>>
       \/ part = "voice" /\ Voice!Next /\ UNCHANGED <<vars, researchVars, document>>
       \/ part = "figures" /\ Figures!Next /\ UNCHANGED <<vars, researchVars, voiceVars>>

\* The fairness of JobAnswer and of Research, each in its part.
JobFairness ==
    /\ WF_vars(part = "answer" /\ Respond)
    /\ WF_vars(part = "answer" /\ Settle)
    /\ WF_vars(part = "answer" /\ TimePasses)
    /\ WF_vars(part = "answer" /\ MarkOutcome)
    /\ WF_researchVars(part = "research" /\ Run!Next)

JobSpec == JobInit /\ [][JobNext]_jobVars /\ JobFairness

-----------------------------------------------------------------------------
(* Properties *)

\* Every variable of the parts has its type.
TypesOK ==
    /\ part = "answer" => TypeOK
    /\ part = "research" => Run!TypeOK
    /\ part = "voice" => Voice!TypeOK
    /\ part = "figures" => Figures!TypeOK

\* queue/events.py 47, api/events.py 3-5: a read skips nothing and repeats nothing, and nor do the reads
\* of a client that resumes.
ReadInOrder == InOrderOnce /\ ResumedInOrder

\* queue/events.py 47-49, jobs.py, desk.py, voice/routes.py: a read ends with the outcome, at its
\* deadline or because records expired, and what the caller is told is the job's first outcome, or
\* that it has none yet.
OutcomeTold == EndsForAReason /\ ToldTheOutcome

\* settle.py 3-6 and 42-45, routes.py 6-7: what is recorded of an answer is what was sent, by the time
\* its end can be seen, under the alias the next request looks for; a request is released once
\* its answer was delivered.
AnswerRecorded == RecordsWhatWasSent /\ EndFindsTheAlias /\ ReleasedIsDone

\* pipeline.py 1-2, 51-64 and 75: a thesis is saved with its own review and the advice on both, each
\* redraft answers the review that asked for it, and the progress told the run as it went.
ThesisBelongs == Run!SavedBelongsTogether /\ Run!RedraftAnswersReview /\ Run!ToldAsItWent

\* xbrl.py: each line item is shown in the tag that reports its latest year, as the latest annual
\* filing stated it, and flagged when it stopped long before revenue did.
FiguresCurrent ==
    part = "figures" => Figures!LatestTag /\ Figures!AsLastStated /\ Figures!FlaggedIfStale

\* speech.py 56-57 and 76-77: a text read to the end was read whole, no word twice, in parts that fit.
ReadAloudWhole == Voice!PiecesFit /\ Voice!ReadWhole

\* stream.py 3-7, pipeline.py: every answer begun ends, and so does a research run.
EverythingEnds == EveryAnswerEnds /\ (part = "research" => Run!EveryRunEnds)

=============================================================================
