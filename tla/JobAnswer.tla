----------------------------- MODULE JobAnswer -----------------------------
(***************************************************************************)
(* What the API makes of a job's events for one client, by route:          *)
(*                                                                         *)
(*   sse     GET /v1/jobs/{id}/events: the events, resumed by Last-Event-ID*)
(*   job     POST /v1/jobs?wait=: the outcome, or "accepted"               *)
(*   voice   the spoken turn: the reply, or an error                       *)
(*   mcp     the MCP tools: progress, then the result, or an error         *)
(*   stream  POST /v1/chat/completions, streamed as chunks                 *)
(*   ask     the same, waited for                                          *)
(*                                                                         *)
(* A chat answer is recorded in a task of its own, which outlives a client *)
(* that hangs up: its alias, and the release of the request record.        *)
(***************************************************************************)
EXTENDS EventRead

CONSTANT Routes   \* the routes of an instance

Chat == {"stream", "ask"}

\* "lost" and "timeout" stand for what the response maps when its read ended without an outcome: no
\* worker publishes them (queue/models.py 121-126).
ASSUME RouteAssumption ==
    /\ Routes \subseteq {"sse", "job", "voice", "mcp"} \cup Chat
    /\ Events \cap {"lost", "timeout"} = {}

VARIABLES
    route,
    client,      \* waiting, heard (a voice turn), connected, gone (hung up), ended; SSE: timed out
    shown,       \* what the client was sent, part by part
    state,       \* chunks.State: content went out, and the outcome was mapped
    due,         \* parts mapped and not yet sent
    sent,        \* the content mapped so far: the text of the answer
    recording,   \* the task settle.start created
    slow,        \* the recording takes longer than FINISH_TIMEOUT_S
    alias,       \* the text whose alias was registered
    released     \* the request record was released

chat == <<state, due, sent>>
settled == <<recording, slow, alias, released>>
answerVars == <<route, client, shown, chat, settled>>
vars == <<readVars, answerVars>>

Nothing == <<>>
NoTask == [at |-> "none", text |-> Nothing, done |-> FALSE]

InitOf(r) ==
    /\ ReadInit
    /\ route = r
    /\ client = "waiting"
    /\ shown = <<>>
    /\ state = [content_sent |-> FALSE, finished |-> FALSE]
    /\ due = <<>>
    /\ sent = <<>>
    /\ recording = NoTask
    /\ slow = FALSE
    /\ alias = Nothing
    /\ released = FALSE

Init == \E r \in Routes : InitOf(r)

-----------------------------------------------------------------------------
(* chunks.map_event: the parts an event becomes.  A part's content is a sequence of texts. *)

Part(content) == [content |-> content, stop |-> FALSE, error |-> FALSE]

\* A paragraph of its own, when content went out before it.
Apart(text) == IF state.content_sent THEN <<"break", text>> ELSE <<text>>

Content(e) ==
    CASE e = "token" -> <<"token">>
      [] e = "message_end" -> <<"break">>
      [] e = "reset" -> IF state.content_sent THEN <<"retrying">> ELSE <<>>
      [] e = "notice" -> Apart("notice") \o <<"break">>
      [] e \in {"error", "lost"} -> Apart("error")
      [] e = "timeout" -> Apart("timed out")
      [] OTHER -> <<>>

Closing(e) == e \in TERMINAL \cup {"lost", "timeout"}

\* What is sent for it: nothing for a reset that needs no note, or for an unknown event.
Parts(e) ==
    IF Closing(e) THEN <<[content |-> Content(e), stop |-> TRUE, error |-> e \in {"error", "lost"}]>>
    ELSE IF Content(e) # <<>> \/ e \in {"reasoning", "progress", "tool"} THEN <<Part(Content(e))>>
    ELSE <<>>

Mapped(e) ==
    /\ due' = Parts(e)
    /\ sent' = sent \o Content(e)
    /\ state' = [content_sent |-> state.content_sent \/ Content(e) # <<>>,
                 finished |-> Closing(e)]

-----------------------------------------------------------------------------
(* The response *)

\* The job is queued, and its events are followed from the first.
Begin(routes, at) ==
    /\ route \in routes
    /\ client = at
    /\ Open(0)
    /\ client' = "connected"
    /\ UNCHANGED <<route, shown, chat, settled>>

\* POST /v1/jobs, waited for or followed by a GET of its events.
CreateJob == Begin({"sse", "job"}, "waiting")

StartDesk == Begin({"mcp"}, "waiting")

\* A chat stream opens with its role and, behind another turn, the waiting note: neither is content.
AskChat == Begin(Chat, "waiting")

StartTurn == Begin({"voice"}, "heard")

Show(part) == shown' = Append(shown, part)

\* The recording of a voice turn is transcribed.
Hear ==
    /\ route = "voice"
    /\ client = "waiting"
    /\ client' = "heard"
    /\ Show("transcript")
    /\ UNCHANGED <<readVars, route, chat, settled>>

\* One that cannot be transcribed, or says nothing, queues no job.
Unheard ==
    /\ route = "voice"
    /\ client = "waiting"
    /\ client' = "ended"
    /\ UNCHANGED <<readVars, route, shown, chat, settled>>

\* job_events: each event is passed on.
Pass(i) ==
    /\ route = "sse"
    /\ Show(i)
    /\ UNCHANGED client

\* outcome: the first event that is one is the answer; of a voice turn, the reply is still to be read
\* aloud.
Outcome(i) ==
    /\ route \in {"job", "voice"}
    /\ IF log[i] \in TERMINAL THEN Show(log[i]) ELSE UNCHANGED shown
    /\ client' = IF log[i] = "error" \/ (route = "job" /\ log[i] = "done") THEN "ended" ELSE client

\* Desk.follow: the result, or a tool error (progress lines are left out).
Result(i) ==
    /\ route = "mcp"
    /\ IF log[i] \in TERMINAL THEN Show(log[i]) /\ client' = "ended" ELSE UNCHANGED <<shown, client>>

Follow(i) ==
    /\ client = "connected"
    /\ Yield(i)
    /\ Pass(i) \/ Outcome(i) \/ Result(i)
    /\ UNCHANGED <<route, chat, settled>>

Told == \E n \in DOMAIN got : log[got[n]] \in TERMINAL

\* The read is over: SSE says so when the cap was hit.
EndStream ==
    /\ route = "sse"
    /\ client' = IF late /\ ~Told THEN "timed out" ELSE "ended"
    /\ UNCHANGED shown

\* The reply of a voice turn is read aloud, or cannot be.
Speak ==
    /\ route = "voice" /\ Told
    /\ \E speech \in {"audio", "unavailable"} : Show(speech)
    /\ client' = "ended"

\* The answers of those that never read an outcome.
Accepted == route = "job" /\ Show("accepted") /\ client' = "ended"
Abandoned == route \in {"voice", "mcp"} /\ ~Told /\ Show("abandoned") /\ client' = "ended"

Conclude ==
    /\ client = "connected"
    /\ gen.at = "over"
    /\ EndStream \/ Speak \/ Accepted \/ Abandoned
    /\ UNCHANGED <<readVars, route, chat, settled>>

\* Mutant: a client resumes past an event it was not sent.
LastSeenNext == IF got = <<>> THEN gen.from ELSE got[Len(got)] + 1

\* Mutant: a client resumes at the last event it was sent.
LastSeenAgain == IF got = <<>> THEN gen.from ELSE got[Len(got)] - 1

\* Last-Event-ID: the last event the client was sent; the timeout has no id.
LastSeen == IF got = <<>> THEN gen.from ELSE got[Len(got)]

\* An SSE client that hung up, or was told of the timeout, reads on, if the job is still its own.
Resume ==
    /\ route = "sse"
    /\ client \in {"gone", "timed out"}
    /\ ~Told
    /\ "hash" \notin expired
    /\ Open(LastSeen)
    /\ client' = "connected"
    /\ UNCHANGED <<route, shown, chat, settled>>

\* settle.start: a task that records the answer so far, its closing parts included.
Record(done) == recording' = [at |-> "remember", text |-> sent', done |-> done]

\* Mutant: the answer is recorded by the response, after the closing parts.
MapUnrecorded(i) ==
    /\ route \in Chat
    /\ client = "connected"
    /\ due = <<>>
    /\ Yield(i)
    /\ Mapped(log[i])
    /\ UNCHANGED <<route, client, shown, settled>>

\* Mutant: an error counts as an answer delivered.
MapAsDone(i) ==
    /\ route \in Chat
    /\ client = "connected"
    /\ due = <<>>
    /\ Yield(i)
    /\ Mapped(log[i])
    /\ IF log[i] \in TERMINAL THEN Record(TRUE) ELSE UNCHANGED recording
    /\ UNCHANGED <<route, client, shown, slow, alias, released>>

\* _parts: an event is mapped; with the outcome the recording starts, before the parts are sent.
Map(i) ==
    /\ route \in Chat
    /\ client = "connected"
    /\ due = <<>>
    /\ Yield(i)
    /\ Mapped(log[i])
    /\ IF log[i] \in TERMINAL THEN Record(log[i] = "done") ELSE UNCHANGED recording
    /\ UNCHANGED <<route, client, shown, slow, alias, released>>

\* _parts: the read ended without an outcome, at the deadline or because the records are gone.
MapEnd ==
    /\ route \in Chat
    /\ client = "connected"
    /\ due = <<>>
    /\ gen.at = "over"
    /\ ~state.finished
    /\ Mapped(IF status = "gone" THEN "lost" ELSE "timeout")
    /\ Record(FALSE)
    /\ UNCHANGED <<readVars, route, client, shown, slow, alias, released>>

\* A part goes out; one that tells of an error ends an answer that was waited for.
Send ==
    /\ client = "connected"
    /\ due # <<>>
    /\ Show(Head(due))
    /\ due' = Tail(due)
    /\ client' = IF route = "ask" /\ Head(due).error THEN "ended" ELSE client
    /\ UNCHANGED <<readVars, route, state, sent, settled>>

\* Mutant: the response does not wait for the recording.
FinishAtOnce ==
    /\ client = "connected"
    /\ state.finished /\ due = <<>>
    /\ client' = "ended"
    /\ UNCHANGED <<readVars, route, shown, chat, settled>>

\* settle.finish: the response ends once the answer is recorded, or the recording takes too long.
Finish ==
    /\ client = "connected"
    /\ state.finished /\ due = <<>>
    /\ recording.at \in {"over", "failed"} \/ slow
    /\ client' = "ended"
    /\ UNCHANGED <<readVars, route, shown, chat, settled>>

\* The client of a response that is streamed is gone: the response is cancelled where it stands, the
\* recording is not.
HangUp ==
    /\ route \in {"sse", "voice", "stream"}
    /\ client \in {"heard", "connected"}
    /\ client' = "gone"
    /\ gen' = [gen EXCEPT !.at = "closed", !.batch = {}, !.finishing = FALSE]
    /\ due' = <<>>
    /\ UNCHANGED <<records, late, got, route, shown, state, sent, settled>>

-----------------------------------------------------------------------------
(* settle: the recording *)

FIXED_NOTES == {<<"timed out">>}

\* remember_answer; the request record of a job that is done is then released.
Remember ==
    /\ recording.at = "remember"
    /\ alias' = IF recording.text \in FIXED_NOTES THEN alias ELSE recording.text
    /\ recording' = [recording EXCEPT !.at = IF recording.done THEN "release" ELSE "over"]
    /\ UNCHANGED <<readVars, route, client, shown, chat, slow, released>>

Release ==
    /\ recording.at = "release"
    /\ released' = TRUE
    /\ recording' = [recording EXCEPT !.at = "over"]
    /\ UNCHANGED <<readVars, route, client, shown, chat, slow, alias>>

\* The database or the broker fails: it is logged, and what is left is not done.
RecordingFails ==
    /\ recording.at \in {"remember", "release"}
    /\ recording' = [recording EXCEPT !.at = "failed"]
    /\ UNCHANGED <<readVars, route, client, shown, chat, slow, alias, released>>

Slow ==
    /\ recording.at \in {"remember", "release"}
    /\ ~slow
    /\ slow' = TRUE
    /\ UNCHANGED <<readVars, route, client, shown, chat, recording, alias, released>>

-----------------------------------------------------------------------------
(* Every read but that of the MCP tools has a deadline. *)
TimePasses == route # "mcp" /\ Deadline /\ UNCHANGED answerVars

Respond ==
    \/ CreateJob \/ StartDesk \/ AskChat \/ Hear \/ StartTurn
    \/ Conclude \/ MapEnd \/ Send \/ Finish
    \/ Poll /\ UNCHANGED answerVars
    \/ \E i \in gen.batch : Follow(i) \/ Map(i)

Settle == Remember \/ Release \/ RecordingFails

\* What becomes of the job once nobody reads it any more is left out.
Awaited == client # "ended" /\ (client = "gone" => route = "sse")

Next ==
    \/ Awaited /\ World /\ UNCHANGED answerVars
    \/ TimePasses
    \/ Respond
    \/ Unheard \/ Resume \/ HangUp
    \/ Settle \/ Slow

Spec == Init /\ [][Next]_vars

MarkOutcome == Outcomes # {} /\ Mark /\ UNCHANGED answerVars

\* The process goes on with what it has begun, time passes, and a job whose outcome was published is
\* marked (JobQueue's run of liveness: by another worker if its own dies in between).
FairSpec ==
    /\ Spec
    /\ WF_vars(Respond)
    /\ WF_vars(Settle)
    /\ WF_vars(TimePasses)
    /\ WF_vars(MarkOutcome)

-----------------------------------------------------------------------------
(* Properties *)

Texts == {"token", "break", "retrying", "notice", "error", "timed out"}

TypeOK ==
    /\ ReadTypeOK
    /\ route \in Routes
    /\ client \in {"waiting", "heard", "connected", "gone", "ended", "timed out"}
    /\ state \in [content_sent : BOOLEAN, finished : BOOLEAN]
    /\ sent \in Seq(Texts)
    /\ Len(due) <= 1
    /\ recording.at \in {"none", "remember", "release", "over", "failed"}
    /\ slow \in BOOLEAN
    /\ released \in BOOLEAN

\* The content the client was sent, and whether it saw the answer end.
Content_shown == LET f[n \in 0..Len(shown)] == IF n = 0 THEN <<>> ELSE f[n - 1] \o shown[n].content
                 IN f[Len(shown)]
SawTheEnd == \E n \in DOMAIN shown : shown[n].stop

\* settle.py 3-6: the answer is being recorded by the time the client can see that it has ended, so a
\* client that hangs up then costs nothing; and what is recorded is what the client was sent, which
\* is what it will send back.
RecordsWhatWasSent ==
    route \in Chat =>
        /\ SawTheEnd => recording.at # "none" /\ recording.text = Content_shown
        /\ recording.at # "none" =>
             /\ Len(Content_shown) <= Len(recording.text)
             /\ SubSeq(recording.text, 1, Len(Content_shown)) = Content_shown

\* settle.py 42-45: a client that reads to the end and asks again at once finds the alias, unless
\* the recording was slow or failed, or the answer was a fixed note only.
EndFindsTheAlias ==
    route = "stream" /\ client = "ended" /\ ~slow /\ recording.at # "failed" =>
        /\ Content_shown \notin FIXED_NOTES => alias = Content_shown
        /\ Content_shown \in FIXED_NOTES => alias = Nothing
        /\ released <=> recording.done

\* routes.py 6-7: the request is forgotten only for an answer that was delivered in full: the job's
\* outcome is `done`, and the answer has its alias.
ReleasedIsDone ==
    released => /\ \E i \in Outcomes : log[i] = "done" /\ \A j \in Outcomes : i <= j
                /\ alias = recording.text

\* api/events.py 3-5: however often an SSE client resumes, it is sent every event of a stream that
\* has not expired, in order and once.
ResumedInOrder ==
    route = "sse" /\ expired = {} => shown = [n \in 1..Len(shown) |-> n]

\* What a caller was told of its job.
Answer == IF route = "voice" /\ shown # <<>> THEN Tail(shown) ELSE shown

\* jobs.py, desk.py and voice/routes.py: a caller is told of the outcome the job had first, or that
\* there is none when its read was too late, or the job's records have expired.
ToldTheOutcome ==
    route \in {"job", "voice", "mcp"} /\ client = "ended" /\ Answer # <<>> =>
        IF Told THEN "stream" \notin expired => \E i \in Outcomes : i = got[Len(got)] /\ Answer[1] = log[i]
                                                    /\ \A j \in Outcomes : i <= j
        ELSE late \/ expired # {}

\* stream.py 3-7: every answer begun ends, with its outcome or at its deadline; the MCP tools wait
\* for the outcome.
EveryAnswerEnds ==
    (client = "connected" /\ (route = "mcp" => Outcomes # {})) ~> client # "connected"

=============================================================================
