# Lauretta-stocks in TLA+

A verification project for what the system does and keeps: the job queue and its workers, the lock
of a conversation, the chat turn and what its client is shown, the research runs and their pipeline,
the API's submission, threads and answers, what is kept of an investor, and the nightly backup. TLA+
modules model the code under `services/`, TLC checks them on small instances, and TLAPS proves the
most of the safety properties for every value of the constants: those of the queue, the lock, the
submission, the research runs, what is kept of an investor and the backup, and of the conversation's
thread, the chat turn and the answers.

Paths below are relative to `services/`; `agent` and `api` stand for `agent/src` and `api/src`.

## The system

A client (OpenAI-compatible chat, REST, MCP, voice) talks to the **API**, which queues **jobs** on a
Redis **broker**. **Workers** (`python -m src.worker`, several processes, several slots each) run the
jobs: a chat turn of the Director, or a research run of the team (analyst, checker, strategist).
A worker writes events to the job's stream, which the API reads and relays. Conversations are
checkpointed and the investor's facts are kept in Postgres.

| Part | State | Operations | Talks to | What is hard | What makes it correct |
|---|---|---|---|---|---|
| Job queue (`agent/queue/{consumer,reclaim,submit,events}.py`, `agent/worker/handler.py`) | stream `jobs` and its group's pending list, hash `job:{id}`, stream `job:{id}:events`, `jobs:dead`; per worker `_in_flight` and slots | submit, read, claim, run, publish, mark, park, ack, drain | broker, API readers | crashes between two commands, lost replies, sweeps against heartbeats, draining | run at most once, one outcome, nothing lost, client told first, everything ends |
| Thread lock (`agent/queue/lock.py`) | `lock:thread:{user}:{id}` with TTL; a refresher task and a guard per job | acquire (polling), refresh, guard, release | broker, chat jobs | TTL against refresh, lost replies, cancel against completion | work on a conversation never overlaps; a lock is never stuck or stolen |
| Research runs (`agent/runs.py`, `agent/graph/research.py`) | `research:{user}`: ticker to job id | start, active, clear | queue, chat turns | four commands per start, calls of one reply and conversations at once, deaths between report and forget | one run per ticker, reported once, never forgotten untold |
| Submission (`api/queue/submit.py`, `api/api/openai/routes.py`) | request record, thread's latest job | attach, submit once, release | broker, queue | optimistic transaction, expiry, delete after read | identical requests share a job; a failed one is retried |
| Soul proposals (`agent/db/queries/soul.py`, `agent/persona/approval.py`) | `facts` rows of kind soul | propose, approve, reject | Postgres, chat turns | READ COMMITTED, an advisory lock one writer does not take | one active soul; no approval undoes a newer one |
| Event readers (`api/queue/events.py`, `api/api/events.py`) | position in a stream | read, resume, decide it is over | broker | expiry under a reader | sees every event once, stops at the first outcome |
| Answers (`api/api/{jobs,events}.py`, `openai/{stream,chunks,settle,keepalive}.py`, `mcpserver/desk.py`, `voice/routes.py`) | a request's state, a recording task | wait, stream, settle, hang up | event readers, aliases, submission | hang-ups, time caps, errors half-way | every answer ends; what is recorded is what was sent |
| Thread aliases (`api/api/openai/threads.py`, `api/db/queries/threads.py`) | alias rows | resolve, remember | Postgres, submission | conversations that open alike and may attach to one job, recordings that are late or fail, windows that slide | a conversation keeps its thread, and shares it with none that another job answered |
| Chat turn (`agent/graph/{chat,history,compaction,setup}.py`) | checkpoint | context, agent, tools, notice, compact | model, broker, Postgres | turns that died half-way | the history stays one the model accepts, and none of it goes unseen |
| Stream of a job (`agent/worker/stream.py`, `agent/graph/{llm,reasoning}.py`, `agent/worker/redact.py`) | relay and filter state | tokens to events | model, events | retries after tokens were sent, values split over fragments | a client shows one attempt's text, all its thinking and no redacted value |
| Research pipeline (`agent/graph/{pipeline,role,nodes}.py`) | pipeline state, theses | analyst, checker, strategist | model, Postgres | bounded redrafts, reminders, retries and steps | a run ends; the thesis saved belongs together |
| Persona facts, memories, holdings, setup (`agent/db/queries/*.py`, `agent/tools/*.py`, `agent/graph/setup.py`) | `facts`, `holdings` | keyed writes, memories, upserts, the setup read from them | Postgres | supersession under a lock, two transactions in one call, reads in between | one active value per key; nothing settled is asked again |
| Voice (`api/api/voice/`) | parts of a reply | cut, read aloud | synthesiser | two rules that cut at once | the reply is read whole, in parts that fit |
| Command line (`agent/main.py`, `LocalRuns`) | tasks of the process | turn, start, drain | | leaving while runs go on | no run is abandoned |
| Backup (`services/backup/backup.sh`) | files on disk, a clock | dump, copy, tar, rename, prune, sleep | Postgres, a SQLite file | a file written while it is copied, kills between renames, midnight | the newest backups are kept, and are whole |
| Annual figures (`agent/data/{sec,xbrl}.py`) | none: EDGAR's document about a company | read | EDGAR, the analyst | figures filed in any order, several tags for one item | the latest years as last stated; nothing old passes for current |
| Other data sources, MCP surface, edge, gateway | none, or outside the program | reads and configuration | outside services | | |

## Modules

| Module | Models | Checked by | Proofs |
|---|---|---|---|
| `JobLife` | abstract: what the client of a job may rely on | `queue_live` | `JobQueueProofs` |
| `JobQueue` | the queue, its records and the workers | `MCJobQueue` | `JobQueueProofs` |
| `ThreadLock` | the lock of one conversation, in discrete time | `MCChat` | `ThreadLockProofs` |
| `DeskRuns` | the research hash of one investor, the turns and the calls of `start` | `MCQueued` | `QueuedProofs` |
| `LocalRuns` | the same runs in the process of the command line | `MCQueued` | `QueuedProofs` |
| `SubmitOnce` | request records, WATCH/MULTI/EXEC, release | `MCQueued` | `QueuedProofs` |
| `EventRead` | a reader of a job's stream, which expires under it | `JobAnswer` | `AnswerProofs` |
| `JobAnswer` (extends `EventRead`) | the six routes that wait for a job, and the recording of a chat's answer | `MCJobAnswer` | `AnswerProofs` |
| `Research` | one run of the pipeline | `MCJobAnswer` | `AnswerProofs` |
| `AnnualFigures` | the line items read out of EDGAR's document | `MCJobAnswer` | `AnswerProofs` |
| `Pieces` | a reply cut into parts and read aloud | `MCJobAnswer` | `AnswerProofs` |
| `ChatThreads` | threads and aliases of conversations that open alike | `MCChat` | `ChatProofs` |
| `ChatTurn` | the chat graph over its checkpoint, the history shown, compaction | `MCChat` | `ChatProofs` |
| `ChatRelay` | a turn's parts turned into events, with retries of the model call | `MCChat` | `ChatProofs` |
| `Redact` | the filter that holds reasoning back until it can be cut | `MCChat` | `RedactProofs` |
| `Soul` | the soul rows of one investor, statement by statement | `MCSoul` | `KeptProofs` |
| `InvestorFacts` | keyed facts and memories, statement by statement | `MCSoul` | `KeptProofs` |
| `InvestorSetup` | the guided setup, transaction by transaction, and the turns that read it | `MCSoul` | `KeptProofs` |
| `Backup` | the backup script, command by command | `MCSoul` | `KeptProofs` |

An `MC` module that holds several modules takes them one at a time: its variable `part`, set in the
initial state, says which of them runs, and the others stay in their initial state (or have no state,
in `MCQueued`). This explores the union of their behaviours, never their product. It is sound where
modules share no state, or share it at a coarser grain than either is modelled at, as the comment of
each `MC` module says; where components do share state they are one module (`EventRead` within
`JobAnswer`, the two writers of `Soul`, the turns and starts of `DeskRuns`).

A property named in an `MC` module joins the statements its run makes of one promise, each defined in
the module it is about; the table of runs gives the parts in brackets. Each run also checks the types of
its modules (`TypesOK`), unless a theorem proves them (`TypeOK` of `JobQueue`, `ThreadLock`).

`PROJECT.json` maps every definition to its lines.

### JobQueue

One action is one broker command with the code up to the next await, so every point where a
process may die or lose a reply lies between two actions. A worker has a loop (`Consumer.run`) and
a task per slot (`handle`, then `JobHandler`); `task[w][s].pc` is the command issued next.

- `ReadNew`, `Claim`, `ReadCount`, `Dispatch`: `next_new`, the two commands of `next_stale`, and the
  hand-over to a slot. `EndLoop`, `Exit`: `stop`, the delivery dropped, the drain.
- `ReadStatus`, `MarkRunning`, `Part`, `EndRun`, `LookBack`, `Publish`, `MarkFinished`, `Park`,
  `Ack`: the commands of a delivery, in the order the code issues them.
- `Touch`, `BecomeStale`: `keep_claimed`, and the idle time of an entry as one bit: idle past
  `BROKER_MIN_IDLE_MS`. It becomes stale only if no live worker holds it; `Lapse` is the documented
  exception of a worker cut off from the broker (`worker/handler.py` 13-17).
- `Crash`, `Stop`, `Restart`, `Refused`, and a lost reply (the second disjunct of `Reply`,
  `Continue`, `MarkRunning`), `Expire`: faults, each kind with a budget in `MaxFaults`.

Left out: the owner of a pending entry (no command depends on it), the order of the stream (an
entry may be read before an older one, which allows more), trimming at `JOBS_MAXLEN`, the content
of events (consecutive non-terminal events are one), and thread locks (a run is a step that ends
one way or the other). A command is sent at most once: retries inside the Redis client are
not modelled. `Expire` stands for `EVENTS_TTL_S` passing over a pending job; jobs already acked
keep their records.

`JobLife` is the promise: a job waits, starts at most once, gets one answer (the first outcome,
where every reader stops) and is settled after it. `ImplementsFairJobLife` maps the queue to it.

### ThreadLock

`Tick` passes one unit when no sleeper is due: the event loop wakes on time, and one that stalls
past a wake-up counts as having missed a refresh (`RefreshFails`). `Period` is a third of the TTL;
the poll's backoff is a poll per unit. `Finish` is allowed as long as the work has not been
unwound, so the race between completion and cancelling is there. Work is assumed to respond to
cancellation (`Unwind`).

### DeskRuns

One investor. A turn reads the hash (`Ask`), then the statuses one by one (`ReadRun`), talks, may
call `start_research` any number of times at once, of any tickers, and replies (`Reply`), which is
checkpointed before the script forgets what it told of (`Notice`): a death or a failed command between
the two tells it again. `calls` holds the calls under way, each with its next command. `ToolNode` gathers
the calls of one reply: when one raises (`Raise`), the turn fails and the others go on without it
(`Deserted`, `Strays`), so a call may outlive its turn and run beside one of the next. Turns of one
conversation follow one another, which is what `ThreadLock` guarantees; turns of two interleave. Every
command may fail, carried out or not (`CallFails`, `EnqueueFails`). The workers' part of a
job's life is `Begin` and `End` (see `JobQueue`). A hash that expires is left out.

The code does not keep its promise of one run per ticker when two starts of a ticker overlap, which two
calls of one reply can (`desk_twice`). The history variables say where it gives it up, and the properties
what it keeps: `loose` has the tickers a start of which overlapped another, could not queue its job, or
outlived its turn; `ousted` the jobs whose field a start took or gave up; `kept` the jobs told of that
could not be forgotten then.

### SubmitOnce

A request looks at its record (`Get`, `Check`), then runs `submit_once` in a loop. `watched[r]`
and `changed` are the broker's bookkeeping: a write to a watched key makes EXEC fail. `Fail` is a
broker error at any command, including an EXEC carried out without an answer. `Deliver`,
`Release` and `Delete` are the release of a delivered answer.

### Soul

One action per SQL statement at READ COMMITTED; the writes of a transaction are one action with its
commit, because nobody sees them before and the rows stay locked. `Abort` ends a transaction
anywhere. Ids in messages are taken to match one row (an ambiguous one changes nothing).

### EventRead and JobAnswer

`EventRead` has the worker's side as three steps (`Publish`, `Mark`, `Expire`: an outcome is published
before the job is marked, and the stream and the hash expire each on its own) and `events.read` as a
generator: read a batch, yield it, and when there is none look at the status, then at the stream.
`JobAnswer` adds what each route makes of the events: the SSE route resumes by the last id it sent,
the wait of `POST /v1/jobs`, the voice turn and the MCP tools stop at the outcome or at their deadline,
and the chat routes map events to parts (`Map`), send them (`Show`) and record what they sent in a task
of its own (`Begin`, `Finish`), which goes on when the client hangs up (`HangUp`).

### ChatThreads, ChatTurn, ChatRelay, Redact

`ChatThreads`: conversations that open with the same words. An opening first looks for a job that
answers such a request already (`Ask`, `submit.attachable`) and, when it has created or forked its thread,
looks again as it queues its own (`Submit`): either way it may attach to another conversation's job, on that
job's thread and with that job's words as its answer. A later request finds its thread by the aliases of
the pairs it resends, of which the window keeps the last, or by the oldest prompt it still carries (`Find`,
`Prompt`). An answer is recorded, and the record of the opening then released, by a task that may be late,
fail or die; recordings of one answer for two clients write the same and are one. `opening` is the record
of the request, which may expire, and `outcome` what became of each job. `SubmitOnce` has the commands of
that record one by one. A client that sends its opening again after its answer counts as one more conversation.

The docstring of `threads.py` says that two conversations that open alike get threads of their own;
that of `routes.py` (6-7) that an identical request attaches to the job it queued. Where the second
applies the first cannot, so `KeptApart` speaks of conversations that different jobs answered, and
`KeepsItsThread` of all: those that share a job share a thread from then on, which no later pair undoes.
Both speak of conversations whose answers were the desk's own words or answered a prompt of theirs alone,
and whose requests always carried a pair known by then, theirs and their companions' (`Sound`).

`ChatTurn`: the messages of one
thread through the nodes of the graph; a soul decision is committed by itself (`Decide`) before the rest of
its node; `Die` at any node and between those two, after which the next turn finds what the last
checkpoint holds; `History` is what the model is shown, and `Flush` and `Summarize` take what leaves the window.
`ChatRelay`: the parts a turn puts on its stream and the events they become; an attempt of a model call
may fail after some tokens, and be made again. `Redact`: the filter's buffer, character by character,
and where it may be cut; its patterns are two values and the beginning of a tag.

### Research, AnnualFigures, LocalRuns, Pieces

`Research`: the pipeline's nodes, and in each the loop of a role with its reminders, retries and step
limit; `Die` is in `JobQueue`, for nothing of a run is checkpointed. `AnnualFigures`: the loops of
`annual_points` and `annual_series` as folds over a document that grows by a filing at a time, checked
against what they are to pick. `LocalRuns`: runs as tasks that end
at any moment, turns that start and report them, and leaving (`Leave`, `Drained`, `GiveUp`).
`Pieces`: the loop of `pieces` sentence by sentence, then each part read (`Say`), which may fail.

### InvestorFacts and InvestorSetup

`InvestorFacts`: a call's transactions take the persona lock, write their keys one by one and commit;
`Abort` is a rollback anywhere. Memories are inserted, found by their hash, and deleted without it.
`InvestorSetup` takes each transaction as one action, which `InvestorFacts` justifies, and keeps what
`compute_setup` reads: tool calls settle the steps, `set_identity` in two transactions with a possible
death in between, and turns read persona, memories and holdings in three reads (`load_known`).

### Backup

`at` is the script's next command. `WriteDb` is AnythingLLM, writing pages of its file while it is
copied, in the tick of the last write or a later one. `Fail` is any command failing under `set -e` and
the trap; `Kill` leaves the partials; `Restart` is compose's. `ReadNow`, `ReadNext` and `ReadToday` are
the three readings of the clock, between which time passes (`Tick`).

## Runs

| Run | Instance | Shows |
|---|---|---|
| `queue_faults` | 2 jobs, 2 workers x 2 slots, 2 deliveries; 1 crash, 1 stop, 1 error | `OneHolder`, `StartedOnce`, `OutcomeIsLast`, `AckedIsSettled` |
| `queue_live` | 2 jobs, one of them malformed, 2 workers, 1 delivery; 1 crash, 1 stop, 1 error; fair | `ImplementsFairJobLife` |
| `queue_lapses` | 1 job, 2 workers x 2 slots, 2 deliveries; 1 crash, 1 error, 1 lapse, 1 expiry | `FinishedWasPublished`, `DeadWasTold` |
| `queue_contradiction` (violated) | 1 job, 3 crashes, 3 deliveries | `TerminalIsLast` fails through `dead` |
| `queued_once` | desk: 1 conversation with 2 tickers and 3 jobs, or 2 conversations with 1 ticker and 2 jobs, in both 2 deaths or failed commands; local: 2 tickers, 3 runs; submit: 3 requests, 2 keys, an expiry, an error | `GoingIsTracked`, `NothingForgottenUntold`; `OnceAlone` (`OneRunUnlessLoose`, `ToldOnce`, `ToldIsOver`, of one conversation); `LocalRunsHeld` (`RunningIsKept`, `NoneAbandoned`, `HeardOnce`); `SubmittedOnce` (`OneJobPerRequest`, `FailedIsRetried`) |
| `desk_twice` (violated) | 2 conversations, 2 jobs | `OneRunPerTicker` fails between claim and enqueue, with two calls of one reply |
| `submit_release` (violated) | 3 identical requests | `ForgottenWasDelivered` fails: two releases of one delivered job, a new job between them |
| `job_answer` | answer: each of six routes, up to 3 events, reads of 2, stream or hash or both expire; research: 2 redrafts, 2 reminders, 3 attempts, 8 steps; figures: 3 of them, 2 line items, 3 tags; voice: every text of up to 6 characters, parts of 2; fair | `ReadInOrder` (`InOrderOnce`, `ResumedInOrder`); `OutcomeTold` (`EndsForAReason`, `ToldTheOutcome`); `AnswerRecorded` (`RecordsWhatWasSent`, `EndFindsTheAlias`, `ReleasedIsDone`); `ThesisBelongs` (`SavedBelongsTogether`, `RedraftAnswersReview`, `ToldAsItWent`); `FiguresCurrent` (`LatestTag`, `AsLastStated`, `FlaggedIfStale`); `ReadAloudWhole` (`PiecesFit`, `ReadWhole`); `EverythingEnds` (`EveryAnswerEnds`, `EveryRunEnds`) |
| `pieces_order` (violated) | texts of up to 7 characters | `PiecesInOrder` |
| `chat` | lock: 2 jobs, a TTL and a wait of 6, 3 misses in a row, 2 crashes or lost replies; threads: 2 conversations of 3 turns, the last pair resent; turn: 8 messages, a window of 4, batches of 2; relay: 2 calls, 3 fragments, a tool, a notice; redact: 7 characters in fragments of 2; fair | `Exclusive`, `BusyBehindAJob`, `NoTheft`; `LostLockEnds` (`IntruderStops`, `NotLeftBehind`); `ThreadKept` (`KeepsItsThread`, `KeptApart`); `HistoryWhole` (`HistoryAnswered`, `NothingUnseen`, `SummaryIsWhole`); `TurnActsOnce` (`DecidedOnce`, `OpensOnce`); `ThinkingShown` (`AllThinkingShown`, `ShownInOrder`); `ReplyShown` (`ClientShowsTheReply`, `ResetVoids`, `AttemptsAreParted`); `RestAloneIsSent` (`NoValueSent`, `NoTagSent`, `RestIsSent`) |
| `soul_writers` | soul: 3 proposals, 2 turns, at most 2 pending; keyed: 2 writers, 2 names, 3 rows; memories: 2 of them, 3 ids; setup: 2 calls, 1 reader, 2 topics, 1 ticker; backup: 4 dumps, keeping 2, 2 copies, 2 writes, days of 4 moments | `OneActive`, `PendingCapped`, `NeverUndone`; `FactsKept` (`OneChain`, `NothingRepeated`, `KeptOrForgotten`); `NotAskedAgain` (the facts' `NotOfferedAgain` and the setup's own); `ReadyStays`; `BackupsKept` (`NewestKept`, `PairsKept`, `HeldStill`, `DiskBounded`, `NextIsFirst`) |
| `soul_refused` (violated) | 1 proposal, 2 turns | `RefusedStays` |

**Bounds.** Two actors of each kind are enough for every race in the code: each handler interacts with
at most one other at a time through a record. Two slots make a worker hold two entries while its loop
has a third in hand; `MaxDeliveries` 1 or 2 lets the dead-letter path be reached within the budget of
faults; three jobs or requests let a record be taken, freed and taken again; two faults in all are as many as a start and the
forgetting it races can meet (with two conversations two jobs are drawn, for only `GoingIsTracked`,
`NothingForgottenUntold` and the types speak of them); three proposals allow a
stale one behind an approved one with a third pending. Counters (`count`, `runs`, `told`) are bounded by
the budgets of faults. A read of two entries splits three events; a window of four messages is passed
twice by eight, with a call and its results on either side of the cut; three turns and one resent pair
make a conversation forget its first pair, so that the last turn finds its thread by the second. `WorthSeeing`
names the conversation that creates the shared thread (they are alike), and leaves a job alone that no request
can be answered by or attach to any more, and a run in which no sound conversation has a turn to come; two characters in a fragment split a pattern of three in
every way, and two holds force a cut. Three figures restate a year, tell two tags apart, or let one item
stop behind another whose third year is not shown. Two writes are as many as can leave a copy of two
pages torn and its mtime the same; four dumps keeping two let a broken one push a whole one out. What
could only happen with more actors is covered by the proofs, for the properties proved. Every cfg sets
`CHECK_DEADLOCK FALSE`: a system whose jobs are settled, whose requests are answered or whose ids are
used up has nothing left to do; that it does not stop earlier is what the liveness runs show.

**Fairness.** `JobQueue!Fairness`: an event loop runs every ready task; a run ends, because model
calls time out and the graph has a recursion limit; idle time passes; the container is restarted
(`restart: unless-stopped`). Each worker's loop as a whole is fair, not each read in it. Faults are
never fair. `ThreadLock!Fairness`: time passes and a ready task is run, while nothing says that the
guarded work ends by itself (`ChatFairness` is it, in its part). `JobFairness`: a route's coroutine and the recording are run when ready,
deadlines come, and the worker publishes an outcome and marks it (that it does is `JobQueue`'s, whose
refinement of `JobLife` gives every job its answer); a research run takes its next step, for its model
calls time out. `EverythingEnds` and `LostLockEnds` rest on these alone: whether a client hangs up,
records expire, or a call fails is never assumed either way.

## Where the code departs from its documentation

Five runs end in a violation; each is a statement of a docstring or comment that the code does not
keep in some case (`findings` in `PROJECT.json` quotes them):

1. a job answered, then delivered too often, is told JOB_ABANDONED after its answer;
2. two starts at once, two calls of one reply or two conversations', can research one ticker twice: `_going`
   takes a claim whose job is not queued yet for a lost one, and two starts over a finished run both take its field;
3. `release` can delete the record of a newer request, when two deliveries of one job release it;
4. a rejection can be overwritten by an approval under way;
5. a sentence cut for its length is read aloud before shorter ones that precede it.

The models show more, which the properties are stated around:

- a job whose hash expired before its redelivery is run again (`ReadStatus` reads no status;
  `StartedOnce` is checked without expiry);
- two missed refreshes in a row use up the TTL of the lock: `lock.py` 104 counts on the third that is
  left, which is what the sleep before the next try takes (`Exclusive` allows an overlap behind two
  misses);
- two conversations can both report one finished run (`ToldOnce` holds for one conversation), and one does
  when the forgetting fails or the turn dies before it (`kept`);
- a lost reply to `enqueue` leaves a queued run that no field tracks: `start` gives up the field, whatever job it
  holds by then (`ousted`), and the next start of the ticker runs it twice (`loose`);
- two conversations that open with the same words while the first job is under way, or before its answer is
  delivered, share its thread, though `threads.py` 7-8 gives the second a fresh one (`KeptApart` excepts them);
- `Queued.behind` looks at the latest job of the thread only, and misses a job that runs behind a
  failed one (`CheckPrevious`);
- a conversation that was forked, and whose last recording failed or is late, falls back to the thread
  it shares, and once its window has slid to one that a later prompt names (`KeepsItsThread` holds for
  requests that carried a known pair). `threads.py` 46-52 registers the fixed notes of a failed turn as
  aliases when a client resends them, which two conversations may share;
- the results written for the calls of a turn that died take places of the window, so that a message
  may have left it before it is compacted (`NothingUnseen` is stated for turns whose predecessors ended);
- a thesis may be saved by a run that is then reported failed, when the event after it cannot be
  published;
- a worker that dies between `set_identity`'s two transactions leaves the team step open if it renamed
  the Director alone, and the default names given back while another call is between the two open it for
  a moment (`NotAskedAgain` speaks of calls that returned; `ReadyStays` excepts the moment);
- a turn reads the setup in three reads: if the holdings step is skipped and the last holding removed
  between them, it takes the step for open though it never was; removing all holdings that were not
  skipped reopens it;
- `memories.add` raises when the row its insert ran into is deleted before it is read;
- a job that was answered and then told JOB_ABANDONED shows the error to the MCP `job` tool, which
  reads the last terminal event;
- a run of the command line that ended and was not reported is replaced, untold, when it is started
  again; a turn that fails after its notice has forgotten what its reply would have told;
- nothing is flagged stale when revenue itself stopped, or is under no tag of the list;
  `annual_points` trusts `fp` alone to tell that a balance is one of a year end;
- a reply of blanks only has no part, and the speech route answers 500;
- a backup that ends between its two renames leaves a dump without a tar, which takes a place among the
  dumps that are kept: one older pair is lost earlier than `backup.sh` 5-7 says (`PairsKept` counts them);
- the SQLite copy is of one moment of the file, which may be in the middle of a transaction: its journal
  is left out of the tar.

## Proofs

All are checked by TLAPS with no step left unproved.

- **Queue** (`JobQueueProofs`): types, with every fault. Safety assumes `Calm`: no
  lapse and no expiry; jobs, workers, slots, deliveries and the budgets of crashes, stops and errors
  are arbitrary. No property is inductive by itself: that a job is not started twice depends on
  nobody else handling it (`OneHolder`), which depends on an entry in somebody's hands being pending
  and fresh with its holder alive (`Custody`); and what a task does next is right only given what
  it learnt from its earlier commands (`Knows`), and what the broker's records say of each other
  (`Record`). `IInv` is their conjunction; the proof has a lemma per action, and `OneHolder`,
  `StartedOnce`, `OutcomeIsLast`, `AckedIsSettled` follow, and `NeverReopened`, an action property: a
  finished job never goes back to queued or running.
- What the client was told holds without that assumption: with two workers on one job `OneHolder` is gone, but a
  task still knows that it has published what it marks (`Told`), which is enough for
  `FinishedWasPublished`, whatever lapses and expires (no record expires under a task). `DeadWasTold`
  is proved while nothing expires (`NoExpiry`), because a parked job's stream may go. Under `Calm` again,
  `JobLifeImplemented` is the safety part of the refinement: every step of the queue is one step of
  `JobLife` for one job, or none. It needs `IInv` (a job started twice would be a step back), that the first
  outcome of a stream never changes, and that only a job that ran is told of a result (`LifeInv`).
- **Lock** (`ThreadLockProofs`): types, and `Exclusive` for any jobs, TTL, wait and budgets. The
  invariant `LockInv` says that a job at work which has not lost its lock and has not missed two
  refreshes in a row (`Steady`) holds the key, with more of the TTL left than its misses took of it
  (`Holds`): its next refresh comes before the key expires. `NoTheft`, an action property, follows from
  `KeyInv`: a key that is held has some TTL left, and its holder is past its wait. `BusyBehindAJob`
  assumes `Wait >= Ttl`, which the settings' defaults satisfy (30 s each): what a job waits behind, if no
  live job held or took it, is never refreshed and has no more TTL left than the job has patience
  (`Outwaited`).
- **Research runs** (`QueuedProofs`): types, `GoingIsTracked` and `NothingForgottenUntold`, with any calls at
  once, deaths and failed commands. The invariant `RunsInv` adds that each call owns the job id it drew, that
  the job has no hash before it is queued, that a call about to queue its job, or that could not, had its field
  and has it still unless another start took it or a turn reported it lost, and that what a turn is about to
  forget was told (`Drawn`). What any command of a call does to the hash and to the turns is said once (`Effect`).
- **What is queued** (`QueuedProofs`): for each of the three ways in which `MCQueued` begins a piece
  of work, its own invariant; `MCQueued` only ever runs one, so they hold together. `OnceAlone` needs
  `Solo`: when one conversation talks, a ticker that is not `loose` has one call at a time (`SoloCall`), and nobody
  writes its field between two commands of it; so what a call replaces and what a turn reports will not go on
  (`Dead`), and what is in a field was not reported, unless it is about to be forgotten or could not be (`SoloField`). `SubmittedOnce` rests on what WATCH gives: a
  request that got past its reads, and whose record was not written since, still reads what it read; so
  EXEC succeeds only if there is no job to attach to. `LocalRunsHeld` needs that a kept
  run was in no reply, that what a turn is to report is over, and that the drain waits for every run still
  going (`LocalInv`).
- **Conversation** (`ChatProofs`): `ThreadKept`, `TurnActsOnce`, `HistoryWhole`, `ThinkingShown` and
  `ReplyShown`, each from the invariant of its part.
  - `ThreadsInv` says that some choice of a thread for every job explains all there is (`ThreadsInvOf`): whoever
    waits for a job, attaches to it or records its words does so on its thread, which is the one it forked or
    the shared one (`JobStands`, `Waits`, `RecordStands`), and only one job has the shared one (`HoldsBase`). All that
    leads a conversation to a thread later (`On`: its turns, the request under way, and the aliases of its own pairs,
    written or still to be written by a late recording) leads to that of the job that answered its
    opening, unless that job answered one that once carried no known pair (`SteadyJob`): what the one then
    registers, the others may carry.
  - `TurnInv` says what each node may rely on (`TurnStands`): a turn that answers a decision has the
    investor's message last and has told nothing yet, and one that opens a conversation found no reply
    above a message of the investor's (`Unanswered`). Its last part is the summary, which stands for all that
    was taken out. `HistoryInv` adds what `HistoryWhole` goes by: every result follows a reply that made its
    call, with results only between (`Told`); and the summary ends before a message of the investor's, no more
    than a window and a batch from the end when a turn begins that followed a clean one (`Reached`). Where
    each message of the thread is in what the model is shown, and the failures that answer it, is said by where
    the parts of a joined sequence begin (`Placing`, `ShownAs`); that the calls of each reply shown are answered
    (`ReplyAnswered`), and that it stays so from the first message that is no result (`RestAnswered`), are
    lemmas about any thread of which `Told` holds.
  - `RelayInv` says what the relay goes by: an attempt that streamed has shown a token that a reset would take
    back (`Void`), the reasoning held back is of the attempt in progress and came after all that was shown
    (`Holding`), and an attempt that showed neither left nothing for a retry to part (`LastBare`). While every
    publish succeeds, a client shows what the attempt in progress said (`RelayShows`). A publish that fails
    leaves a prefix of the part's events, so the rest (`Good`) is closed under prefixes. What one more
    event, or a part of plain ones, adds to what a client shows are lemmas about joined sequences
    (`FlattenAppend`, `FlattenMore`).
- **Redaction** (`RedactProofs`): `RestAloneIsSent`, for any values, tag, fragments and lengths. What is
  held back is the end of the reasoning, with some values replaced: `Covers` says of each entry how far in the
  reasoning it comes, and what `_clean` and a cut do to it are lemmas about it (`CoversCleaned`,
  `RestCovers`). `RedactInv` says where each place before that went (`Sent_well`), and of every value and every tag
  that has begun before what is held that some place of it is lost: not sent, and not held any more
  (`ValuesBroken`, `TagsBroken`). That is why it cannot be about what was sent alone: a value that began to be
  sent is safe only because the rest of it is not to come. What makes it inductive is the distance between
  what is sent and the end of the reasoning, which is never less than the longest pattern (`Hold`) until the flush:
  a value that ends there was followed by another character when it was last looked for, or is all held
  (`ValueCleaned`, `ValueOld`); and a tag that begins in a piece is whole in it, for a cut is after a space, before
  what begins a tag, or as far from one as a pattern is long (`CutIs`, `TagCut`).
- **The four parts of a chat together** (`ChatTypesProofs`): `TypesOK` of `MCChat`, from the invariants of the lock,
  the threads, the turn, the relay and the redaction. `ChatLocks` says that a chat takes only steps of `ThreadLock`
  as far as the lock goes, so `Exclusive`, `BusyBehindAJob` and `NoTheft`, proved of the lock alone, hold in a chat.
- **Answers** (`AnswerProofs`): `ReadInOrder`, `OutcomeTold` and `AnswerRecorded`, whatever expires and however often a
  client resumes or hangs up.
  `ReadInv` says that what was read and not yielded (`BatchStands`) leaves no gap, unless the
  stream expired, and that a reader stops only at an outcome or at something it saw before it looked at the
  stream for the last time (`EndsRead`). `AnswerInv` relates what a caller was shown to what its reader yielded:
  the event streams show all of it, the other routes the first outcome in its place (`Answers`, `Answered`).
  `RecordInv` says that what was mapped is what was sent and what is due, unless the client hung up
  (`SentTogether`); that the end is mapped once, with the recording, and sent last (`EndsOnce`, `Recorded`); and that
  only the first outcome can be `done` (`DoneFirst`). It assumes what the API's event models say, that no
  worker publishes a `timeout`.
- **Research pipeline** (`AnswerProofs`): `ThesisBelongs`, for any number of redrafts, reminders, attempts and
  steps. `RunInv` says that the state of the pipeline counts the drafts and the reviews handed in, and holds the
  last of each (`RunCounts`); what was told of the rounds so far, and since the last review, at each node and
  step of a role (`ToldSince`); and that what is saved or about to be belongs to the last round (`Together`).
- **Annual figures** (`AnswerProofs`): `FiguresCurrent`, for any line items, tags, units and figures, filed in any
  order. There is no invariant to strengthen: whatever the document holds, the property follows from what the
  folds and the sort compute. That a fold takes the elements one after the other is proved once (`FoldingExists`,
  `InTurn`); what it has after the first n of them, by the least n at which it would differ: the figure filed last for
  each year end (`KeptOf`), newest first (`PointsAre`), and the best column of those looked at so far (`BestFolds`).
- **Read aloud** (`AnswerProofs`): `ReadAloudWhole`, for any text and any limit. The sentences of a text are
  proper spans, in order, and read each word (`SentencesAre`). `VoiceInv` keeps them so (`Unread`): each
  word is read, being cut, or still to come (`Covered`); all that is read, or waits to be joined, lies before what
  is left (`Behind`), so that a span more meets none of it (`NoneTwice`); and each part has the size of its
  spans and the blanks between them (`Sized`, `SizeMore`). A sentence that is cut leaves no word between its halves
  (`CutHalves`).
- **The four parts together** (`AnswerProofs`): `TypesOK` of `MCJobAnswer`, from the invariants above.
- **Soul** (`KeptProofs`): types, `OneActive`, `NeverUndone` and `PendingCapped`, without assumption.
  The invariant `SoulInv` adds that what the holder of the lock has read stays so (`Reads`); a rejection
  may still change its row, which is why `compare` and `apply` allow a rejected one. `CapInv` adds that what
  the holder counted can only have shrunk when it inserts.
- **What is kept** (`KeptProofs`): an invariant for each part of `MCSoul`, and that a step of one leaves
  the others as they are.
  - `FactsInv`: the rows in a transaction fit the rows of the table for as long as its writer holds the
    lock (`Fits`), so that writing one more, and committing, keep each key a chain (`ChainCommitted`).
  - `SetupInv`: what was settled is settled in the facts as they are and in each reading of them
    (`SettledIn`), because no step of any call unsettles it. `ReadyStays` is proved of a step from it.
  - `BackupInv`: `FilesInv` says that what was removed has `Keep` newer ones among the runs that are over,
    and that a tar on disk has all the newer tars with it; `PairsKept` follows by looking at the newest tar
    that has lost its dump. `CopyInv` says why two equal copies with a still mtime are one content of the
    file, whatever the mtime hides: some content had the second page as copied, and a first page
    between what was copied and what was read again (`Caught`). `SchedInv` bounds the clock between the
    three readings.

**Assumptions on constants.** Each is named in its module and evaluated by TLC on every run: sizes are
naturals, sets of proposals, jobs, writers and conversations do not contain the values that stand for
none, and `Threads` and `Secrets`, which are counted, are finite. Five say more: `Wait >= Ttl` above; in `RouteAssumption`
that no worker publishes a `timeout`; in `FiguresAssumption` that no line item lists a tag twice, as none of
the code's table does; in `RedactAssumption` that a tag's name holds no space and no second `<` and
that no value begins with what ends a tag (a space, `>` or `/`: no address and no place's name does; if one
did, replacing it would hide the tag before it), and that `MAX_HOLDS`, which is 4, is more than 1, for with 1 a
long run could be cut within a tag; and in `BackupAssumption` that working out the next dump takes no longer
than there is from 03:00 to midnight (`Slowness`), whose three commands take milliseconds.

**Only model-checked.** Liveness: `ImplementsFairJobLife` with its fairness, `LostLockEnds` and `EverythingEnds`
(fairness and ENABLED are beyond the prover; that `JobQueue` implements the steps of `JobLife` is proved). Every
invariant and every other action property that a run checks is proved. The proofs do without induction: that a
finite set of runs has a newest is taken from the well-foundedness of strict inclusion, and the least of a set of
naturals from that of `<`; what the fold that joins a client's texts, an answer's, or the places of a piece
computes, and what `Clean` does from place to place, is proved by the least prefix or place at which it would
differ.

## Plan

All that was planned is done: the modules above and their runs, and a proof of every safety property that a
passing run checks. The runs stay few: a violated run whose statement is settled makes room for a new one. What
could come next is more of the code rather than more proofs: a flush in mid-call in `Redact`, and the trimming of
the jobs stream, with what is then promised of a job that no worker has read.

## Not modelled

- The data sources but EDGAR's annual figures, read-only tools, rendering and prompts: functions of what an outside
  service returns, with no state of their own.
- The ranking of a memory search and the valuing of a portfolio: arithmetic over floats in SQL and
  Python.
- The MCP server's tool list, the identity headers, the edge and the gateway: checks of a request and
  configuration. What the MCP tools wait for is in `JobAnswer`.
- `<think>` marks in reasoning, a value divided by the flush of a stream that goes on after it
  (`Redact` ends at the first flush), and line breaks as sentence ends (`Pieces`).
- Retries inside the Redis client and the trimming of the jobs stream, as said above; the one-off
  scripts of `services/db`.
