---------------------------- MODULE ChatThreads ----------------------------
(***************************************************************************)
(* Which thread of the desk a chat app's request continues.  The app sends *)
(* no id, only the last answered pairs of its conversation; a thread is    *)
(* found again by the alias of a pair (a prompt and its answer), which is  *)
(* registered once the answer was sent, by a task of its own, and once     *)
(* more by the next request that carries the pair.  A request that repeats *)
(* another's words attaches to the job that answers it.                    *)
(*                                                                         *)
(* Grain: one action is one statement of the database or one transaction   *)
(* of the broker.  The conversations are of one user and open with the     *)
(* same words: their first requests are identical, later prompts differ.   *)
(* Left out: requests that name their thread (X-Thread-Id), which always   *)
(* get it, and those refused before a thread is looked for.  An opening    *)
(* sent again after its answer is a conversation of its own.               *)
(***************************************************************************)
EXTENDS Naturals, Sequences

CONSTANTS
    Conversations,   \* of the client; the id of one also names the job that answers its opening
    NoThread,
    Anyone,          \* stands for any conversation, in what they share
    MaxTurns,        \* how many turns a conversation has
    Window           \* how many answered pairs a client resends

ThreadsAssumption ==
    /\ Anyone \notin Conversations
    /\ MaxTurns \in Nat \ {0}
    /\ Window \in Nat \ {0}
    /\ NoThread \notin (Conversations \cup {Anyone}) \X (1..MaxTurns)

Turns == 1..MaxTurns

\* Only the opening is shared.
Prompt(c, n) == <<IF n = 1 THEN Anyone ELSE c, n>>

\* digests.first_message_thread names a thread by a prompt; Forked(c) is a fresh one.
Threads == (Conversations \cup {Anyone}) \X Turns
Base == <<Anyone, 1>>
Forked(c) == <<c, 1>>

\* An answer is the desk's own words, the fixed note of a turn that timed out, or one that an error or
\* the deadline cut off.
Answers == {"own", "timed out", "error"}
FIXED_NOTES == {"timed out"}

\* digests.pair_alias: two conversations share a pair if they share the prompt and the answer, the own
\* words of one job or the same note.
Pair(c, n, answer, job) == <<IF n > 1 THEN c ELSE IF answer = "own" THEN job ELSE Anyone, n, answer>>
Pairs == (Conversations \cup {Anyone}) \X Turns \X Answers

VARIABLES
    threads,   \* table threads: those that exist
    aliases,   \* table thread_aliases: the thread of each pair
    history,   \* history[c]: the answered pairs of conversation c, as the client has them
    request,   \* request[c]: where the request of conversation c stands, its thread and job so far
    opening,   \* the request record of the opening: the job that answers it, and its thread, if any
    outcome,   \* outcome[c]: what became of the job queued for the opening of c; "lost" is failed or gone
    tasks,     \* the recordings that are running, those of one answer as one
    placed,    \* history, placed[c]: the threads its turns ran on
    unsure     \* history, the conversations that once carried no pair that was known

vars == <<threads, aliases, history, request, opening, outcome, tasks, placed, unsure>>

Steps == {"idle", "create", "fork", "submit", "find", "own", "add", "turn"}
Idle == [at |-> "idle", thread |-> NoThread, job |-> Anyone]
Outcomes == {"none", "live", "done", "lost"}

Init ==
    /\ threads = {}
    /\ aliases = [p \in Pairs |-> NoThread]
    /\ history = [c \in Conversations |-> <<>>]
    /\ request = [c \in Conversations |-> Idle]
    /\ opening = {}
    /\ outcome = [c \in Conversations |-> "none"]
    /\ tasks = {}
    /\ placed = [c \in Conversations |-> {}]
    /\ unsure = {}

At(c, step) == request[c].at = step
GoTo(c, step, thread) == request' = [request EXCEPT ![c] = [at |-> step, thread |-> thread, job |-> c]]
Await(c, record) ==
    request' = [request EXCEPT ![c] = [at |-> "turn", thread |-> record.thread, job |-> record.job]]

\* submit.attachable
Attachable == {r \in opening : outcome[r.job] # "lost"}

\* ChatRequest.pairs: those the client still carries, oldest first.
Oldest(c) == LET n == Len(history[c]) IN IF n > Window THEN n - Window + 1 ELSE 1
CarriedPairs(c) == SubSeq(history[c], Oldest(c), Len(history[c]))

Known(c) == {i \in DOMAIN CarriedPairs(c) : aliases[CarriedPairs(c)[i]] # NoThread}

\* add_aliases: one that points elsewhere already keeps its thread.
WithAliases(pairs, thread) ==
    [p \in Pairs |-> IF p \in pairs /\ aliases[p] = NoThread THEN thread ELSE aliases[p]]

-----------------------------------------------------------------------------
(* A request: attachable, threads.resolve, submit_once *)

\* The opening attaches to the job that answers it already, if one does.
Ask(c) ==
    /\ At(c, "idle")
    /\ Len(history[c]) < MaxTurns
    /\ IF history[c] # <<>> THEN GoTo(c, "find", NoThread)
       ELSE IF Attachable = {} THEN GoTo(c, "create", NoThread)
       ELSE \E r \in Attachable : Await(c, r)
    /\ UNCHANGED <<threads, aliases, history, opening, outcome, tasks, placed, unsure>>

\* Mutant: a new conversation takes the first-message thread though it is in use.
CreateShared(c) ==
    /\ At(c, "create")
    /\ threads' = threads \cup {Base}
    /\ GoTo(c, "submit", Base)
    /\ UNCHANGED <<aliases, history, opening, outcome, tasks, placed, unsure>>

\* A new conversation: the first-message thread, unless it is in use.
Create(c) ==
    /\ At(c, "create")
    /\ threads' = threads \cup {Base}
    /\ IF Base \in threads THEN GoTo(c, "fork", Forked(c)) ELSE GoTo(c, "submit", Base)
    /\ UNCHANGED <<aliases, history, opening, outcome, tasks, placed, unsure>>

Fork(c) ==
    /\ At(c, "fork")
    /\ threads' = threads \cup {Forked(c)}
    /\ GoTo(c, "submit", Forked(c))
    /\ UNCHANGED <<aliases, history, opening, outcome, tasks, placed, unsure>>

\* submit_once: of two identical openings the second attaches to the job and the thread of the first.
\* A later request is identical to no other: its own goes unmodelled.
Submit(c) ==
    /\ At(c, "submit")
    /\ IF Attachable = {}
       THEN /\ opening' = {[job |-> c, thread |-> request[c].thread]}
            /\ outcome' = [outcome EXCEPT ![c] = "live"]
            /\ GoTo(c, "turn", request[c].thread)
       ELSE (\E r \in Attachable : Await(c, r)) /\ UNCHANGED <<opening, outcome>>
    /\ UNCHANGED <<threads, aliases, history, tasks, placed, unsure>>

\* find_aliases: the oldest pair known wins, else the first-message thread, which is that of the
\* oldest prompt it still carries.
Find(c) ==
    /\ At(c, "find")
    /\ IF Known(c) = {}
       THEN GoTo(c, "own", Prompt(c, Oldest(c))) /\ unsure' = unsure \cup {c}
       ELSE /\ \E i \in Known(c) : /\ \A j \in Known(c) : i <= j
                                   /\ GoTo(c, "own", aliases[CarriedPairs(c)[i]])
            /\ UNCHANGED unsure
    /\ UNCHANGED <<threads, aliases, history, opening, outcome, tasks, placed>>

Own(c) ==
    /\ At(c, "own")
    /\ threads' = threads \cup {request[c].thread}
    /\ GoTo(c, "add", request[c].thread)
    /\ UNCHANGED <<aliases, history, opening, outcome, tasks, placed, unsure>>

\* Every pair it carries, a fixed note's included.
Add(c) ==
    /\ At(c, "add")
    /\ aliases' = WithAliases({CarriedPairs(c)[i] : i \in DOMAIN CarriedPairs(c)}, request[c].thread)
    /\ GoTo(c, "turn", request[c].thread)
    /\ UNCHANGED <<threads, history, opening, outcome, tasks, placed, unsure>>

-----------------------------------------------------------------------------
(* The answer, and settle's task *)

\* The job that answers an opening ends, or is gone with its records.
Finish(c) ==
    /\ \/ outcome[c] = "live" /\ outcome' = [outcome EXCEPT ![c] = "done"]
       \/ outcome[c] \in {"live", "done"} /\ outcome' = [outcome EXCEPT ![c] = "lost"]
    /\ UNCHANGED <<threads, aliases, history, request, opening, tasks, placed, unsure>>

\* REQUEST_TTL_S has gone by.
Expire ==
    /\ opening # {}
    /\ opening' = {}
    /\ UNCHANGED <<threads, aliases, history, request, outcome, tasks, placed, unsure>>

\* What another conversation can be sent too is told apart at the opening only.
AnswersTo(c) == IF history[c] = <<>> THEN Answers ELSE Answers \ {"error"}

\* The client sees the end of its answer, and may send the next turn at once.  The words of an
\* opening's job are sent to all who attached to it.  Of a fixed note nothing is recorded or released.
Answer(c, answer) ==
    LET r == request[c]
        n == Len(history[c]) + 1
        p == Pair(c, n, answer, r.job) IN
    /\ At(c, "turn")
    /\ n = 1 /\ answer = "own" => outcome[r.job] = "done"
    /\ history' = [history EXCEPT ![c] = Append(@, p)]
    /\ tasks' = tasks \cup
         (IF answer \in FIXED_NOTES THEN {}
          ELSE {[at |-> "remember", pair |-> p, thread |-> r.thread,
                 release |-> IF n = 1 /\ answer = "own" THEN {r.job} ELSE {}]})
    /\ placed' = [placed EXCEPT ![c] = @ \cup {r.thread}]
    /\ request' = [request EXCEPT ![c] = Idle]
    /\ UNCHANGED <<threads, aliases, opening, outcome, unsure>>

\* remember_answer; its failure is logged, and ends the task.
Remember(k) ==
    /\ k \in tasks /\ k.at = "remember"
    /\ \/ /\ aliases' = WithAliases({k.pair}, k.thread)
          /\ tasks' = (tasks \ {k}) \cup (IF k.release = {} THEN {} ELSE {[k EXCEPT !.at = "release"]})
       \/ tasks' = tasks \ {k} /\ UNCHANGED aliases
    /\ UNCHANGED <<threads, history, request, opening, outcome, placed, unsure>>

\* release: the record goes if it still names the job delivered; or the task fails.
Release(k) ==
    /\ k \in tasks /\ k.at = "release"
    /\ tasks' = tasks \ {k}
    /\ opening' \in {opening, {r \in opening : r.job \notin k.release}}
    /\ UNCHANGED <<threads, aliases, history, request, outcome, placed, unsure>>

Next ==
    \/ \E c \in Conversations :
         \/ Ask(c) \/ Create(c) \/ Fork(c) \/ Submit(c) \/ Find(c) \/ Own(c) \/ Add(c)
         \/ \E answer \in AnswersTo(c) : Answer(c, answer)
         \/ Finish(c)
    \/ Expire
    \/ \E k \in tasks : Remember(k) \/ Release(k)

Spec == Init /\ [][Next]_vars

-----------------------------------------------------------------------------
(* Properties *)

TypeOK ==
    /\ threads \subseteq Threads
    /\ aliases \in [Pairs -> Threads \cup {NoThread}]
    /\ history \in [Conversations -> Seq(Pairs)]
    /\ request \in [Conversations -> [at : Steps, thread : Threads \cup {NoThread},
                                      job : Conversations \cup {Anyone}]]
    /\ opening \subseteq [job : Conversations, thread : Threads]
    /\ outcome \in [Conversations -> Outcomes]
    /\ tasks \subseteq [at : {"remember", "release"}, pair : Pairs, thread : Threads,
                        release : SUBSET Conversations]
    /\ placed \in [Conversations -> SUBSET Threads]
    /\ unsure \subseteq Conversations

\* The conversations that were sent the same answer to the opening as c.
Companions(c) == {d \in Conversations :
    d = c \/ (history[c] # <<>> /\ history[d] # <<>> /\ history[c][1] = history[d][1])}

\* Every answer so far was the desk's own words, or answered a prompt of this conversation alone; and
\* its requests, and those of the conversations that share its first answer, always carried a pair
\* that was known by then: an answer was recorded before they went on, or an older one in the window.
Sound(c) ==
    /\ \A i \in DOMAIN history[c] : history[c][i][1] # Anyone
    /\ Companions(c) \cap unsure = {}

\* threads.py 7-11: a sound conversation stays on one thread, whatever others, late recordings and a
\* window that slides do meanwhile.
KeepsItsThread == \A c \in Conversations : Sound(c) => \A s, t \in placed[c] : s = t

\* threads.py 7-8: two sound conversations that open with the same words are kept apart, unless one job
\* answered both openings (routes.py 6-7).
KeptApart ==
    \A c, d \in Conversations :
        Sound(c) /\ Sound(d) /\ d \notin Companions(c) => placed[c] \cap placed[d] = {}

=============================================================================
