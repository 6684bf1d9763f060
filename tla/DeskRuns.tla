------------------------------ MODULE DeskRuns ------------------------------
(***************************************************************************)
(* The research runs the desk starts for one investor: the hash            *)
(* research:{user} that tracks a job per ticker, the turns that start      *)
(* runs, report the ones that are over and forget them, and the jobs       *)
(* themselves, whose life the workers go on with (JobQueue).               *)
(*                                                                         *)
(* Grain: one action is one broker command and the code up to the next     *)
(* await.  The turns of one conversation follow one another (ThreadLock);  *)
(* those of two conversations interleave, and so do the calls of one       *)
(* reply, which ToolNode gathers: when one raises the turn fails, and the  *)
(* others go on without it.  A job id is drawn by the call that starts the *)
(* run; a hash that expires (24 hours) is left out.                        *)
(***************************************************************************)
EXTENDS Naturals, FiniteSets

CONSTANTS
    Threads,     \* the investor's conversations
    Tickers,     \* the companies the investor asks about
    Jobs,        \* the job ids that may be drawn
    NoJob,       \* not a job
    MaxCrashes,  \* how many turns may die
    MaxErrors    \* how many broker commands may fail

ASSUME DeskAssumption ==
    /\ NoJob \notin Jobs
    /\ MaxCrashes \in Nat
    /\ MaxErrors \in Nat

VARIABLES
    tracked,   \* research:{user}: tracked[k] is the job id in the field of ticker k
    status,    \* status[j]: the status of job:{j}; "none" when there is no hash
    about,     \* about[j]: the ticker job j was drawn for, as a set of at most one
    turn,      \* turn[t]: the turn of conversation t
    calls,     \* the start_research calls in progress
    told,      \* history, told[j]: in how many replies job j was reported over
    kept,      \* history, the jobs reported and then not forgotten: the broker or the turn failed
    ousted,    \* history, the jobs whose field a start took, or gave up when it could not queue
    loose,     \* history, the companies a start of which overlapped another, failed or outlived its turn
    crashes,
    errors

history == <<told, kept, ousted, loose>>
vars == <<tracked, status, about, turn, calls, history, crashes, errors>>

Going == {"queued", "running"}
Statuses == {"none", "over"} \cup Going

Pair == Tickers \X Jobs

\* A turn has a snapshot of the hash whose jobs it asks about, the pairs it reports as over, and the
\* jobs its calls drew.
Quiet == [at |-> "idle", unread |-> {}, over |-> {}, starts |-> {}]
Turn == [at : {"idle", "asking", "talking", "noticing"}, unread : SUBSET Pair, over : SUBSET Pair,
         starts : SUBSET Jobs]

\* A call is named by the command it issues next; `found` is the job id it read in the field.
Commands == {"claim", "look", "check", "take", "enqueue", "undo"}
Call == [next : Commands, ticker : Tickers, job : Jobs, found : Jobs \cup {NoJob}]

\* The calls turn t waits for, and those whose turn is no more.
CallsOf(t) == {c \in calls : c.job \in turn[t].starts}
Strays == {c \in calls : \A t \in Threads : c.job \notin turn[t].starts}

TickersOf(cs) == {c.ticker : c \in cs}
JobsOf(pairs) == {p[2] : p \in pairs}

-----------------------------------------------------------------------------
Init ==
    /\ tracked = [k \in Tickers |-> NoJob]
    /\ status = [j \in Jobs |-> "none"]
    /\ about = [j \in Jobs |-> {}]
    /\ turn = [t \in Threads |-> Quiet]
    /\ calls = {}
    /\ told = [j \in Jobs |-> 0]
    /\ kept = {}
    /\ ousted = {}
    /\ loose = {}
    /\ crashes = 0
    /\ errors = 0

-----------------------------------------------------------------------------
(* A turn: the context step reports, the notice step forgets *)

\* Mutant: empty fields are asked about too.
AskAll(t) ==
    /\ turn[t].at = "idle"
    /\ turn' = [turn EXCEPT ![t] =
                  [Quiet EXCEPT !.at = "asking", !.unread = {<<k, tracked[k]>> : k \in Tickers}]]
    /\ UNCHANGED <<tracked, status, about, calls, history, crashes, errors>>

\* research_block, active: the whole hash is read.
Ask(t) ==
    /\ turn[t].at = "idle"
    /\ turn' = [turn EXCEPT ![t] =
                  [Quiet EXCEPT !.at = "asking",
                                !.unread = {<<k, tracked[k]>> : k \in {k \in Tickers : tracked[k] # NoJob}}]]
    /\ UNCHANGED <<tracked, status, about, calls, history, crashes, errors>>

\* Mutant: a running run is reported over.
ReadRunQueued(t, p) ==
    /\ turn[t].at = "asking"
    /\ p \in turn[t].unread
    /\ turn' = [turn EXCEPT ![t].unread = @ \ {p},
                            ![t].over = IF status[p[2]] = "queued" THEN @ ELSE @ \cup {p}]
    /\ UNCHANGED <<tracked, status, about, calls, history, crashes, errors>>

\* active: the status of each job is then read, one by one; what is not going is over.
ReadRun(t, p) ==
    /\ turn[t].at = "asking"
    /\ p \in turn[t].unread
    /\ turn' = [turn EXCEPT ![t].unread = @ \ {p},
                            ![t].over = IF status[p[2]] \in Going THEN @ ELSE @ \cup {p}]
    /\ UNCHANGED <<tracked, status, about, calls, history, crashes, errors>>

\* The block is written, or the broker could not be read and the turn carries on without it.
Talk(t) ==
    /\ turn[t].at = "asking"
    /\ \/ turn[t].unread = {} /\ turn' = [turn EXCEPT ![t].at = "talking"] /\ UNCHANGED errors
       \/ /\ errors < MaxErrors
          /\ errors' = errors + 1
          /\ turn' = [turn EXCEPT ![t] = [Quiet EXCEPT !.at = "talking"]]
    /\ UNCHANGED <<tracked, status, about, calls, history, crashes>>

\* agent: the reply that calls no tool is streamed and checkpointed.
Reply(t) ==
    /\ turn[t].at = "talking"
    /\ CallsOf(t) = {}
    /\ told' = [j \in Jobs |-> IF j \in JobsOf(turn[t].over) THEN told[j] + 1 ELSE told[j]]
    /\ turn' = [turn EXCEPT ![t].at = "noticing"]
    /\ UNCHANGED <<tracked, status, about, calls, kept, ousted, loose, crashes, errors>>

\* Mutant: the fields of the tickers reported go, whatever job they hold by now.
ForgetTickers(over) ==
    [k \in Tickers |-> IF \E p \in over : p[1] = k THEN NoJob ELSE tracked[k]]

\* Mutant: what is reported is not forgotten.
ForgetNothing(over) == tracked

\* The hash after _FORGET: a field goes only if it still holds the job reported.
Forget(over) == [k \in Tickers |-> IF <<k, tracked[k]>> \in over THEN NoJob ELSE tracked[k]]

\* notice: the runs the reply told of are forgotten, unless the broker fails; the turn ends.
Notice(t) ==
    /\ turn[t].at = "noticing"
    /\ turn' = [turn EXCEPT ![t] = Quiet]
    /\ \/ tracked' = Forget(turn[t].over) /\ UNCHANGED <<kept, errors>>
       \/ /\ turn[t].over # {}
          /\ errors < MaxErrors
          /\ errors' = errors + 1
          /\ tracked' \in {tracked, Forget(turn[t].over)}
          /\ kept' = kept \cup JobsOf(turn[t].over)
    /\ UNCHANGED <<status, about, calls, told, ousted, loose, crashes>>

\* The worker dies, with the calls left over in its process, or the turn is cut off with its calls.
Die(t) ==
    /\ turn[t].at # "idle" \/ Strays # {}
    /\ crashes < MaxCrashes
    /\ crashes' = crashes + 1
    /\ turn' = [turn EXCEPT ![t] = Quiet]
    /\ \E gone \in SUBSET Strays : calls' = calls \ (CallsOf(t) \cup gone)
    /\ kept' = kept \cup (IF turn[t].at = "noticing" THEN JobsOf(turn[t].over) ELSE {})
    /\ UNCHANGED <<tracked, status, about, told, ousted, loose, errors>>

-----------------------------------------------------------------------------
(* QueuedRuns.start *)

\* A call of start_research begins, maybe beside others of the reply: a job id is drawn.
StartResearch(t, k, j) ==
    /\ turn[t].at = "talking"
    /\ about[j] = {}
    /\ about' = [about EXCEPT ![j] = {k}]
    /\ calls' = calls \cup {[next |-> "claim", ticker |-> k, job |-> j, found |-> NoJob]}
    /\ turn' = [turn EXCEPT ![t].starts = @ \cup {j}]
    /\ loose' = loose \cup ({k} \cap TickersOf(calls))
    /\ UNCHANGED <<tracked, status, told, kept, ousted, crashes, errors>>

\* What a call does after a command: it goes on, returns, or raises, which fails the turn that
\* waits for it and leaves the other calls of that turn running.
GoOn(c, d) == calls' = (calls \ {c}) \cup {d} /\ UNCHANGED <<turn, loose>>
Return(c) == calls' = calls \ {c} /\ UNCHANGED <<turn, loose>>

Deserted(c) == UNION {CallsOf(t) \ {c} : t \in {t \in Threads : c \in CallsOf(t)}}
Raise(c) ==
    /\ calls' = calls \ {c}
    /\ turn' = [t \in Threads |-> IF c \in CallsOf(t) THEN Quiet ELSE turn[t]]
    /\ loose' = loose \cup TickersOf(Deserted(c))

\* HSET and HDEL of the ticker's field, whatever it holds.
TakeField(c) ==
    /\ tracked' = [tracked EXCEPT ![c.ticker] = c.job]
    /\ ousted' = ousted \cup ({tracked[c.ticker]} \ {NoJob})
GiveUpField(c) ==
    /\ tracked' = [tracked EXCEPT ![c.ticker] = NoJob]
    /\ ousted' = ousted \cup ({tracked[c.ticker]} \ {NoJob})

\* Mutant: the answer of HSETNX is ignored.
ClaimUnchecked(c) ==
    /\ c.next = "claim"
    /\ tracked' = [tracked EXCEPT ![c.ticker] = IF @ = NoJob THEN c.job ELSE @]
    /\ GoOn(c, [c EXCEPT !.next = "enqueue"])
    /\ UNCHANGED <<status, ousted, errors>>

\* HSETNX: the field is claimed if nothing is in it.
Claim(c) ==
    /\ c.next = "claim"
    /\ IF tracked[c.ticker] = NoJob
       THEN /\ tracked' = [tracked EXCEPT ![c.ticker] = c.job]
            /\ GoOn(c, [c EXCEPT !.next = "enqueue"])
       ELSE GoOn(c, [c EXCEPT !.next = "look"]) /\ UNCHANGED tracked
    /\ UNCHANGED <<status, ousted, errors>>

\* _going, first command: HGET.
Look(c) ==
    /\ c.next = "look"
    /\ GoOn(c, [c EXCEPT !.next = IF tracked[c.ticker] = NoJob THEN "take" ELSE "check",
                         !.found = tracked[c.ticker]])
    /\ UNCHANGED <<tracked, status, ousted, errors>>

\* Mutant: a run going on is replaced.
CheckNothing(c) ==
    /\ c.next = "check"
    /\ GoOn(c, [c EXCEPT !.next = "take"])
    /\ UNCHANGED <<tracked, status, ousted, errors>>

\* _going, second command: the job that is queued or running is the answer.
Check(c) ==
    /\ c.next = "check"
    /\ IF status[c.found] \in Going THEN Return(c) ELSE GoOn(c, [c EXCEPT !.next = "take"])
    /\ UNCHANGED <<tracked, status, ousted, errors>>

\* HSET: "this one takes its place".
Take(c) ==
    /\ c.next = "take"
    /\ TakeField(c)
    /\ GoOn(c, [c EXCEPT !.next = "enqueue"])
    /\ UNCHANGED <<status, errors>>

Queued(c) == status' = [status EXCEPT ![c.job] = "queued"]

\* submit.enqueue, and EXPIRE of the hash.
Enqueue(c) ==
    /\ c.next = "enqueue"
    /\ Queued(c)
    /\ Return(c)
    /\ UNCHANGED <<tracked, ousted, errors>>

\* enqueue raises, though the job may have been queued all the same.
EnqueueFails(c) ==
    /\ c.next = "enqueue"
    /\ errors < MaxErrors
    /\ errors' = errors + 1
    /\ Queued(c) \/ UNCHANGED status
    /\ calls' = (calls \ {c}) \cup {[c EXCEPT !.next = "undo"]}
    /\ loose' = loose \cup {c.ticker}
    /\ UNCHANGED <<tracked, turn, ousted>>

\* HDEL; the error of enqueue is raised again.
Undo(c) ==
    /\ c.next = "undo"
    /\ GiveUpField(c)
    /\ Raise(c)
    /\ UNCHANGED <<status, errors>>

\* Another command fails, EXPIRE too, or only its reply is lost: start raises and gives nothing up.
CallFails(c) ==
    /\ errors < MaxErrors
    /\ errors' = errors + 1
    /\ Raise(c)
    /\ \/ c.next # "enqueue" /\ UNCHANGED <<tracked, status, ousted>>
       \/ /\ c.next = "claim" /\ tracked[c.ticker] = NoJob
          /\ tracked' = [tracked EXCEPT ![c.ticker] = c.job]
          /\ UNCHANGED <<status, ousted>>
       \/ c.next = "take" /\ TakeField(c) /\ UNCHANGED status
       \/ c.next = "enqueue" /\ Queued(c) /\ UNCHANGED <<tracked, ousted>>
       \/ c.next = "undo" /\ GiveUpField(c) /\ UNCHANGED status

CallStep(c) ==
    /\ \/ Claim(c)
       \/ Look(c)
       \/ Check(c)
       \/ Take(c)
       \/ Enqueue(c)
       \/ EnqueueFails(c)
       \/ Undo(c)
       \/ CallFails(c)
    /\ UNCHANGED <<about, told, kept, crashes>>

-----------------------------------------------------------------------------
(* The workers *)

Begin(j) ==
    /\ status[j] = "queued"
    /\ status' = [status EXCEPT ![j] = "running"]
    /\ UNCHANGED <<tracked, about, turn, calls, history, crashes, errors>>

\* The run is done, has failed, was interrupted or abandoned.
End(j) ==
    /\ status[j] \in Going
    /\ status' = [status EXCEPT ![j] = "over"]
    /\ UNCHANGED <<tracked, about, turn, calls, history, crashes, errors>>

Next ==
    \/ \E t \in Threads :
         \/ Ask(t)
         \/ \E p \in turn[t].unread : ReadRun(t, p)
         \/ Talk(t)
         \/ Reply(t)
         \/ Notice(t)
         \/ Die(t)
         \/ \E k \in Tickers, j \in Jobs : StartResearch(t, k, j)
    \/ \E c \in calls : CallStep(c)
    \/ \E j \in Jobs : Begin(j) \/ End(j)

Spec == Init /\ [][Next]_vars

-----------------------------------------------------------------------------
(* Properties *)

TypeOK ==
    /\ tracked \in [Tickers -> Jobs \cup {NoJob}]
    /\ status \in [Jobs -> Statuses]
    /\ about \in [Jobs -> SUBSET Tickers]
    /\ turn \in [Threads -> Turn]
    /\ calls \subseteq Call
    /\ told \in [Jobs -> Nat]
    /\ kept \subseteq Jobs
    /\ ousted \subseteq Jobs
    /\ loose \subseteq Tickers
    /\ crashes \in 0..MaxCrashes
    /\ errors \in 0..MaxErrors

\* Two runs of one company go on at once.
Twice(i, j) == i # j /\ status[i] \in Going /\ status[j] \in Going /\ about[i] = about[j]

\* runs.py 8-9: "two turns at once cannot put the team on the same company twice".
OneRunPerTicker == \A i, j \in Jobs : ~Twice(i, j)

\* runs.py 65-66: the hash is what the desk has started and not yet reported: whatever turns and
\* calls interleave, die and fail, a run going on is in the field of its company, unless it was
\* reported lost, or a start took the field from it or gave it up.
GoingIsTracked ==
    \A j \in Jobs : status[j] \in Going /\ told[j] = 0 /\ j \notin ousted =>
        \E k \in about[j] : tracked[k] = j

\* A job that is going was drawn by a call that is over, or could not be answered. A call knows the
\* job it drew, which nobody else starts; one about to queue it, or that could not, had its field.
Drawn ==
    /\ \A c, d \in calls : c.job = d.job => c = d
    /\ \A j \in Jobs : about[j] = {} => status[j] = "none"
    /\ \A c \in calls :
         /\ about[c.job] = {c.ticker}
         /\ c.next # "undo" => status[c.job] = "none"
         /\ c.next \in {"enqueue", "undo"} =>
              tracked[c.ticker] = c.job \/ told[c.job] > 0 \/ c.job \in ousted
    /\ \A t \in Threads : turn[t].at = "noticing" => \A p \in turn[t].over : told[p[2]] > 0

\* The inductive invariant behind GoingIsTracked.
RunsInv == TypeOK /\ GoingIsTracked /\ Drawn

\* runs.py 8-9: of one company one run goes on at a time, unless two starts of it overlapped, one could
\* not be answered, or one outlived its turn.
OneRunUnlessLoose == \A i, j \in Jobs : Twice(i, j) => about[i] \subseteq loose

\* graph/research.py 27-28, chat.py 112-114: a finished run is reported in one reply, unless it could
\* not be forgotten after the first.
ToldOnce == \A j \in Jobs : told[j] > 1 => j \in kept

\* runs.py 23-24: a run is reported over only when it will not go on, unless its start was loose.
ToldIsOver == \A j \in Jobs : told[j] > 0 /\ status[j] \in Going => about[j] \subseteq loose

\* runs.py 53-55: a field is emptied only once a reply has reported the job it held, or by the
\* start that could not queue its job: "a ticker the desk has since started again keeps its new run".
NothingForgottenUntold ==
    [][\A k \in Tickers : tracked[k] # NoJob /\ tracked'[k] = NoJob =>
         \/ told'[tracked[k]] > 0
         \/ \E c \in calls : c.next = "undo" /\ c.ticker = k]_vars

=============================================================================
