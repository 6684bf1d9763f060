------------------------------ MODULE MCQueued ------------------------------
(***************************************************************************)
(* Instances for TLC of the ways a piece of work is begun once: DeskRuns,  *)
(* where a turn queues a research run of a company nobody else is at;      *)
(* LocalRuns, where it starts one in its own process; and SubmitOnce,      *)
(* where an HTTP request queues a turn no identical request has queued.    *)
(* They share no state, so a behaviour is one of one of them: `part` says  *)
(* which.                                                                  *)
(*                                                                         *)
(* For the desk: one conversation that asks about every company, or all    *)
(* the conversations on one company, with fewer jobs; turns die and broker *)
(* commands fail, MaxFaultsTogether of them in all.                        *)
(***************************************************************************)
EXTENDS DeskRuns, TLC

CONSTANTS
    MaxFaultsTogether,   \* how many turns die and commands fail in all
    MaxDrawnTogether,    \* how many jobs are drawn where several conversations talk
    MaxExpiries, MaxFailures,   \* SubmitOnce
    MaxRuns              \* LocalRuns

VARIABLES
    part,
    speakers,    \* the conversations that talk
    companies,   \* the companies they ask about
    record, latest, jobStatus, request, watched, delivered, forgotten, expiries, failures,
    tasks, run, desk, over, awaited, heard, gaveUp

Submit == INSTANCE SubmitOnce WITH
    Requests <- Jobs, Keys <- Tickers, Nobody <- NoJob, status <- jobStatus, errors <- failures,
    MaxErrors <- MaxFailures

Local == INSTANCE LocalRuns WITH Companies <- Tickers

ASSUME SubmitAssumption == Submit!SubmitAssumption
ASSUME LocalAssumption == Local!LocalAssumption

\* The conversations are counted (Alone).
ASSUME ConversationsAssumption == IsFiniteSet(Threads)

submitVars == <<record, latest, jobStatus, request, watched, delivered, forgotten, expiries, failures>>
localVars == <<tasks, run, desk, over, awaited, heard, gaveUp>>
deskVars == <<vars, speakers, companies>>

Alone == Cardinality(speakers) = 1

\* What has no state in a part.
Off == "off"
SubmitOff ==
    /\ record = Off /\ latest = Off /\ jobStatus = Off /\ request = Off /\ watched = Off
    /\ delivered = Off /\ forgotten = Off /\ expiries = Off /\ failures = Off
LocalOff ==
    /\ tasks = Off /\ run = Off /\ desk = Off /\ over = Off /\ awaited = Off
    /\ heard = Off /\ gaveUp = Off
DeskOff == speakers = {} /\ companies = {}

QueuedInit ==
    /\ Init
    /\ \/ /\ part = "desk"
          /\ \/ speakers \in {{t} : t \in Threads} /\ companies = Tickers
             \/ speakers = Threads /\ companies \in {{k} : k \in Tickers}
          /\ SubmitOff /\ LocalOff
       \/ part = "submit" /\ Submit!Init /\ DeskOff /\ LocalOff
       \/ part = "local" /\ Local!Init /\ DeskOff /\ SubmitOff

DeskNext ==
    /\ Next
    /\ \A t \in Threads \ speakers : turn'[t] = turn[t]
    /\ \A j \in Jobs : about'[j] \subseteq companies
    /\ ~Alone => Cardinality({j \in Jobs : about'[j] # {}}) <= MaxDrawnTogether
    /\ crashes' + errors' <= MaxFaultsTogether
    /\ UNCHANGED <<speakers, companies>>

QueuedNext ==
    /\ UNCHANGED part
    /\ \/ part = "desk" /\ DeskNext /\ UNCHANGED <<submitVars, localVars>>
       \/ part = "submit" /\ Submit!Next /\ UNCHANGED <<deskVars, localVars>>
       \/ part = "local" /\ Local!Next /\ UNCHANGED <<deskVars, submitVars>>

QueuedSpec == QueuedInit /\ [][QueuedNext]_<<part, deskVars, submitVars, localVars>>

Symmetry == Permutations(Threads) \cup Permutations(Tickers) \cup Permutations(Jobs)

-----------------------------------------------------------------------------
(* Properties *)

\* Every variable of the parts has its type.
TypesOK ==
    /\ TypeOK
    /\ part = "submit" => Submit!TypeOK
    /\ part = "local" => Local!TypeOK

\* runs.py 8-9 and 23-24, graph/research.py 27-28: for an investor with one conversation, whose turns
\* follow one another, whatever calls a reply makes at once and whatever dies or fails: nobody puts
\* the team on one company twice, and a run is reported only once it will not go on, unless two starts
\* of the company overlapped, one failed or outlived its turn; and it is reported in one reply, unless
\* it could not be forgotten then.  Two starts at once can: see desk_twice.
OnceAlone == Alone => OneRunUnlessLoose /\ ToldOnce /\ ToldIsOver

\* runs.py 8-9 and 151: a run going on in this process is the one kept for its ticker, is reported in
\* one reply, and is not abandoned when the investor leaves.
LocalRunsHeld == part = "local" => Local!RunningIsKept /\ Local!NoneAbandoned /\ Local!HeardOnce

\* routes.py 6-7 and submit.py 47: identical requests share a job, unless it failed or its record is
\* gone; a failed one is run again.
SubmittedOnce == part = "submit" => Submit!OneJobPerRequest /\ Submit!FailedIsRetried

=============================================================================
