----------------------------- MODULE SubmitOnce -----------------------------
(***************************************************************************)
(* How the API queues a chat request once: identical requests share a      *)
(* request record, which names the job the first of them queued, and a     *)
(* request that finds a live job there attaches to it.  The record and the *)
(* job are written in one transaction that is given up, and tried again,   *)
(* when a key it watches has changed (WATCH, MULTI, EXEC).  The record is  *)
(* forgotten once the job's answer was delivered.                          *)
(*                                                                         *)
(* Grain: one action is one broker command.  A request is also the job id  *)
(* it draws; identical requests have the same key; the thread a request    *)
(* resolves to is any of Threads.  Queued and running are one status here: *)
(* the code treats them alike.                                             *)
(***************************************************************************)
EXTENDS Naturals, FiniteSets

CONSTANTS
    Requests,     \* the HTTP requests; a request is the job it may queue
    Keys,         \* the request keys: digests of user, conversation and message
    Threads,      \* the conversations
    Nobody,       \* not a request
    MaxExpiries,  \* how many records may outlive REQUEST_TTL_S
    MaxErrors     \* how many broker commands may fail

SubmitAssumption ==
    /\ Nobody \notin Requests
    /\ MaxExpiries \in Nat
    /\ MaxErrors \in Nat

VARIABLES
    record,     \* record[k]: the job the request record names
    latest,     \* latest[h]: the job that thread_job of conversation h names
    status,     \* status[j]: none, going (queued or running), done or failed
    request,    \* request[r]: where the handler of request r stands
    watched,    \* watched[r]: the keys whose change makes r's EXEC fail
    delivered,  \* history, the jobs whose `done` some request has answered with
    forgotten,  \* history, the jobs whose record was deleted or has expired
    expiries,
    errors

vars == <<record, latest, status, request, watched, delivered, forgotten, expiries, errors>>
broker == <<record, latest, status>>
faults == <<expiries, errors>>

Steps == {"idle", "get", "check", "watch", "getAgain", "checkAgain", "previous",
          "checkPrevious", "exec", "follow", "release", "delete", "over"}

\* found: the job read last; job: the one the request follows; behind: what Queued.behind will be;
\* changed: a watched key was written; failed: the jobs that had failed when the request came in.
Request == [at : Steps, key : Keys, thread : Threads, found : Requests \cup {Nobody},
            job : Requests \cup {Nobody}, behind : BOOLEAN, changed : BOOLEAN,
            failed : SUBSET Requests]

RequestKey(k) == <<"request", k>>
ThreadKey(h) == <<"thread", h>>

Watches(r) == {RequestKey(request[r].key), ThreadKey(request[r].thread)}

At(r, step) == request[r].at = step
GoTo(r, step) == request' = [request EXCEPT ![r].at = step]

-----------------------------------------------------------------------------
Init ==
    /\ record = [k \in Keys |-> Nobody]
    /\ latest = [h \in Threads |-> Nobody]
    /\ status = [j \in Requests |-> "none"]
    /\ \E key \in [Requests -> Keys], thread \in [Requests -> Threads] :
         request = [r \in Requests |->
            [at |-> "idle", key |-> key[r], thread |-> thread[r], found |-> Nobody, job |-> Nobody,
             behind |-> FALSE, changed |-> FALSE, failed |-> {}]]
    /\ watched = [r \in Requests |-> {}]
    /\ delivered = {}
    /\ forgotten = {}
    /\ expiries = 0
    /\ errors = 0

\* Mutant: a failed job is attached to.
AttachableFailed(j) == j # Nobody /\ status[j] # "none"

\* A record that names this job is attached to.
Attachable(j) == j # Nobody /\ status[j] \notin {"none", "failed"}

\* The requests f once `keys` were written: those that watch one of them see it change.
Noticed(f, keys) ==
    [q \in Requests |-> [f[q] EXCEPT !.changed = @ \/ watched[q] \cap keys # {}]]

-----------------------------------------------------------------------------
(* chat_completions: a look at the record before a thread is resolved *)

Arrive(r) ==
    /\ At(r, "idle")
    /\ request' = [request EXCEPT ![r].at = "get",
                                  ![r].failed = {j \in Requests : status[j] = "failed"}]
    /\ UNCHANGED <<broker, watched, delivered, forgotten, faults>>

\* attachable: GET of the record.
Get(r) ==
    /\ At(r, "get")
    /\ request' = [request EXCEPT
         ![r].found = record[request[r].key],
         ![r].at = IF record[request[r].key] = Nobody THEN "watch" ELSE "check"]
    /\ UNCHANGED <<broker, watched, delivered, forgotten, faults>>

\* attachable: HGET of the job's status.
Check(r) ==
    /\ At(r, "check")
    /\ request' = [request EXCEPT
         ![r].job = IF Attachable(request[r].found) THEN request[r].found ELSE Nobody,
         ![r].at = IF Attachable(request[r].found) THEN "follow" ELSE "watch"]
    /\ UNCHANGED <<broker, watched, delivered, forgotten, faults>>

-----------------------------------------------------------------------------
(* submit_once *)

\* The thread is resolved; WATCH of the request record and the thread's job.
Watch(r) ==
    /\ At(r, "watch")
    /\ watched' = [watched EXCEPT ![r] = Watches(r)]
    /\ request' = [request EXCEPT ![r].at = "getAgain", ![r].changed = FALSE]
    /\ UNCHANGED <<broker, delivered, forgotten, faults>>

GetAgain(r) ==
    /\ At(r, "getAgain")
    /\ request' = [request EXCEPT
         ![r].found = record[request[r].key],
         ![r].at = IF record[request[r].key] = Nobody THEN "previous" ELSE "checkAgain"]
    /\ UNCHANGED <<broker, watched, delivered, forgotten, faults>>

\* A live job is attached to, and the connection is reset.
CheckAgain(r) ==
    /\ At(r, "checkAgain")
    /\ IF Attachable(request[r].found)
       THEN /\ request' = [request EXCEPT ![r].at = "follow", ![r].job = request[r].found]
            /\ watched' = [watched EXCEPT ![r] = {}]
       ELSE /\ GoTo(r, "previous")
            /\ UNCHANGED watched
    /\ UNCHANGED <<broker, delivered, forgotten, faults>>

\* GET of the thread's latest job.
Previous(r) ==
    LET last == latest[request[r].thread] IN
    /\ At(r, "previous")
    /\ request' = [request EXCEPT ![r].found = last, ![r].behind = FALSE,
                                  ![r].at = IF last = Nobody THEN "exec" ELSE "checkPrevious"]
    /\ UNCHANGED <<broker, watched, delivered, forgotten, faults>>

\* HGET of its status.
CheckPrevious(r) ==
    /\ At(r, "checkPrevious")
    /\ request' = [request EXCEPT ![r].at = "exec",
                                  ![r].behind = status[request[r].found] = "going"]
    /\ UNCHANGED <<broker, watched, delivered, forgotten, faults>>

\* The transaction's writes: both records and the job, which is queued.
Queue(r) ==
    /\ record' = [record EXCEPT ![request[r].key] = r]
    /\ latest' = [latest EXCEPT ![request[r].thread] = r]
    /\ status' = [status EXCEPT ![r] = "going"]

\* Mutant: the transaction watches nothing.
ExecUnwatched(r) ==
    /\ At(r, "exec")
    /\ watched' = [watched EXCEPT ![r] = {}]
    /\ Queue(r)
    /\ request' = Noticed([request EXCEPT ![r].at = "follow", ![r].job = r], Watches(r))
    /\ UNCHANGED <<delivered, forgotten, faults>>

\* EXEC: nothing is written, and the loop looks again, if a watched key has changed.
Exec(r) ==
    /\ At(r, "exec")
    /\ watched' = [watched EXCEPT ![r] = {}]
    /\ IF request[r].changed
       THEN GoTo(r, "watch") /\ UNCHANGED broker
       ELSE /\ Queue(r)
            /\ request' = Noticed([request EXCEPT ![r].at = "follow", ![r].job = r], Watches(r))
    /\ UNCHANGED <<delivered, forgotten, faults>>

\* The broker fails: the request is answered 500, though its EXEC may have been carried out.
Fail(r) ==
    /\ request[r].at \notin {"idle", "follow", "over"}
    /\ errors < MaxErrors
    /\ errors' = errors + 1
    /\ watched' = [watched EXCEPT ![r] = {}]
    /\ \/ GoTo(r, "over") /\ UNCHANGED broker
       \/ /\ At(r, "exec")
          /\ ~request[r].changed
          /\ Queue(r)
          /\ request' = Noticed([request EXCEPT ![r].at = "over"], Watches(r))
    /\ UNCHANGED <<delivered, forgotten, expiries>>

-----------------------------------------------------------------------------
(* The answer, and the release of the record *)

\* The job's `done` is read, the answer recorded, and the record is to be released.
Deliver(r) ==
    /\ At(r, "follow")
    /\ status[request[r].job] = "done"
    /\ GoTo(r, "release")
    /\ delivered' = delivered \cup {request[r].job}
    /\ UNCHANGED <<broker, watched, forgotten, faults>>

\* The job failed, the time cap was hit, the client hung up or the answer could not be recorded:
\* nothing is released.
Leave(r) ==
    /\ request[r].at \in {"follow", "release"}
    /\ GoTo(r, "over")
    /\ UNCHANGED <<broker, watched, delivered, forgotten, faults>>

\* release: GET of the record, compared with the job delivered.
Release(r) ==
    /\ At(r, "release")
    /\ GoTo(r, IF record[request[r].key] = request[r].job THEN "delete" ELSE "over")
    /\ UNCHANGED <<broker, watched, delivered, forgotten, faults>>

\* release: DELETE of the record, whatever job it names by now.
Delete(r) ==
    LET k == request[r].key IN
    /\ At(r, "delete")
    /\ record' = [record EXCEPT ![k] = Nobody]
    /\ request' = Noticed([request EXCEPT ![r].at = "over"],
                          IF record[k] = Nobody THEN {} ELSE {RequestKey(k)})
    /\ forgotten' = forgotten \cup ({record[k]} \ {Nobody})
    /\ UNCHANGED <<latest, status, watched, delivered, faults>>

-----------------------------------------------------------------------------
(* The workers and the clock *)

Finish(j) ==
    /\ status[j] = "going"
    /\ \E outcome \in {"done", "failed"} : status' = [status EXCEPT ![j] = outcome]
    /\ UNCHANGED <<record, latest, request, watched, delivered, forgotten, faults>>

\* REQUEST_TTL_S is over: the key is gone, which those who watch it notice.
Expire(k) ==
    /\ record[k] # Nobody
    /\ expiries < MaxExpiries
    /\ expiries' = expiries + 1
    /\ record' = [record EXCEPT ![k] = Nobody]
    /\ request' = Noticed(request, {RequestKey(k)})
    /\ forgotten' = forgotten \cup {record[k]}
    /\ UNCHANGED <<latest, status, watched, delivered, errors>>

RequestStep(r) ==
    \/ Get(r) \/ Check(r)
    \/ Watch(r) \/ GetAgain(r) \/ CheckAgain(r) \/ Previous(r) \/ CheckPrevious(r) \/ Exec(r)
    \/ Release(r) \/ Delete(r)

Next ==
    \/ \E r \in Requests :
         RequestStep(r) \/ Arrive(r) \/ Deliver(r) \/ Leave(r) \/ Fail(r) \/ Finish(r)
    \/ \E k \in Keys : Expire(k)

Spec == Init /\ [][Next]_vars

-----------------------------------------------------------------------------
(* Properties *)

TypeOK ==
    /\ record \in [Keys -> Requests \cup {Nobody}]
    /\ latest \in [Threads -> Requests \cup {Nobody}]
    /\ status \in [Requests -> {"none", "going", "done", "failed"}]
    /\ request \in [Requests -> Request]
    /\ watched \in [Requests -> SUBSET ({RequestKey(k) : k \in Keys} \cup {ThreadKey(h) : h \in Threads})]
    /\ delivered \subseteq Requests
    /\ forgotten \subseteq Requests
    /\ expiries \in 0..MaxExpiries
    /\ errors \in 0..MaxErrors

\* routes.py 6-7: identical requests share a job unless it failed or its record is gone: of the jobs
\* queued for one request key, at most one has neither failed nor been forgotten.
OneJobPerRequest ==
    \A i, j \in Requests :
        /\ i # j
        /\ request[i].key = request[j].key
        /\ status[i] \in {"going", "done"}
        /\ status[j] \in {"going", "done"}
        => i \in forgotten \/ j \in forgotten

\* submit.py 47: "a failed turn is run again": a request never attaches to a job that had failed
\* before the request came in.
FailedIsRetried == \A r \in Requests : request[r].job \notin request[r].failed

\* submit.py 84: release "forgets a request whose answer was delivered", that answer's request only.
ForgottenWasDelivered == MaxExpiries = 0 => forgotten \subseteq delivered

=============================================================================
