----------------------------- MODULE ThreadLock -----------------------------
(***************************************************************************)
(* The lock of one conversation: a broker key with a TTL that holds the    *)
(* token of the chat job that set it, the job's refresher task, and the    *)
(* guard that cancels the job when the refresher finds the lock lost.      *)
(*                                                                         *)
(* Time is discrete: Tick lets one unit pass, and only when no sleeper is  *)
(* due (a worker whose event loop stalls past a wake-up counts as having   *)
(* missed a refresh).  A token is the job that drew it.  The poll's backoff *)
(* (50 ms doubling to 1 s) is a poll in every unit.                        *)
(***************************************************************************)
EXTENDS Integers

CONSTANTS
    Jobs,        \* the chat jobs on the conversation
    NoJob,       \* not a job
    Period,      \* how often the lock is refreshed: a third of AGENT_LOCK_TTL_MS
    Wait,        \* AGENT_LOCK_WAIT_MS
    MaxMisses,   \* how many refreshes in a row may fail with a RedisError
    MaxFaults    \* how many crashes and lost replies there may be in all

Ttl == 3 * Period

ASSUME LockAssumption ==
    /\ NoJob \notin Jobs
    /\ Period \in Nat \ {0}
    /\ Wait \in Nat
    /\ MaxMisses \in Nat
    /\ MaxFaults \in Nat

VARIABLES
    holder,    \* the job whose token the key holds; NoJob when there is no key
    left,      \* the TTL left of the key
    pc,        \* pc[j]: where held() and guard() stand for job j
    patience,  \* patience[j]: time left to the deadline of acquire
    nap,       \* nap[j]: time left of the sleep of acquire's poll, then of _keep
    missed,    \* missed[j]: refreshes failed in a row
    lost,      \* the jobs whose `lost` event is set: _keep has returned
    behind,    \* history, the jobs that waited while another held or took the lock
    faults     \* history, crashes and lost replies

vars == <<holder, left, pc, patience, nap, missed, lost, behind, faults>>
key == <<holder, left>>

\* done: with the work's result; busy: ThreadBusy; stopped: LockLost; failed: a RedisError.
Ended == {"done", "busy", "stopped", "failed", "crashed"}
\* The work is awaited, or is being cancelled.
Working == {"working", "cancelling"}

Stages == {"idle", "waiting", "working", "cancelling", "releasing", "yielding",
           "done", "busy", "stopped", "failed", "crashed"}

Live(j) == pc[j] \in Working \cup {"releasing", "yielding"}

-----------------------------------------------------------------------------
Init ==
    /\ holder = NoJob
    /\ left = 0
    /\ pc = [j \in Jobs |-> "idle"]
    /\ patience = [j \in Jobs |-> 0]
    /\ nap = [j \in Jobs |-> 0]
    /\ missed = [j \in Jobs |-> 0]
    /\ lost = {}
    /\ behind = {}
    /\ faults = 0

Fault == faults < MaxFaults /\ faults' = faults + 1

\* acquire begins.
Start(j) ==
    /\ pc[j] = "idle"
    /\ pc' = [pc EXCEPT ![j] = "waiting"]
    /\ patience' = [patience EXCEPT ![j] = Wait]
    /\ nap' = [nap EXCEPT ![j] = 0]
    /\ behind' = IF holder # NoJob /\ Live(holder) THEN behind \cup {j} ELSE behind
    /\ UNCHANGED <<key, missed, lost, faults>>

\* SET NX PX sets the key to j's token.
Take(j) ==
    /\ holder' = j
    /\ left' = Ttl
    /\ behind' = behind \cup {k \in Jobs \ {j} : pc[k] = "waiting"}

\* Mutant: the key is set without NX.
PollStealing(j) ==
    /\ pc[j] = "waiting"
    /\ nap[j] = 0
    /\ Take(j)
    /\ pc' = [pc EXCEPT ![j] = "working"]
    /\ nap' = [nap EXCEPT ![j] = Period]
    /\ UNCHANGED <<patience, missed, lost, faults>>

\* Mutant: acquire gives up when its next poll would come at the deadline.
PollHasty(j) ==
    /\ pc[j] = "waiting"
    /\ nap[j] = 0
    /\ \/ /\ holder = NoJob
          /\ Take(j)
          /\ pc' = [pc EXCEPT ![j] = "working"]
          /\ nap' = [nap EXCEPT ![j] = Period]
       \/ /\ holder # NoJob
          /\ patience[j] > 1
          /\ nap' = [nap EXCEPT ![j] = 1]
          /\ UNCHANGED <<key, pc, behind>>
       \/ /\ holder # NoJob
          /\ patience[j] <= 1
          /\ pc' = [pc EXCEPT ![j] = "busy"]
          /\ UNCHANGED <<key, nap, behind>>
    /\ UNCHANGED <<patience, missed, lost, faults>>

\* try_acquire, and what acquire does with its answer.
Poll(j) ==
    /\ pc[j] = "waiting"
    /\ nap[j] = 0
    /\ \/ /\ holder = NoJob
          /\ Take(j)
          /\ pc' = [pc EXCEPT ![j] = "working"]
          /\ nap' = [nap EXCEPT ![j] = Period]
          /\ UNCHANGED faults
       \/ /\ holder # NoJob
          /\ patience[j] > 0
          /\ nap' = [nap EXCEPT ![j] = 1]
          /\ UNCHANGED <<key, pc, behind, faults>>
       \/ /\ holder # NoJob
          /\ patience[j] = 0
          /\ pc' = [pc EXCEPT ![j] = "busy"]
          /\ UNCHANGED <<key, nap, behind, faults>>
    /\ UNCHANGED <<patience, missed, lost>>

\* The SET or its reply is lost: acquire raises, and the key may stay behind.
PollFails(j) ==
    /\ pc[j] = "waiting"
    /\ nap[j] = 0
    /\ Fault
    /\ pc' = [pc EXCEPT ![j] = "failed"]
    /\ \/ holder = NoJob /\ Take(j)
       \/ UNCHANGED <<key, behind>>
    /\ UNCHANGED <<patience, nap, missed, lost>>

\* Mutant: a refresh that finds another holder is only logged.
RefreshQuietly(j) ==
    /\ pc[j] \in Working
    /\ j \notin lost
    /\ nap[j] = 0
    /\ left' = IF holder = j THEN Ttl ELSE left
    /\ nap' = [nap EXCEPT ![j] = Period]
    /\ missed' = [missed EXCEPT ![j] = 0]
    /\ UNCHANGED <<holder, pc, patience, lost, behind, faults>>

\* Mutant: the refresher of a job whose release failed goes on.
RefreshOn(j) ==
    /\ pc[j] \in Working \cup {"failed"}
    /\ j \notin lost
    /\ nap[j] = 0
    /\ missed' = [missed EXCEPT ![j] = 0]
    /\ IF holder = j
       THEN left' = Ttl /\ nap' = [nap EXCEPT ![j] = Period] /\ UNCHANGED lost
       ELSE lost' = lost \cup {j} /\ UNCHANGED <<left, nap>>
    /\ UNCHANGED <<holder, pc, patience, behind, faults>>

\* _keep: compare-and-pexpire, every third of the TTL.
Refresh(j) ==
    /\ pc[j] \in Working
    /\ j \notin lost
    /\ nap[j] = 0
    /\ missed' = [missed EXCEPT ![j] = 0]
    /\ IF holder = j
       THEN left' = Ttl /\ nap' = [nap EXCEPT ![j] = Period] /\ UNCHANGED lost
       ELSE lost' = lost \cup {j} /\ UNCHANGED <<left, nap>>
    /\ UNCHANGED <<holder, pc, patience, behind, faults>>

\* _keep: the refresh or its reply is lost; it is retried after the next sleep.
RefreshFails(j) ==
    /\ pc[j] \in Working
    /\ j \notin lost
    /\ nap[j] = 0
    /\ missed[j] < MaxMisses
    /\ missed' = [missed EXCEPT ![j] = @ + 1]
    /\ nap' = [nap EXCEPT ![j] = Period]
    /\ left' \in IF holder = j THEN {left, Ttl} ELSE {left}
    /\ UNCHANGED <<holder, pc, patience, lost, behind, faults>>

\* guard: the work is done first, even when the lock was lost meanwhile.
Finish(j) ==
    /\ pc[j] \in Working
    /\ pc' = [pc EXCEPT ![j] = "releasing"]
    /\ UNCHANGED <<key, patience, nap, missed, lost, behind, faults>>

\* guard: the lock is lost first; the work is cancelled and awaited.
Cancel(j) ==
    /\ pc[j] = "working"
    /\ j \in lost
    /\ pc' = [pc EXCEPT ![j] = "cancelling"]
    /\ UNCHANGED <<key, patience, nap, missed, lost, behind, faults>>

Unwind(j) ==
    /\ pc[j] = "cancelling"
    /\ pc' = [pc EXCEPT ![j] = "yielding"]
    /\ UNCHANGED <<key, patience, nap, missed, lost, behind, faults>>

\* Mutant: the key is deleted whoever holds it.
ReleaseAny(j) ==
    /\ pc[j] \in {"releasing", "yielding"}
    /\ holder' = NoJob
    /\ left' = 0
    /\ pc' = [pc EXCEPT ![j] = IF @ = "releasing" THEN "done" ELSE "stopped"]
    /\ UNCHANGED <<patience, nap, missed, lost, behind, faults>>

\* held's `finally`: the refresher is cancelled, the key compared and deleted.
Release(j) ==
    /\ pc[j] \in {"releasing", "yielding"}
    /\ IF holder = j THEN holder' = NoJob /\ left' = 0 ELSE UNCHANGED key
    /\ pc' = [pc EXCEPT ![j] = IF @ = "releasing" THEN "done" ELSE "stopped"]
    /\ UNCHANGED <<patience, nap, missed, lost, behind, faults>>

\* The release or its reply is lost: the job fails though its work may be done.
ReleaseFails(j) ==
    /\ pc[j] \in {"releasing", "yielding"}
    /\ Fault
    /\ \/ holder = j /\ holder' = NoJob /\ left' = 0
       \/ UNCHANGED key
    /\ pc' = [pc EXCEPT ![j] = "failed"]
    /\ UNCHANGED <<patience, nap, missed, lost, behind>>

\* The worker dies: nothing of `finally` runs.
Crash(j) ==
    /\ pc[j] = "waiting" \/ Live(j)
    /\ Fault
    /\ pc' = [pc EXCEPT ![j] = "crashed"]
    /\ UNCHANGED <<key, patience, nap, missed, lost, behind>>

-----------------------------------------------------------------------------
(* Time *)

\* A sleeper's time is up, or a broker command is on its way.
Due(j) ==
    \/ pc[j] = "waiting" /\ nap[j] = 0
    \/ pc[j] \in Working /\ j \notin lost /\ nap[j] = 0
    \/ pc[j] \in {"releasing", "yielding"}
    \/ pc[j] = "working" /\ j \in lost

Less(f) == [j \in Jobs |-> IF f[j] > 0 THEN f[j] - 1 ELSE 0]

Waking == pc' = pc /\ patience' = Less(patience) /\ nap' = Less(nap)

\* One unit of time; a key whose TTL is over is gone.
Tick ==
    /\ \A j \in Jobs : ~Due(j)
    /\ left > 0 \/ \E j \in Jobs : nap[j] > 0 \/ patience[j] > 0
    /\ Waking
    /\ left' = IF left > 0 THEN left - 1 ELSE 0
    /\ holder' = IF left > 1 THEN holder ELSE NoJob
    /\ UNCHANGED <<missed, lost, behind, faults>>

JobStep(j) ==
    \/ Poll(j)
    \/ Refresh(j)
    \/ Cancel(j)
    \/ Unwind(j)
    \/ Release(j)

Next ==
    \/ \E j \in Jobs :
         \/ JobStep(j)
         \/ Start(j)
         \/ PollFails(j)
         \/ RefreshFails(j)
         \/ Finish(j)
         \/ ReleaseFails(j)
         \/ Crash(j)
    \/ Tick

Spec == Init /\ [][Next]_vars

\* A ready task is run and time passes; nothing says that a job's work ever ends by itself.
Fairness == WF_vars(Tick) /\ \A j \in Jobs : WF_vars(JobStep(j))

FairSpec == Spec /\ Fairness

-----------------------------------------------------------------------------
(* Properties *)

TypeOK ==
    /\ holder \in Jobs \cup {NoJob}
    /\ left \in 0..Ttl
    /\ pc \in [Jobs -> Stages]
    /\ patience \in [Jobs -> 0..Wait]
    /\ nap \in [Jobs -> 0..(Period + 1)]
    /\ missed \in [Jobs -> 0..MaxMisses]
    /\ lost \subseteq Jobs
    /\ behind \subseteq Jobs
    /\ faults \in 0..MaxFaults

\* lock.py 1: at most one chat job runs on a conversation at a time, however jobs crash, lose replies
\* and race for a key that expired: two overlap only if one of them could not refresh its lock twice
\* in a row, and then only until it learns that it lost it.
Exclusive ==
    \A j, k \in Jobs : pc[j] \in Working /\ pc[k] \in Working /\ j # k =>
        \E i \in {j, k} : i \in lost \/ missed[i] > 1

\* lock.py 8: a key is taken away from a job only by its TTL or by the job itself: a release that
\* comes late leaves the lock another job has since taken.
NoTheft ==
    [][holder # NoJob /\ holder' # holder =>
         left = 1 \/ pc[holder] \in {"releasing", "yielding"}]_vars

\* A lock left behind by a dead worker, or by a lost reply, before a job began to wait for it never
\* makes that job fail THREAD_BUSY: the wait is as long as the TTL.
BusyBehindAJob == \A j \in Jobs : pc[j] = "busy" => j \in behind

\* lock.py 7: a job that lost its lock to another is stopped, even if its work would never end.
IntruderStops ==
    \A j \in Jobs : (pc[j] \in Working /\ holder # j) ~> pc[j] \notin Working

\* The lock of a job that ended without releasing it is free again in the end.
NotLeftBehind == \A j \in Jobs : (pc[j] \in Ended /\ holder = j) ~> holder # j

=============================================================================
