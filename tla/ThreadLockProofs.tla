-------------------------- MODULE ThreadLockProofs --------------------------
(* The conversation lock, for every TTL, wait and number of jobs: work overlaps only while one of *)
(* the jobs could not refresh its lock twice in a row, or is being stopped; no step takes a key   *)
(* that another holds; and a job that gives up waiting waited behind another job's work.          *)
EXTENDS ThreadLock, TLAPS

\* A job at work that has not failed to refresh twice in a row and has not lost its lock.
Steady(j) == pc[j] \in Working /\ j \notin lost /\ missed[j] < 2

\* The lock of such a job is its own, and has more left than the failed refreshes took of it.
Holds(j) ==
    /\ holder = j
    /\ left >= Ttl - (missed[j] + 1) * Period + nap[j]

LockInv ==
    /\ TypeOK
    /\ \A j \in Jobs : Steady(j) => Holds(j)
    /\ \A j \in Jobs : pc[j] \in {"idle", "waiting"} => j \notin lost /\ missed[j] = 0

LEMMA InitType == Init => TypeOK
  BY LockAssumption DEF Init, TypeOK, Ttl, Stages

LEMMA TakeType ==
  ASSUME TypeOK, NEW j \in Jobs, Take(j)
  PROVE  holder' \in Jobs \cup {NoJob} /\ left' \in 0..Ttl /\ behind' \subseteq Jobs
  <1>1. left' \in 0..Ttl
    BY LockAssumption DEF Take, Ttl
  <1>2. QED
    BY <1>1 DEF TypeOK, Take

\* Each variable's type, kept by every step.
LEMMA NextType ==
  ASSUME TypeOK, [Next]_vars
  PROVE  TypeOK'
  <1> USE LockAssumption DEF TypeOK, key, Ttl, Stages
  <1>1. CASE UNCHANGED vars
    BY <1>1 DEF vars
  <1>2. ASSUME NEW j \in Jobs, Start(j)
        PROVE  TypeOK'
    <2>1. behind' \subseteq Jobs
      BY <1>2 DEF Start, Live
    <2>2. QED
      BY <1>2, <2>1 DEF Start, Live
  <1>3. ASSUME NEW j \in Jobs, Poll(j)
        PROVE  TypeOK'
    <2>1. holder' \in Jobs \cup {NoJob} /\ left' \in 0..Ttl /\ behind' \subseteq Jobs
      BY <1>3, TakeType DEF Poll
    <2>2. nap' \in [Jobs -> 0..(Period + 1)]
      BY <1>3 DEF Poll
    <2>3. pc' \in [Jobs -> Stages]
      BY <1>3 DEF Poll
    <2>4. QED
      BY <1>3, <2>1, <2>2, <2>3 DEF Poll
  <1>4. ASSUME NEW j \in Jobs, PollFails(j)
        PROVE  TypeOK'
    <2>1. holder' \in Jobs \cup {NoJob} /\ left' \in 0..Ttl /\ behind' \subseteq Jobs
      BY <1>4, TakeType DEF PollFails
    <2>2. pc' \in [Jobs -> Stages]
      BY <1>4 DEF PollFails
    <2>3. faults' \in 0..MaxFaults
      BY <1>4 DEF PollFails, Fault
    <2>4. QED
      BY <1>4, <2>1, <2>2, <2>3 DEF PollFails
  <1>5. ASSUME NEW j \in Jobs, Refresh(j)
        PROVE  TypeOK'
    <2>1. left' \in 0..Ttl /\ nap' \in [Jobs -> 0..(Period + 1)] /\ lost' \subseteq Jobs
      BY <1>5 DEF Refresh
    <2>2. missed' \in [Jobs -> 0..MaxMisses]
      BY <1>5 DEF Refresh
    <2>3. QED
      BY <1>5, <2>1, <2>2 DEF Refresh
  <1>6. ASSUME NEW j \in Jobs, RefreshFails(j)
        PROVE  TypeOK'
    <2>1. left' \in 0..Ttl /\ nap' \in [Jobs -> 0..(Period + 1)]
      BY <1>6 DEF RefreshFails
    <2>2. missed' \in [Jobs -> 0..MaxMisses]
      BY <1>6 DEF RefreshFails
    <2>3. QED
      BY <1>6, <2>1, <2>2 DEF RefreshFails
  <1>7. ASSUME NEW j \in Jobs, Finish(j) \/ Cancel(j) \/ Unwind(j)
        PROVE  TypeOK'
    BY <1>7 DEF Finish, Cancel, Unwind
  <1>8. ASSUME NEW j \in Jobs, Release(j)
        PROVE  TypeOK'
    <2>1. holder' \in Jobs \cup {NoJob} /\ left' \in 0..Ttl
      BY <1>8 DEF Release
    <2>2. pc' \in [Jobs -> Stages]
      BY <1>8 DEF Release
    <2>3. QED
      BY <1>8, <2>1, <2>2 DEF Release
  <1>9. ASSUME NEW j \in Jobs, ReleaseFails(j) \/ Crash(j)
        PROVE  TypeOK'
    <2>1. holder' \in Jobs \cup {NoJob} /\ left' \in 0..Ttl
      BY <1>9 DEF ReleaseFails, Crash
    <2>2. pc' \in [Jobs -> Stages]
      BY <1>9 DEF ReleaseFails, Crash
    <2>3. faults' \in 0..MaxFaults
      BY <1>9 DEF ReleaseFails, Crash, Fault
    <2>4. QED
      BY <1>9, <2>1, <2>2, <2>3 DEF ReleaseFails, Crash
  <1>10. CASE Tick
    <2>1. left' \in 0..Ttl /\ holder' \in Jobs \cup {NoJob}
      BY <1>10 DEF Tick
    <2>2. patience' \in [Jobs -> 0..Wait] /\ nap' \in [Jobs -> 0..(Period + 1)]
      BY <1>10 DEF Tick, Waking, Less
    <2>3. QED
      BY <1>10, <2>1, <2>2 DEF Tick, Waking
  <1>11. QED
    BY <1>1, <1>2, <1>3, <1>4, <1>5, <1>6, <1>7, <1>8, <1>9, <1>10 DEF Next, JobStep

\* Every reachable state of the lock is well typed.
THEOREM LockTypeCorrect == Spec => []TypeOK
  BY InitType, NextType, PTL DEF Spec

-----------------------------------------------------------------------------
(* The lock excludes *)

\* At most one refresh failed in a row: what that took of the TTL leaves some of it.
LEMMA SomeLeft ==
  ASSUME TypeOK, NEW j \in Jobs, Steady(j), Holds(j)
  PROVE  left > nap[j]
  <1>1. missed[j] \in {0, 1} /\ nap[j] \in Nat /\ left \in Nat
    BY LockAssumption DEF TypeOK, Ttl, Steady
  <1>2. (missed[j] + 1) * Period \in {Period, 2 * Period}
    BY <1>1, LockAssumption
  <1>3. QED
    BY <1>1, <1>2, LockAssumption DEF Holds, Ttl

\* A step that leaves a job's part of the lock alone, or adds to its TTL, keeps its hold.
LEMMA HoldsFrame ==
  ASSUME LockInv, TypeOK', NEW j \in Jobs, Steady(j),
         holder' = holder, left' >= left, missed'[j] = missed[j], nap'[j] = nap[j]
  PROVE  Holds(j)'
  <1>1. Holds(j) /\ left \in Nat /\ left' \in Nat /\ nap[j] \in Nat /\ missed[j] \in Nat
    BY LockAssumption DEF LockInv, TypeOK, Ttl
  <1>2. (missed[j] + 1) * Period \in Nat /\ Ttl \in Nat
    BY <1>1, LockAssumption DEF Ttl
  <1>3. QED
    BY <1>1, <1>2 DEF Holds

LEMMA LockNext ==
  ASSUME LockInv, [Next]_vars
  PROVE  LockInv'
  <1>1. TypeOK /\ TypeOK'
    BY NextType DEF LockInv
  <1>2. \A j \in Jobs :
          /\ j \in Jobs /\ left \in Nat /\ left' \in Nat /\ Ttl \in Nat
          /\ missed[j] \in Nat /\ nap[j] \in Nat /\ missed'[j] \in Nat /\ nap'[j] \in Nat
    BY <1>1, LockAssumption DEF TypeOK, Ttl
  <1>3. \A j \in Jobs : Steady(j) => holder = j
    BY DEF LockInv, Holds
  <1>4. CASE UNCHANGED vars
    BY <1>1, <1>4 DEF vars, key, LockInv, Holds, Steady
  <1>5. ASSUME NEW j \in Jobs, Start(j)
        PROVE  LockInv'
    <2>1. \A k \in Jobs : Steady(k)' => Steady(k) /\ nap'[k] = nap[k] /\ missed'[k] = missed[k]
      BY <1>1, <1>5 DEF Start, TypeOK, Working, Steady
    <2>2. \A k \in Jobs : Steady(k)' => Holds(k)'
      BY <1>1, <1>2, <1>5, <2>1, HoldsFrame DEF Start, key
    <2>3. QED
      BY <1>1, <1>5, <2>2 DEF Start, LockInv, TypeOK
  <1>6. ASSUME NEW j \in Jobs, Poll(j)
        PROVE  LockInv'
    <2>1. CASE holder = NoJob
      <3>1. \A k \in Jobs : ~Steady(k)
        BY <1>3, <2>1, LockAssumption
      <3>2. /\ holder' = j /\ left' = Ttl /\ pc' = [pc EXCEPT ![j] = "working"]
            /\ nap' = [nap EXCEPT ![j] = Period] /\ UNCHANGED <<missed, lost>>
            /\ j \notin lost /\ missed[j] = 0
        BY <1>6, <2>1 DEF Poll, Take, LockInv
      <3>3. Holds(j)'
        BY <1>1, <1>2, <3>2, LockAssumption DEF Holds, TypeOK
      <3>4. \A k \in Jobs : Steady(k)' => k = j
        BY <1>1, <3>1, <3>2 DEF Steady, TypeOK
      <3>5. QED
        BY <1>1, <3>2, <3>3, <3>4 DEF LockInv, TypeOK
    <2>2. CASE holder # NoJob
      <3>1. UNCHANGED <<key, missed, lost>>
        BY <1>6, <2>2 DEF Poll
      <3>2. \A k \in Jobs : Steady(k)' => Steady(k) /\ nap'[k] = nap[k]
        BY <1>1, <1>6, <2>2, <3>1 DEF Poll, TypeOK, Working, Steady
      <3>3. \A k \in Jobs : Steady(k)' => Holds(k)'
        BY <1>1, <1>2, <3>1, <3>2, HoldsFrame DEF key
      <3>4. \A k \in Jobs : pc'[k] \in {"idle", "waiting"} => pc[k] \in {"idle", "waiting"}
        BY <1>1, <1>6, <2>2 DEF Poll, TypeOK
      <3>5. QED
        BY <1>1, <3>1, <3>3, <3>4 DEF LockInv
    <2>3. QED
      BY <2>1, <2>2
  <1>7. ASSUME NEW j \in Jobs, PollFails(j)
        PROVE  LockInv'
    <2>1. \A k \in Jobs : pc'[k] \in Working \cup {"idle", "waiting"} => k # j /\ pc'[k] = pc[k]
      BY <1>1, <1>7 DEF PollFails, TypeOK, Working
    <2>2. UNCHANGED <<nap, missed, lost>>
      BY <1>7 DEF PollFails
    <2>3. \A k \in Jobs : Steady(k)' => Steady(k)
      BY <2>1, <2>2 DEF Steady
    <2>4. \A k \in Jobs : Steady(k)' => Holds(k)'
      <3>1. CASE UNCHANGED key
        BY <1>1, <1>2, <2>2, <2>3, <3>1, HoldsFrame DEF key
      <3>2. CASE holder = NoJob
        BY <1>3, <2>3, <3>2, LockAssumption
      <3>3. QED
        BY <1>7, <3>1, <3>2 DEF PollFails
    <2>5. QED
      BY <1>1, <2>1, <2>2, <2>4 DEF LockInv
  <1>8. ASSUME NEW j \in Jobs, Refresh(j)
        PROVE  LockInv'
    <2>1. /\ UNCHANGED <<holder, pc>> /\ pc[j] \in Working /\ missed'[j] = 0
          /\ \A k \in Jobs \ {j} : missed'[k] = missed[k] /\ nap'[k] = nap[k]
          /\ lost \subseteq lost' /\ lost' \subseteq lost \cup {j}
      BY <1>1, <1>8 DEF Refresh, TypeOK
    <2>2. ASSUME NEW k \in Jobs, Steady(k)'
          PROVE  Holds(k)'
      <3>1. CASE k = j
        <4>1. holder = j
          BY <1>8, <2>2, <3>1 DEF Refresh, Steady
        <4>2. left' = Ttl /\ nap'[j] = Period
          BY <1>1, <1>8, <4>1 DEF Refresh, TypeOK
        <4>3. QED
          BY <1>2, <2>1, <3>1, <4>1, <4>2, LockAssumption DEF Holds
      <3>2. CASE k # j
        <4>1. Steady(k)
          BY <2>1, <2>2, <3>2 DEF Steady
        <4>2. holder # j /\ left' = left
          BY <1>3, <1>8, <3>2, <4>1 DEF Refresh
        <4>3. QED
          BY <1>1, <1>2, <2>1, <3>2, <4>1, <4>2, HoldsFrame
      <3>3. QED
        BY <3>1, <3>2
    <2>3. \A k \in Jobs : pc[k] \in {"idle", "waiting"} => k # j
      BY <2>1 DEF Working
    <2>4. QED
      BY <1>1, <2>1, <2>2, <2>3 DEF LockInv
  <1>9. ASSUME NEW j \in Jobs, RefreshFails(j)
        PROVE  LockInv'
    <2>1. /\ UNCHANGED <<holder, pc, lost>> /\ pc[j] \in Working /\ nap[j] = 0
          /\ missed'[j] = missed[j] + 1 /\ nap'[j] = Period
          /\ \A k \in Jobs \ {j} : missed'[k] = missed[k] /\ nap'[k] = nap[k]
          /\ left' \in {left, Ttl} /\ (holder # j => left' = left)
      BY <1>1, <1>9 DEF RefreshFails, TypeOK
    <2>2. ASSUME NEW k \in Jobs, Steady(k)'
          PROVE  Holds(k)'
      <3>1. CASE k = j
        <4>1. missed[j] = 0 /\ Steady(j)
          BY <1>2, <2>1, <2>2, <3>1 DEF Steady
        <4>2. holder = j /\ left >= Ttl - Period
          BY <1>2, <2>1, <4>1, LockAssumption DEF LockInv, Holds
        <4>3. left' >= Ttl - 2 * Period + Period
          BY <1>2, <2>1, <4>2, LockAssumption DEF Ttl
        <4>4. QED
          BY <1>2, <2>1, <3>1, <4>1, <4>2, <4>3, LockAssumption DEF Holds, Ttl
      <3>2. CASE k # j
        <4>1. Steady(k)
          BY <2>1, <2>2, <3>2 DEF Steady
        <4>2. left' = left
          BY <1>3, <2>1, <3>2, <4>1
        <4>3. QED
          BY <1>1, <1>2, <2>1, <3>2, <4>1, <4>2, HoldsFrame
      <3>3. QED
        BY <3>1, <3>2
    <2>3. \A k \in Jobs : pc[k] \in {"idle", "waiting"} => k # j
      BY <2>1 DEF Working
    <2>4. QED
      BY <1>1, <2>1, <2>2, <2>3 DEF LockInv
  <1>10. ASSUME NEW j \in Jobs, Finish(j) \/ Cancel(j) \/ Unwind(j)
         PROVE  LockInv'
    <2>0. PICK stage \in {"releasing", "cancelling", "yielding"} :
            /\ pc' = [pc EXCEPT ![j] = stage]
            /\ pc[j] \in Working
      BY <1>10 DEF Finish, Cancel, Unwind, Working
    <2>1. \A k \in Jobs : /\ pc'[k] \in Working => pc[k] \in Working
                          /\ pc'[k] \in {"idle", "waiting"} => pc'[k] = pc[k]
      BY <1>1, <2>0 DEF TypeOK
    <2>2. UNCHANGED <<key, nap, missed, lost>>
      BY <1>10 DEF Finish, Cancel, Unwind
    <2>3. \A k \in Jobs : Steady(k)' => Steady(k)
      BY <2>1, <2>2 DEF Steady
    <2>4. \A k \in Jobs : Steady(k)' => Holds(k)'
      BY <1>1, <1>2, <2>2, <2>3, HoldsFrame DEF key
    <2>5. QED
      BY <1>1, <2>1, <2>2, <2>4 DEF LockInv
  <1>11. ASSUME NEW j \in Jobs, Release(j) \/ ReleaseFails(j) \/ Crash(j)
         PROVE  LockInv'
    <2>1. \A k \in Jobs : pc'[k] \in Working \cup {"idle", "waiting"} => k # j /\ pc'[k] = pc[k]
      BY <1>1, <1>11 DEF Release, ReleaseFails, Crash, TypeOK, Working
    <2>2. UNCHANGED <<nap, missed, lost>> /\ (holder # j => UNCHANGED key)
      BY <1>11 DEF Release, ReleaseFails, Crash, key
    <2>3. \A k \in Jobs : Steady(k)' => Steady(k) /\ k # j
      BY <2>1, <2>2 DEF Steady
    <2>4. \A k \in Jobs : Steady(k)' => Holds(k)'
      BY <1>1, <1>2, <1>3, <2>2, <2>3, HoldsFrame DEF key
    <2>5. QED
      BY <1>1, <2>1, <2>2, <2>4 DEF LockInv
  <1>12. CASE Tick
    <2>1. UNCHANGED <<pc, missed, lost>>
      BY <1>12 DEF Tick, Waking
    <2>2. ASSUME NEW k \in Jobs, Steady(k)'
          PROVE  Holds(k)'
      <3>1. Steady(k) /\ Holds(k)
        BY <2>1, <2>2 DEF Steady, LockInv
      <3>2. nap[k] > 0
        BY <1>2, <1>12, <3>1 DEF Tick, Due, Steady
      <3>3. left > nap[k]
        BY <1>1, <3>1, SomeLeft
      <3>4. holder' = holder /\ left' = left - 1 /\ nap'[k] = nap[k] - 1
        BY <1>2, <1>12, <3>2, <3>3 DEF Tick, Waking, Less
      <3>5. (missed[k] + 1) * Period \in Nat
        BY <1>2, LockAssumption
      <3>6. QED
        BY <1>2, <2>1, <3>1, <3>4, <3>5 DEF Holds
    <2>3. QED
      BY <1>1, <2>1, <2>2 DEF LockInv
  <1>13. QED
    BY <1>4, <1>5, <1>6, <1>7, <1>8, <1>9, <1>10, <1>11, <1>12 DEF Next, JobStep

\* Two chat jobs are at work on the conversation (ThreadLock.held, guard, _keep) only while one of
\* them has failed to refresh its lock twice in a row, or has learnt that it lost it.
THEOREM ExclusiveHolds == Spec => []Exclusive
  <1>1. Init => LockInv
    BY InitType DEF Init, LockInv, Steady, Working
  <1>2. LockInv /\ [Next]_vars => LockInv'
    BY LockNext
  <1>3. LockInv => Exclusive
    <2>1. ASSUME LockInv, NEW j \in Jobs, NEW k \in Jobs, j # k,
                 pc[j] \in Working, pc[k] \in Working
          PROVE  \E i \in {j, k} : i \in lost \/ missed[i] > 1
      <3>1. ~Steady(j) \/ ~Steady(k)
        BY <2>1 DEF LockInv, Holds
      <3>2. missed[j] \in Nat /\ missed[k] \in Nat
        BY <2>1, LockAssumption DEF LockInv, TypeOK
      <3>3. QED
        BY <2>1, <3>1, <3>2 DEF Steady
    <2>2. QED
      BY <2>1 DEF Exclusive
  <1>4. QED
    BY <1>1, <1>2, <1>3, PTL DEF Spec

-----------------------------------------------------------------------------
(* Nobody's lock is taken *)

\* A key has some of its TTL left, and the token in it is that of a job past its last poll.
KeyInv ==
    /\ TypeOK
    /\ holder # NoJob => left > 0 /\ pc[holder] \notin {"idle", "waiting"}

LEMMA KeyNext ==
  ASSUME KeyInv, [Next]_vars
  PROVE  KeyInv'
  <1>1. TypeOK /\ TypeOK'
    BY NextType DEF KeyInv
  <1>2. left \in Nat /\ left' \in Nat /\ Ttl \in Nat /\ Ttl > 0
    BY <1>1, LockAssumption DEF TypeOK, Ttl
  <1>3. CASE UNCHANGED vars
    BY <1>1, <1>3 DEF vars, KeyInv
  <1>4. ASSUME NEW j \in Jobs, Start(j)
        PROVE  KeyInv'
    BY <1>1, <1>4 DEF Start, KeyInv, TypeOK, key
  <1>5. ASSUME NEW j \in Jobs, Poll(j) \/ PollFails(j)
        PROVE  KeyInv'
    <2>1. /\ pc[j] = "waiting"
          /\ \E stage \in {"working", "waiting", "busy", "failed"} :
               pc' = [pc EXCEPT ![j] = stage] /\ (Take(j) => stage # "waiting")
      <3>1. CASE PollFails(j)
        BY <1>5, <3>1 DEF PollFails
      <3>2. CASE Poll(j) /\ holder = NoJob
        BY <3>2 DEF Poll
      <3>3. CASE Poll(j) /\ holder # NoJob
        <4>1. pc' = pc \/ pc' = [pc EXCEPT ![j] = "busy"]
          BY <3>3 DEF Poll
        <4>2. ~Take(j)
          <5>1. holder' = holder /\ holder # j
            BY <3>3, <1>1 DEF Poll, key, KeyInv
          <5>2. QED
            BY <5>1 DEF Take
        <4>3. pc' = [pc EXCEPT ![j] = pc'[j]] /\ pc'[j] \in {"waiting", "busy"} /\ pc[j] = "waiting"
          BY <1>1, <3>3, <4>1 DEF Poll, TypeOK
        <4>4. QED
          BY <4>2, <4>3
      <3>4. QED
        BY <1>5, <3>1, <3>2, <3>3
    <2>2. Take(j) \/ UNCHANGED key
      BY <1>5 DEF Poll, PollFails
    <2>3. CASE Take(j)
      BY <1>1, <1>2, <2>1, <2>3 DEF Take, KeyInv, TypeOK
    <2>4. CASE UNCHANGED key
      BY <1>1, <2>1, <2>4 DEF KeyInv, TypeOK, key
    <2>5. QED
      BY <2>2, <2>3, <2>4
  <1>6. ASSUME NEW j \in Jobs, Refresh(j) \/ RefreshFails(j)
        PROVE  KeyInv'
    <2>1. UNCHANGED <<holder, pc>> /\ left' \in {left, Ttl}
      BY <1>6 DEF Refresh, RefreshFails
    <2>2. QED
      BY <1>1, <1>2, <2>1 DEF KeyInv
  <1>7. ASSUME NEW j \in Jobs, Finish(j) \/ Cancel(j) \/ Unwind(j) \/ Release(j) \/ ReleaseFails(j) \/ Crash(j)
        PROVE  KeyInv'
    <2>1. \E stage \in Stages \ {"idle", "waiting"} : pc' = [pc EXCEPT ![j] = stage]
      BY <1>7 DEF Finish, Cancel, Unwind, Release, ReleaseFails, Crash, Stages
    <2>2. UNCHANGED key \/ holder' = NoJob
      BY <1>7 DEF Finish, Cancel, Unwind, Release, ReleaseFails, Crash
    <2>3. QED
      BY <1>1, <2>1, <2>2 DEF KeyInv, TypeOK, key
  <1>8. CASE Tick
    BY <1>1, <1>2, <1>8 DEF Tick, Waking, KeyInv
  <1>9. QED
    BY <1>3, <1>4, <1>5, <1>6, <1>7, <1>8 DEF Next, JobStep

LEMMA KeyInvHolds == Spec => []KeyInv
  <1>1. Init => KeyInv
    BY InitType DEF Init, KeyInv
  <1>2. QED
    BY <1>1, KeyNext, PTL DEF Spec

\* A key leaves its holder (ThreadLock._release, the TTL) only in the last unit of its TTL or while
\* its holder is giving it back: neither a poll nor a late release takes another job's lock.
THEOREM NoTheftHolds == Spec => NoTheft
  <1>1. ASSUME KeyInv, [Next]_vars
        PROVE  [holder # NoJob /\ holder' # holder =>
                  left = 1 \/ pc[holder] \in {"releasing", "yielding"}]_vars
    <2>1. SUFFICES ASSUME Next, holder # NoJob, holder' # holder
                   PROVE  left = 1 \/ pc[holder] \in {"releasing", "yielding"}
      BY <1>1
    <2>2. left \in Nat /\ left > 0
      BY <1>1, <2>1, LockAssumption DEF KeyInv, TypeOK, Ttl
    <2>3. CASE Tick
      BY <2>1, <2>2, <2>3 DEF Tick
    <2>4. ASSUME NEW j \in Jobs, Release(j) \/ ReleaseFails(j)
          PROVE  pc[holder] \in {"releasing", "yielding"}
      BY <2>1, <2>4 DEF Release, ReleaseFails, key
    <2>5. ASSUME NEW j \in Jobs,
                 \/ Start(j) \/ Poll(j) \/ PollFails(j) \/ Refresh(j) \/ RefreshFails(j)
                 \/ Finish(j) \/ Cancel(j) \/ Unwind(j) \/ Crash(j)
          PROVE  FALSE
      BY <2>1, <2>5 DEF Start, Poll, PollFails, Refresh, RefreshFails, Finish, Cancel, Unwind, Crash, key
    <2>6. QED
      BY <2>1, <2>3, <2>4, <2>5 DEF Next, JobStep
  <1>2. QED
    BY <1>1, KeyInvHolds, PTL DEF Spec, NoTheft

-----------------------------------------------------------------------------
(* Who gives up waiting *)

\* The key a job found and nobody has taken since is a dead job's: nobody refreshes it, and it
\* expires before the job's patience does.
Outwaited(j) == holder # NoJob => ~Live(holder) /\ left <= patience[j]

WaitInv ==
    /\ KeyInv
    /\ \A j \in Jobs : pc[j] = "waiting" /\ j \notin behind => Outwaited(j)
    /\ BusyBehindAJob

LEMMA WaitNext ==
  ASSUME Wait >= Ttl, WaitInv, [Next]_vars
  PROVE  WaitInv'
  <1>1. KeyInv /\ KeyInv' /\ TypeOK /\ TypeOK'
    BY KeyNext DEF WaitInv, KeyInv
  <1>2. left \in Nat /\ left' \in Nat /\ left <= Ttl /\ Ttl \in Nat /\ Wait \in Nat
    BY <1>1, LockAssumption DEF TypeOK, Ttl
  <1>3. \A j \in Jobs : patience[j] \in Nat /\ patience'[j] \in Nat
    BY <1>1, LockAssumption DEF TypeOK
  <1>4. CASE UNCHANGED vars
    BY <1>1, <1>4 DEF vars, WaitInv, Outwaited, Live, BusyBehindAJob
  <1>5. ASSUME NEW j \in Jobs, Start(j)
        PROVE  WaitInv'
    <2>1. /\ pc' = [pc EXCEPT ![j] = "waiting"] /\ patience' = [patience EXCEPT ![j] = Wait]
          /\ UNCHANGED <<holder, left>> /\ behind \subseteq behind'
          /\ pc[j] = "idle"
      BY <1>5 DEF Start, key
    <2>2. holder # NoJob => holder # j /\ (Live(holder)' <=> Live(holder))
      BY <1>1, <2>1 DEF KeyInv, TypeOK, Live
    <2>3. ASSUME NEW k \in Jobs, pc'[k] = "waiting", k \notin behind'
          PROVE  Outwaited(k)'
      <3>1. CASE k = j
        <4>1. holder # NoJob => ~Live(holder)
          BY <1>5, <2>3, <3>1 DEF Start
        <4>2. patience'[j] = Wait
          BY <1>1, <2>1 DEF TypeOK
        <4>3. QED
          BY <1>2, <2>1, <2>2, <3>1, <4>1, <4>2 DEF Outwaited
      <3>2. CASE k # j
        BY <1>1, <2>1, <2>2, <2>3, <3>2 DEF WaitInv, Outwaited, TypeOK
      <3>3. QED
        BY <3>1, <3>2
    <2>4. BusyBehindAJob'
      BY <1>1, <2>1 DEF WaitInv, BusyBehindAJob, TypeOK
    <2>5. QED
      BY <1>1, <2>3, <2>4 DEF WaitInv
  <1>6. ASSUME NEW j \in Jobs, Take(j), UNCHANGED patience, pc[j] = "waiting",
               NEW stage \in {"working", "failed"}, pc' = [pc EXCEPT ![j] = stage]
        PROVE  WaitInv'
    <2>1. \A k \in Jobs : pc'[k] = "waiting" => k \in behind'
      BY <1>1, <1>6 DEF Take, TypeOK
    <2>2. BusyBehindAJob'
      BY <1>1, <1>6 DEF WaitInv, BusyBehindAJob, Take, TypeOK
    <2>3. QED
      BY <1>1, <2>1, <2>2 DEF WaitInv
  <1>7. ASSUME NEW j \in Jobs, UNCHANGED <<key, patience, behind>>,
               NEW stage \in Stages \ {"idle", "waiting"}, pc' = [pc EXCEPT ![j] = stage],
               holder = j => Live(j), stage = "busy" => j \in behind,
               stage \in Working \cup {"releasing", "yielding"} => Live(j)
        PROVE  WaitInv'
    <2>1. holder # NoJob /\ Live(holder)' => Live(holder)
      BY <1>1, <1>7 DEF TypeOK, Live, key
    <2>2. \A k \in Jobs : pc'[k] = "waiting" => pc[k] = "waiting"
      BY <1>1, <1>7 DEF TypeOK
    <2>3. \A k \in Jobs : pc'[k] = "waiting" /\ k \notin behind' => Outwaited(k)'
      BY <1>7, <2>1, <2>2 DEF WaitInv, Outwaited, key
    <2>4. BusyBehindAJob'
      BY <1>1, <1>7 DEF WaitInv, BusyBehindAJob, TypeOK
    <2>5. QED
      BY <1>1, <2>3, <2>4 DEF WaitInv
  <1>8. ASSUME NEW j \in Jobs, Poll(j)
        PROVE  WaitInv'
    <2>1. CASE holder = NoJob
      BY <1>6, <1>8, <2>1 DEF Poll
    <2>2. CASE holder # NoJob /\ patience[j] > 0
      <3>1. UNCHANGED <<key, pc, behind, patience>>
        BY <1>3, <1>8, <2>2 DEF Poll
      <3>2. QED
        BY <1>1, <3>1 DEF WaitInv, Outwaited, Live, BusyBehindAJob, key
    <2>3. CASE holder # NoJob /\ patience[j] = 0
      <3>1. UNCHANGED <<key, patience, behind>> /\ pc' = [pc EXCEPT ![j] = "busy"] /\ pc[j] = "waiting"
        BY <1>8, <2>3 DEF Poll
      <3>2. j \in behind
        BY <1>1, <1>2, <2>3, <3>1 DEF WaitInv, Outwaited, KeyInv
      <3>3. holder # j
        BY <1>1, <3>1, LockAssumption DEF KeyInv
      <3>4. QED
        BY <1>7, <3>1, <3>2, <3>3 DEF Stages, Working
    <2>4. QED
      BY <1>3, <2>1, <2>2, <2>3
  <1>9. ASSUME NEW j \in Jobs, PollFails(j)
        PROVE  WaitInv'
    <2>1. holder # j
      BY <1>1, <1>9, LockAssumption DEF KeyInv, PollFails
    <2>2. CASE Take(j)
      BY <1>6, <1>9, <2>2 DEF PollFails
    <2>3. CASE UNCHANGED <<key, behind>>
      BY <1>7, <1>9, <2>1, <2>3 DEF PollFails, Stages, Working
    <2>4. QED
      BY <1>9, <2>2, <2>3 DEF PollFails
  <1>10. ASSUME NEW j \in Jobs, Refresh(j) \/ RefreshFails(j)
         PROVE  WaitInv'
    <2>1. UNCHANGED <<holder, pc, patience, behind>> /\ (holder # j => left' = left) /\ Live(j)
      BY <1>10 DEF Refresh, RefreshFails, Live
    <2>2. \A k \in Jobs : pc'[k] = "waiting" /\ k \notin behind' => Outwaited(k)'
      BY <2>1 DEF WaitInv, Outwaited, Live
    <2>3. QED
      BY <1>1, <2>1, <2>2 DEF WaitInv, BusyBehindAJob
  <1>11. ASSUME NEW j \in Jobs, Finish(j) \/ Cancel(j) \/ Unwind(j)
         PROVE  WaitInv'
    <2>1. Live(j)
      BY <1>11 DEF Finish, Cancel, Unwind, Live, Working
    <2>2. UNCHANGED <<key, patience, behind>>
      BY <1>11 DEF Finish, Cancel, Unwind
    <2>3. \E stage \in {"releasing", "cancelling", "yielding"} : pc' = [pc EXCEPT ![j] = stage]
      BY <1>11 DEF Finish, Cancel, Unwind
    <2>4. QED
      BY <1>7, <2>1, <2>2, <2>3 DEF Stages
  <1>12. ASSUME NEW j \in Jobs, Release(j) \/ ReleaseFails(j) \/ Crash(j)
         PROVE  WaitInv'
    <2>1. \E stage \in {"done", "stopped", "failed", "crashed"} : pc' = [pc EXCEPT ![j] = stage]
      BY <1>12 DEF Release, ReleaseFails, Crash
    <2>2. UNCHANGED <<patience, behind>>
      BY <1>12 DEF Release, ReleaseFails, Crash
    <2>3. pc[j] = "waiting" \/ Live(j)
      BY <1>12 DEF Release, ReleaseFails, Crash, Live
    <2>4. CASE UNCHANGED key
      <3>1. holder = j => Live(j)
        BY <1>1, <2>3, LockAssumption DEF KeyInv
      <3>2. QED
        BY <1>7, <2>1, <2>2, <2>4, <3>1 DEF Stages, Working
    <2>5. CASE holder' = NoJob
      <3>1. BusyBehindAJob'
        BY <1>1, <2>1, <2>2 DEF WaitInv, BusyBehindAJob, TypeOK
      <3>2. QED
        BY <1>1, <2>5, <3>1 DEF WaitInv, Outwaited
    <2>6. QED
      BY <1>12, <2>4, <2>5 DEF Release, ReleaseFails, Crash
  <1>13. CASE Tick
    <2>1. UNCHANGED <<pc, behind>> /\ patience' = Less(patience)
      BY <1>13 DEF Tick, Waking
    <2>2. ASSUME NEW k \in Jobs, pc'[k] = "waiting", k \notin behind', holder' # NoJob
          PROVE  ~Live(holder)' /\ left' <= patience'[k]
      <3>1. holder' = holder /\ left > 1 /\ left' = left - 1
        BY <1>2, <1>13, <2>2 DEF Tick
      <3>2. ~Live(holder) /\ left <= patience[k]
        BY <2>1, <2>2, <3>1 DEF WaitInv, Outwaited
      <3>3. patience'[k] = patience[k] - 1
        BY <1>2, <1>3, <2>1, <3>1, <3>2 DEF Less
      <3>4. QED
        BY <1>2, <1>3, <2>1, <3>1, <3>2, <3>3 DEF Live
    <2>3. QED
      BY <1>1, <2>1, <2>2 DEF WaitInv, Outwaited, BusyBehindAJob
  <1>14. QED
    BY <1>4, <1>5, <1>8, <1>9, <1>10, <1>11, <1>12, <1>13 DEF Next, JobStep

\* With a wait no shorter than the TTL (the settings' defaults, 30 s each), a chat job fails
\* THREAD_BUSY (ThreadLock.acquire) only if another job held or took the lock while it waited: what a
\* dead worker or a lost reply left behind always expires first.
THEOREM BusyBehindAJobHolds == Wait >= Ttl => (Spec => []BusyBehindAJob)
  <1>1. SUFFICES ASSUME Wait >= Ttl
                 PROVE  Spec => []BusyBehindAJob
    OBVIOUS
  <1>2. Init => WaitInv
    BY InitType DEF Init, WaitInv, KeyInv, BusyBehindAJob
  <1>3. WaitInv /\ [Next]_vars => WaitInv'
    BY <1>1, WaitNext
  <1>4. WaitInv => BusyBehindAJob
    BY DEF WaitInv
  <1>5. QED
    BY <1>2, <1>3, <1>4, PTL DEF Spec

=============================================================================
