----------------------------- MODULE KeptProofs -----------------------------
(***************************************************************************)
(* Proofs about MCSoul: the soul rows of an investor (Soul), and its parts,*)
(* what the desk keeps of an investor and the nightly backup of it, for    *)
(* any numbers of proposals, writers, rows, memories, turns and runs.      *)
(*                                                                         *)
(* Of Soul: type correctness, at most one active soul, no approval that    *)
(* undoes a newer soul, and the cap on what waits for a decision.  SoulInv *)
(* adds to the type invariant what the persona lock gives: only its holder *)
(* changes which row is active, so what a transaction read under the lock  *)
(* is still so when it writes; CapInv says the same of the proposals it    *)
(* counted.  Each part has an inductive invariant of its own, for only one *)
(* of them runs.                                                           *)
(***************************************************************************)
EXTENDS MCSoul, FiniteSetTheorems, WellFoundedInduction, TLAPS

-----------------------------------------------------------------------------
(* Soul *)

\* The active soul changes only with the rows that are active.
LEMMA SameActive ==
    ASSUME ActiveRows' = ActiveRows
    PROVE  Active' = Active
BY DEF Active

\* With at most one active row, an active row is the active soul.
LEMMA ActiveIsUnique ==
    ASSUME TypeOK, OneActive, NEW p \in Proposals, status[p] = "active"
    PROVE  Active = p
<1>1. p \in ActiveRows
    BY DEF ActiveRows
<1>2. PICK q \in ActiveRows : Active = q
    BY <1>1 DEF Active
<1>3. q \in Proposals /\ status[q] = "active"
    BY <1>2 DEF ActiveRows
<1> QED
    BY <1>2, <1>3 DEF OneActive

\* A soul that is a row is an active one.
LEMMA ActiveIsActive ==
    ASSUME TypeOK
    PROVE  Active = NoSoul \/ (Active \in Proposals /\ status[Active] = "active")
<1>1. CASE ActiveRows = {}
    BY <1>1 DEF Active
<1>2. CASE ActiveRows # {}
    <2>1. PICK q \in ActiveRows : Active = q
        BY <1>2 DEF Active
    <2> QED
        BY <2>1 DEF ActiveRows
<1> QED
    BY <1>1, <1>2

\* A step that leaves the rows alone leaves the active soul alone.
LEMMA SameRows ==
    ASSUME UNCHANGED status
    PROVE  Active' = Active
<1>1. ActiveRows' = ActiveRows
    BY DEF ActiveRows
<1> QED
    BY <1>1, SameActive

\* Every step of the module keeps its invariant.
LEMMA InvStep == SoulInv /\ [Next]_vars => SoulInv'
<1> SUFFICES ASSUME SoulInv, [Next]_vars
             PROVE  SoulInv'
    OBVIOUS
<1> USE SoulAssumption
<1> USE DEF SoulInv
<1>1. ASSUME NEW t \in Turns, Propose(t)
      PROVE  SoulInv'
    <2>1. Active' = Active
        BY <1>1, SameRows DEF Propose, rows
    <2> QED
        BY <1>1, <2>1 DEF Propose, At, GoTo, rows, TypeOK, OneActive, Reads, Turn, Statements, Souls
<1>2. ASSUME NEW t \in Turns, LockPropose(t)
      PROVE  SoulInv'
    <2>1. Active' = Active
        BY <1>2, SameRows DEF LockPropose, rows
    <2> QED
        BY <1>2, <2>1 DEF LockPropose, Lock, At, GoTo, rows, TypeOK, OneActive, Reads, Turn,
                          Statements, Souls
<1>3. ASSUME NEW t \in Turns, Count(t)
      PROVE  SoulInv'
    <2>1. Active' = Active
        BY <1>3, SameRows DEF Count, rows
    <2> QED
        BY <1>3, <2>1 DEF Count, Unlock, End, Rest, At, GoTo, rows, TypeOK, OneActive, Reads, Turn,
                          Statements, Souls
<1>4. ASSUME NEW t \in Turns, Current(t)
      PROVE  SoulInv'
    <2>1. Active' = Active
        BY <1>4, SameRows DEF Current, rows
    <2>2. Active \in Souls
        BY ActiveIsActive DEF Souls
    <2> QED
        BY <1>4, <2>1, <2>2 DEF Current, At, rows, TypeOK, OneActive, Reads, Turn, Statements, Souls
<1>5. ASSUME NEW t \in Turns, NEW p \in Proposals, Insert(t, p)
      PROVE  SoulInv'
    <2>1. ActiveRows' = ActiveRows
        BY <1>5 DEF Insert, ActiveRows, TypeOK
    <2>2. Active' = Active
        BY <2>1, SameActive
    <2> QED
        BY <1>5, <2>2 DEF Insert, Unlock, End, Rest, At, TypeOK, OneActive, Reads, Turn,
                          Statements, Souls
<1>6. ASSUME NEW t \in Turns, NEW p \in Proposals,
             Decide(t, p, "matchApprove") \/ Decide(t, p, "matchReject")
      PROVE  SoulInv'
    <2>1. Active' = Active
        BY <1>6, SameRows DEF Decide, rows
    <2> QED
        BY <1>6, <2>1 DEF Decide, At, rows, TypeOK, OneActive, Reads, Turn, Statements, Souls
<1>7. ASSUME NEW t \in Turns, Match(t)
      PROVE  SoulInv'
    <2>1. Active' = Active
        BY <1>7, SameRows DEF Match, rows
    <2> QED
        BY <1>7, <2>1 DEF Match, End, Rest, At, GoTo, rows, TypeOK, OneActive, Reads, Turn,
                          Statements, Souls
<1>8. ASSUME NEW t \in Turns, LockApprove(t)
      PROVE  SoulInv'
    <2>1. Active' = Active
        BY <1>8, SameRows DEF LockApprove, rows
    <2> QED
        BY <1>8, <2>1 DEF LockApprove, Lock, At, GoTo, rows, TypeOK, OneActive, Reads, Turn,
                          Statements, Souls
<1>9. ASSUME NEW t \in Turns, Find(t)
      PROVE  SoulInv'
    <2>1. Active' = Active
        BY <1>9, SameRows DEF Find, rows
    <2> QED
        BY <1>9, <2>1 DEF Find, Unlock, End, Rest, At, GoTo, rows, TypeOK, OneActive, Reads, Turn,
                          Statements, Souls
<1>10. ASSUME NEW t \in Turns, Compare(t)
       PROVE  SoulInv'
    <2>1. Active' = Active
        BY <1>10, SameRows DEF Compare, rows
    <2>2. Active \in Souls
        BY ActiveIsActive DEF Souls
    <2> QED
        BY <1>10, <2>1, <2>2 DEF Compare, Unlock, End, Rest, At, rows, TypeOK, OneActive, Reads,
                                 Turn, Statements, Souls
<1>11. ASSUME NEW t \in Turns, Apply(t)
       PROVE  SoulInv'
    <2> DEFINE p == turn[t].row
    <2>1. p \in Proposals /\ turn[t].soul = Active /\ lock = t
        BY <1>11 DEF Apply, At, Reads
    <2>2. \A q \in Proposals : status[q] = "active" => q = turn[t].soul
        BY <2>1, ActiveIsUnique
    <2>3. \A q \in Proposals : status'[q] = "active" <=> q = p
        BY <1>11, <2>1, <2>2 DEF Apply, TypeOK
    <2>4. TypeOK'
        BY <1>11, <2>1 DEF Apply, Unlock, End, Rest, TypeOK, Turn, Statements, Souls
    <2>5. OneActive'
        BY <2>3 DEF OneActive
    <2>6. \A s \in Turns : Reads(s)'
        <3> SUFFICES ASSUME NEW s \in Turns
                     PROVE  Reads(s)'
            OBVIOUS
        <3>1. CASE s = t
            BY <1>11, <3>1 DEF Apply, End, Rest, Reads, TypeOK
        <3>2. CASE s # t
            <4>1. turn'[s] = turn[s] /\ lock # s
                BY <1>11, <2>1, <3>2 DEF Apply, End, TypeOK
            <4> QED
                BY <4>1 DEF Reads
        <3> QED
            BY <3>1, <3>2
    <2> QED
        BY <2>4, <2>5, <2>6
<1>12. ASSUME NEW t \in Turns, Reject(t)
       PROVE  SoulInv'
    <2>1. ActiveRows' = ActiveRows
        BY <1>12 DEF Reject, ActiveRows, At, Reads, TypeOK
    <2>2. Active' = Active
        BY <2>1, SameActive
    <2> QED
        BY <1>12, <2>2 DEF Reject, End, Rest, At, TypeOK, OneActive, Reads, Turn, Statements, Souls
<1>13. ASSUME NEW t \in Turns, Abort(t)
       PROVE  SoulInv'
    <2>1. Active' = Active
        BY <1>13, SameRows DEF Abort, rows
    <2> QED
        BY <1>13, <2>1 DEF Abort, Unlock, End, Rest, At, rows, TypeOK, OneActive, Reads, Turn,
                           Statements, Souls
<1>14. ASSUME NEW p \in Proposals, Age(p)
       PROVE  SoulInv'
    <2>1. Active' = Active
        BY <1>14, SameRows DEF Age
    <2> QED
        BY <1>14, <2>1 DEF Age, TypeOK, OneActive, Reads, Turn, Statements, Souls
<1>15. CASE UNCHANGED vars
    <2>1. Active' = Active
        BY <1>15, SameRows DEF vars
    <2> QED
        BY <1>15, <2>1 DEF vars, TypeOK, OneActive, Reads
<1> QED
    BY <1>1, <1>2, <1>3, <1>4, <1>5, <1>6, <1>7, <1>8, <1>9, <1>10, <1>11, <1>12, <1>13, <1>14,
       <1>15 DEF Next

\* The initial states satisfy the invariant.
LEMMA InvInit == Init => SoulInv
BY SoulAssumption
   DEF Init, SoulInv, TypeOK, OneActive, Reads, Rest, Turn, Statements, Souls

\* Every reachable state satisfies the invariant.
THEOREM SoulInvariance == Spec => []SoulInv
<1> QED
    BY InvInit, InvStep, PTL DEF Spec

\* Every variable keeps its type.
THEOREM SoulTypeCorrect == Spec => []TypeOK
<1>1. SoulInv => TypeOK
    BY DEF SoulInv
<1> QED
    BY SoulInvariance, <1>1, PTL

\* At most one soul is active, however approvals, proposals and rejections interleave: the unique
\* index of the table never refuses an approval.
THEOREM OneActiveHolds == Spec => []OneActive
<1>1. SoulInv => OneActive
    BY DEF SoulInv
<1> QED
    BY SoulInvariance, <1>1, PTL

\* An approval replaces the soul its proposal was written against, so an old proposal never undoes
\* a newer soul.
THEOREM NeverUndoneHolds == Spec => NeverUndone
<1> DEFINE Undoes == \A p \in Proposals : status[p] # "active" /\ status'[p] = "active" =>
                        supersedes[p] = Active
<1>1. SoulInv /\ [Next]_vars => [Undoes]_vars
    <2> SUFFICES ASSUME SoulInv, Next, NEW p \in Proposals,
                        status[p] # "active", status'[p] = "active"
                 PROVE  supersedes[p] = Active
        BY DEF vars
    <2>1. PICK t \in Turns : Apply(t) /\ turn[t].row = p
        <3>1. ASSUME NEW t \in Turns, Apply(t)
              PROVE  turn[t].row = p
            BY <3>1 DEF Apply, SoulInv, TypeOK
        <3>2. ASSUME NEW t \in Turns, Reject(t)
              PROVE  FALSE
            BY <3>2 DEF Reject, SoulInv, TypeOK
        <3>3. ASSUME NEW t \in Turns, NEW q \in Proposals, Insert(t, q)
              PROVE  FALSE
            BY <3>3 DEF Insert, SoulInv, TypeOK
        <3>4. \A t \in Turns : \/ Propose(t) \/ LockPropose(t) \/ Count(t) \/ Current(t)
                               \/ Match(t) \/ LockApprove(t) \/ Find(t) \/ Compare(t) \/ Abort(t)
                               => FALSE
            BY DEF Propose, LockPropose, Count, Current, Match, LockApprove, Find, Compare,
                   Abort, rows
        <3>5. \A t \in Turns, q \in Proposals :
                 Decide(t, q, "matchApprove") \/ Decide(t, q, "matchReject") \/ Age(q) => FALSE
            BY DEF Decide, Age, rows
        <3>6. \A q \in Proposals : Age(q) => FALSE
            BY DEF Age
        <3> QED
            BY <3>1, <3>2, <3>3, <3>4, <3>5, <3>6 DEF Next
    <2> QED
        BY <2>1 DEF Apply, At, SoulInv, Reads
<1> QED
    BY SoulInvariance, <1>1, PTL DEF Spec, NeverUndone

-----------------------------------------------------------------------------
(* The cap *)

\* Until the lock's holder inserts, what it counted only shrinks.
Counted(t) == turn[t].next \in {"current", "insert"} => Cardinality(Pending) < MaxPending

CapInv ==
    /\ SoulInv
    /\ IsFiniteSet(Pending)
    /\ PendingCapped
    /\ \A t \in Turns : Counted(t)

\* A step after which no more proposals wait, and which nobody's count is over but one that found
\* room, keeps the cap.
LEMMA CapShrinks ==
    ASSUME CapInv, SoulInv', Pending' \subseteq Pending,
           \A t \in Turns : turn'[t].next \in {"current", "insert"} =>
               turn[t].next \in {"current", "insert"} \/ Cardinality(Pending) < MaxPending
    PROVE  CapInv'
<1>1. IsFiniteSet(Pending') /\ Cardinality(Pending') <= Cardinality(Pending)
    BY FS_Subset DEF CapInv
<1>2. Cardinality(Pending) \in Nat /\ Cardinality(Pending') \in Nat /\ MaxPending \in Nat
    BY <1>1, FS_CardinalityType, SoulAssumption DEF CapInv
<1>3. \A t \in Turns : Counted(t)'
    BY <1>1, <1>2 DEF CapInv, Counted
<1> QED
    BY <1>1, <1>2, <1>3 DEF CapInv, PendingCapped

\* Every step keeps the cap; only an insert lets one more proposal wait.
LEMMA CapStep == CapInv /\ [Next]_vars => CapInv'
<1> SUFFICES ASSUME CapInv, [Next]_vars
             PROVE  CapInv'
    OBVIOUS
<1>1. SoulInv /\ SoulInv' /\ TypeOK /\ TypeOK' /\ MaxPending \in Nat /\ Cardinality(Pending) \in Nat
    BY InvStep, FS_CardinalityType, SoulAssumption DEF CapInv, SoulInv
<1>2. ASSUME NEW t \in Turns, NEW p \in Proposals, Insert(t, p)
      PROVE  CapInv'
    <2>1. Pending' \subseteq Pending \cup {p}
        BY <1>1, <1>2 DEF Insert, Pending, TypeOK
    <2>2. /\ IsFiniteSet(Pending \cup {p})
          /\ Cardinality(Pending \cup {p}) <= Cardinality(Pending) + 1
          /\ Cardinality(Pending \cup {p}) \in Nat
        BY <1>1, FS_AddElement, FS_CardinalityType DEF CapInv
    <2>3. /\ IsFiniteSet(Pending') /\ Cardinality(Pending') \in Nat
          /\ Cardinality(Pending') <= Cardinality(Pending) + 1
        BY <1>1, <2>1, <2>2, FS_Subset, FS_CardinalityType
    <2>4. Cardinality(Pending) < MaxPending /\ lock = t
        BY <1>1, <1>2 DEF Insert, At, CapInv, Counted, SoulInv, Reads
    <2>5. \A s \in Turns : turn'[s].next \notin {"current", "insert"}
        <3>1. turn'[t].next = "idle"
            BY <1>1, <1>2 DEF Insert, End, Rest, TypeOK
        <3>2. \A s \in Turns \ {t} : turn'[s] = turn[s] /\ lock # s
            BY <1>1, <1>2, <2>4 DEF Insert, End, TypeOK
        <3> QED
            BY <1>1, <3>1, <3>2 DEF SoulInv, Reads
    <2>6. PendingCapped'
        BY <1>1, <2>3, <2>4 DEF PendingCapped
    <2> QED
        BY <1>1, <2>3, <2>5, <2>6 DEF CapInv, Counted
<1>3. ASSUME NEW t \in Turns,
             \/ Propose(t) \/ LockPropose(t) \/ Count(t) \/ Current(t) \/ Match(t) \/ LockApprove(t)
             \/ Find(t) \/ Compare(t) \/ Abort(t)
      PROVE  CapInv'
    <2>1. UNCHANGED rows
        BY <1>3 DEF Propose, LockPropose, Count, Current, Match, LockApprove, Find, Compare, Abort
    <2>2. Pending' = Pending
        BY <2>1 DEF rows, Pending
    <2>3. \A s \in Turns \ {t} : turn'[s] = turn[s]
        BY <1>1, <1>3 DEF Propose, LockPropose, Count, Current, Match, LockApprove, Find, Compare,
                          Abort, GoTo, End, TypeOK
    <2>4. turn'[t].next \in {"current", "insert"} =>
            turn[t].next \in {"current", "insert"} \/ Cardinality(Pending) < MaxPending
        <3>1. CASE Count(t)
            BY <1>1, <3>1 DEF Count, GoTo, End, Rest, TypeOK, Turn
        <3>2. CASE Current(t)
            BY <3>2 DEF Current, At
        <3>3. CASE \/ Propose(t) \/ LockPropose(t) \/ Match(t) \/ LockApprove(t)
                   \/ Find(t) \/ Compare(t) \/ Abort(t)
            BY <1>1, <3>3 DEF Propose, LockPropose, Match, LockApprove, Find, Compare, Abort, GoTo,
                              End, Rest, TypeOK, Turn
        <3> QED
            BY <1>3, <3>1, <3>2, <3>3
    <2> QED
        BY <1>1, <2>2, <2>3, <2>4, CapShrinks
<1>4. ASSUME NEW t \in Turns, Apply(t) \/ Reject(t)
      PROVE  CapInv'
    <2>1. \A p \in Proposals : status'[p] = "proposed" => status[p] = "proposed"
        BY <1>1, <1>4 DEF Apply, Reject, TypeOK
    <2>2. Pending' \subseteq Pending
        BY <1>4, <2>1 DEF Pending, Apply, Reject
    <2>3. \A s \in Turns : turn'[s].next \in {"current", "insert"} => turn'[s] = turn[s]
        BY <1>1, <1>4 DEF Apply, Reject, End, Rest, TypeOK
    <2> QED
        BY <1>1, <2>2, <2>3, CapShrinks
<1>5. ASSUME NEW t \in Turns, NEW p \in Proposals,
             Decide(t, p, "matchApprove") \/ Decide(t, p, "matchReject")
      PROVE  CapInv'
    <2>1. Pending' = Pending
        BY <1>5 DEF Decide, rows, Pending
    <2>2. \A s \in Turns : turn'[s].next \in {"current", "insert"} => turn'[s] = turn[s]
        BY <1>1, <1>5 DEF Decide, TypeOK
    <2> QED
        BY <1>1, <2>1, <2>2, CapShrinks
<1>6. ASSUME NEW p \in Proposals, Age(p)
      PROVE  CapInv'
    <2>1. Pending' \subseteq Pending /\ UNCHANGED turn
        BY <1>6 DEF Age, Pending
    <2> QED
        BY <1>1, <2>1, CapShrinks
<1>7. CASE UNCHANGED vars
    <2>1. Pending' = Pending /\ UNCHANGED turn
        BY <1>7 DEF vars, Pending
    <2> QED
        BY <1>1, <2>1, CapShrinks
<1> QED
    BY <1>2, <1>3, <1>4, <1>5, <1>6, <1>7 DEF Next

\* However many turns propose at once, no more than MaxPending young proposals wait for the investor:
\* the count and the insert of soul.py's propose are under one persona lock.
THEOREM PendingCappedHolds == Spec => []PendingCapped
<1>1. Init => CapInv
    <2>1. Init => Pending = {}
        BY DEF Init, Pending
    <2>2. Init => \A t \in Turns : turn[t].next = "idle"
        BY DEF Init, Rest
    <2> QED
        BY <2>1, <2>2, InvInit, FS_EmptySet, SoulAssumption DEF CapInv, PendingCapped, Counted
<1>2. CapInv => PendingCapped
    BY DEF CapInv
<1> QED
    BY <1>1, <1>2, CapStep, PTL DEF Spec

-----------------------------------------------------------------------------
(* InvestorFacts: the rows of a key *)

\* What a row holds; Live is set apart for the provers, which are at a loss with Boolean fields.
Live(row) == row.active

LEMMA RowFields ==
    ASSUME NEW row \in Facts!Row
    PROVE  /\ row.key \in Facts!Keys /\ row.value \in Facts!Values /\ row.supersedes \in Nat
BY DEF Facts!Row

Retired(row) == [row EXCEPT !.active = FALSE]

LEMMA RetiredRow ==
    ASSUME NEW row \in Facts!Row
    PROVE  /\ Retired(row) \in Facts!Row /\ ~Live(Retired(row))
           /\ Retired(row).key = row.key /\ Retired(row).value = row.value
           /\ Retired(row).supersedes = row.supersedes
<1>1. Retired(row) \in Facts!Row
    BY DEF Retired, Facts!Row
<1>2. Retired(row).key = row.key /\ Retired(row).value = row.value
      /\ Retired(row).supersedes = row.supersedes
    BY DEF Retired, Facts!Row
<1>3. Retired(row).active = FALSE
    BY DEF Retired, Facts!Row
<1> QED
    BY <1>1, <1>2, <1>3 DEF Live

\* Facts!OneChain of any rows, one condition at a time.
Follows(rs, i) ==
    /\ (\A k \in DOMAIN rs : k < i => rs[k].key # rs[i].key) => rs[i].supersedes = 0
    /\ (\E k \in DOMAIN rs : k < i /\ rs[k].key = rs[i].key) =>
         /\ rs[i].supersedes \in DOMAIN rs /\ rs[i].supersedes < i
         /\ rs[rs[i].supersedes].key = rs[i].key
         /\ \A k \in DOMAIN rs : k < i /\ rs[k].key = rs[i].key => k <= rs[i].supersedes
IsLast(rs, i) == \A k \in DOMAIN rs : k > i => rs[k].key # rs[i].key
Chain(rs) == \A i \in DOMAIN rs : Follows(rs, i) /\ (Live(rs[i]) <=> IsLast(rs, i))

\* Some row holds the value of a key that has rows.
Held(rs) == \A i \in DOMAIN rs : \E l \in DOMAIN rs : rs[l].key = rs[i].key /\ Live(rs[l])

Differs(rs) ==
    \A i \in DOMAIN rs : rs[i].supersedes # 0 => rs[rs[i].supersedes].value # rs[i].value

\* The rows a transaction will write are of one key each, and each takes the place of the row that
\* holds its key's value, with another value.
Fits(rs, put) ==
    /\ \A k, h \in DOMAIN put : put[k].key = put[h].key => k = h
    /\ \A k \in DOMAIN put :
         /\ Live(put[k])
         /\ IF put[k].supersedes = 0 THEN \A i \in DOMAIN rs : rs[i].key # put[k].key
            ELSE /\ put[k].supersedes \in DOMAIN rs
                 /\ rs[put[k].supersedes].key = put[k].key /\ Live(rs[put[k].supersedes])
                 /\ rs[put[k].supersedes].value # put[k].value

\* What a commit makes of the rows.
Committed(rs, put) ==
    [i \in DOMAIN rs |->
        IF i \in Facts!Superseded(put) THEN Retired(rs[i]) ELSE rs[i]] \o put

LEMMA CommittedRows ==
    ASSUME NEW rs \in Seq(Facts!Row), NEW put \in Seq(Facts!Row)
    PROVE  /\ Committed(rs, put) \in Seq(Facts!Row)
           /\ Len(Committed(rs, put)) = Len(rs) + Len(put)
           /\ \A i \in 1..Len(rs) :
                /\ Committed(rs, put)[i].key = rs[i].key
                /\ Committed(rs, put)[i].value = rs[i].value
                /\ Committed(rs, put)[i].supersedes = rs[i].supersedes
                /\ i \in Facts!Superseded(put) => ~Live(Committed(rs, put)[i])
                /\ i \notin Facts!Superseded(put) => Committed(rs, put)[i] = rs[i]
           /\ \A k \in 1..Len(put) : Committed(rs, put)[Len(rs) + k] = put[k]
<1> DEFINE mid == [i \in DOMAIN rs |->
                     IF i \in Facts!Superseded(put) THEN Retired(rs[i]) ELSE rs[i]]
<1>1. \A i \in DOMAIN rs :
        /\ mid[i] \in Facts!Row
        /\ mid[i].key = rs[i].key /\ mid[i].value = rs[i].value
        /\ mid[i].supersedes = rs[i].supersedes
        /\ i \in Facts!Superseded(put) => ~Live(mid[i])
        /\ i \notin Facts!Superseded(put) => mid[i] = rs[i]
    BY RetiredRow
<1>2. mid \in Seq(Facts!Row) /\ Len(mid) = Len(rs)
    <2>1. mid \in [1..Len(rs) -> Facts!Row] /\ Len(rs) \in Nat
        BY <1>1
    <2> HIDE DEF mid
    <2> QED
        BY <2>1
<1>3. Committed(rs, put) = mid \o put
    BY DEF Committed
<1> HIDE DEF mid
<1>4. /\ mid \o put \in Seq(Facts!Row) /\ Len(mid \o put) = Len(rs) + Len(put)
      /\ \A i \in DOMAIN rs : (mid \o put)[i] = mid[i]
      /\ \A k \in DOMAIN put : (mid \o put)[Len(rs) + k] = put[k]
    BY <1>2
<1> QED
    BY <1>1, <1>3, <1>4

LEMMA ChainGrows ==
    ASSUME NEW N \in Nat, NEW M \in Nat, NEW rs \in [1..N -> Facts!Row],
           NEW put \in [1..M -> Facts!Row], NEW new \in [1..N + M -> Facts!Row],
           \A i \in 1..N : /\ new[i].key = rs[i].key /\ new[i].value = rs[i].value
                           /\ new[i].supersedes = rs[i].supersedes
                           /\ i \in Facts!Superseded(put) => ~Live(new[i])
                           /\ i \notin Facts!Superseded(put) => new[i] = rs[i],
           \A k \in 1..M : new[N + k] = put[k],
           Chain(rs), Held(rs), Differs(rs), Fits(rs, put)
    PROVE  Chain(new) /\ Held(new) /\ Differs(new)
<1>1. DOMAIN rs = 1..N /\ DOMAIN put = 1..M /\ DOMAIN new = 1..N + M
    OBVIOUS
\* The rows that were there, and those that were not.
<1>2. \A i \in 1..N : /\ i \in 1..N + M /\ new[i].key = rs[i].key /\ new[i].value = rs[i].value
                      /\ new[i].supersedes = rs[i].supersedes
                      /\ (\E k \in 1..M : put[k].supersedes = i) => ~Live(new[i])
                      /\ (\A k \in 1..M : put[k].supersedes # i) => new[i] = rs[i]
    <2>1. \A i \in 1..N : i \in Facts!Superseded(put) <=> \E k \in 1..M : put[k].supersedes = i
        BY DEF Facts!Superseded
    <2> QED
        BY <2>1
<1>3. \A k \in 1..M : \E i \in 1..N + M : i = N + k /\ new[i] = put[k] /\ \A h \in 1..N : h < i
    <2>1. ASSUME NEW k \in 1..M
          PROVE  \E i \in 1..N + M : i = N + k /\ new[i] = put[k] /\ \A h \in 1..N : h < i
        <3>1. PICK i \in 1..N + M : i = N + k /\ \A h \in 1..N : h < i
            OBVIOUS
        <3>2. new[i] = put[k]
            BY <3>1
        <3> QED
            BY <3>1, <3>2
    <2> QED
        BY <2>1
<1>4. \A i \in 1..N + M : i \in 1..N \/ \E k \in 1..M : i = N + k /\ new[i] = put[k]
    <2>1. \A i \in 1..N + M : i \notin 1..N => i - N \in 1..M /\ i = N + (i - N)
        OBVIOUS
    <2> QED
        BY <2>1
<1>5. \A k \in 1..M : put[k].supersedes \in Nat
    <2>1. \A k \in 1..M : put[k] \in Facts!Row
        OBVIOUS
    <2> QED
        BY <2>1, RowFields
\* What Fits says of the rows written.
<1>6. ASSUME NEW k \in 1..M
       PROVE  /\ Live(put[k]) /\ \A h \in 1..M : put[h].key = put[k].key => h = k
              /\ put[k].supersedes = 0 => \A i \in 1..N : rs[i].key # put[k].key
              /\ put[k].supersedes # 0 => \E l \in 1..N :
                    /\ l = put[k].supersedes /\ rs[l].key = put[k].key /\ Live(rs[l])
                    /\ rs[l].value # put[k].value
    <2>1. k \in DOMAIN put
        BY <1>1
    <2>2. Live(put[k]) /\ \A h \in DOMAIN put : put[h].key = put[k].key => h = k
        BY <2>1 DEF Fits
    <2>3. CASE put[k].supersedes = 0
        BY <1>1, <2>1, <2>2, <2>3 DEF Fits
    <2>4. CASE put[k].supersedes # 0
        <3>1. /\ put[k].supersedes \in DOMAIN rs
              /\ rs[put[k].supersedes].key = put[k].key /\ Live(rs[put[k].supersedes])
              /\ rs[put[k].supersedes].value # put[k].value
            BY <2>1, <2>4 DEF Fits
        <3> QED
            BY <1>1, <2>2, <2>4, <3>1
    <2> QED
        BY <2>3, <2>4
\* A row that was there.
<1>7. ASSUME NEW i \in 1..N
      PROVE  Follows(new, i) /\ (Live(new[i]) <=> IsLast(new, i))
    <2>1. Follows(rs, i) /\ (Live(rs[i]) <=> IsLast(rs, i))
        BY <1>1 DEF Chain
    <2>2. \A k \in 1..N + M : k < i => k \in 1..N
        OBVIOUS
    <2>3. Follows(new, i)
        BY <1>1, <1>2, <2>1, <2>2 DEF Follows
    <2>4. CASE \E k \in 1..M : put[k].supersedes = i
        <3>1. PICK k \in 1..M : put[k].supersedes = i
            BY <2>4
        <3>2. rs[i].key = put[k].key
            BY <1>6, <3>1
        <3>3. PICK h \in 1..N + M : h > i /\ new[h] = put[k]
            BY <1>3
        <3>4. ~IsLast(new, i)
            BY <1>1, <1>2, <3>2, <3>3 DEF IsLast
        <3> QED
            BY <1>2, <2>3, <2>4, <3>4
    <2>5. CASE \A k \in 1..M : put[k].supersedes # i
        <3>1. new[i] = rs[i]
            BY <1>2, <2>5
        <3>2. CASE ~Live(rs[i])
            <4>1. PICK k \in 1..N : k > i /\ rs[k].key = rs[i].key
                BY <1>1, <2>1, <3>2 DEF IsLast
            <4>2. k \in 1..N + M /\ k > i /\ new[k].key = new[i].key
                BY <1>2, <4>1
            <4>3. ~IsLast(new, i)
                BY <1>1, <4>2 DEF IsLast
            <4> QED
                BY <2>3, <3>1, <3>2, <4>3
        <3>3. CASE Live(rs[i])
            <4>1. \A k \in 1..M : put[k].key # rs[i].key
                <5>1. SUFFICES ASSUME NEW k \in 1..M, put[k].key = rs[i].key
                               PROVE  FALSE
                    OBVIOUS
                <5>2. put[k].supersedes # 0
                    BY <1>6, <5>1
                <5>3. PICK l \in 1..N : /\ l = put[k].supersedes /\ rs[l].key = rs[i].key
                                        /\ Live(rs[l])
                    BY <1>6, <5>1, <5>2
                <5>4. IsLast(rs, i) /\ IsLast(rs, l)
                    BY <1>1, <2>1, <3>3, <5>3 DEF Chain
                <5>5. l = i
                    BY <1>1, <5>3, <5>4 DEF IsLast
                <5> QED
                    BY <2>5, <5>3, <5>5
            <4>2. \A k \in 1..N : k > i => rs[k].key # rs[i].key
                BY <1>1, <2>1, <3>3 DEF IsLast
            <4>3. \A k \in 1..N + M : k > i => new[k].key # new[i].key
                <5>1. SUFFICES ASSUME NEW k \in 1..N + M, k > i
                               PROVE  new[k].key # rs[i].key
                    BY <3>1
                <5>2. CASE k \in 1..N
                    <6>1. new[k].key = rs[k].key
                        BY <1>2, <5>2
                    <6> QED
                        BY <4>2, <5>1, <5>2, <6>1
                <5>3. CASE \E h \in 1..M : new[k] = put[h]
                    BY <4>1, <5>3
                <5> QED
                    BY <1>4, <5>2, <5>3
            <4>4. IsLast(new, i)
                BY <1>1, <4>3 DEF IsLast
            <4> QED
                BY <2>3, <3>1, <3>3, <4>4
        <3> QED
            BY <3>2, <3>3
    <2> QED
        BY <2>4, <2>5
\* A row that the transaction wrote.
<1>8. ASSUME NEW k \in 1..M, NEW i \in 1..N + M, i = N + k, new[i] = put[k]
      PROVE  Follows(new, i) /\ (Live(new[i]) <=> IsLast(new, i))
    <2>1. Live(put[k]) /\ put[k].supersedes \in Nat
        BY <1>5, <1>6
    <2>2. \A h \in 1..M : put[h].key = put[k].key => h = k
        BY <1>6
    <2>3. \A h \in 1..N + M : new[h].key = put[k].key => h = i \/ (h \in 1..N /\ rs[h].key = put[k].key)
        <3>1. SUFFICES ASSUME NEW h \in 1..N + M, new[h].key = put[k].key
                       PROVE  h = i \/ (h \in 1..N /\ rs[h].key = put[k].key)
            OBVIOUS
        <3>2. CASE h \in 1..N
            BY <1>2, <3>1, <3>2
        <3>3. CASE \E g \in 1..M : h = N + g /\ new[h] = put[g]
            BY <1>8, <2>2, <3>1, <3>3
        <3> QED
            BY <1>4, <3>2, <3>3
    <2>4. IsLast(new, i)
        BY <1>1, <1>8, <2>3 DEF IsLast
    <2>5. CASE put[k].supersedes = 0
        <3>1. \A h \in 1..N : rs[h].key # put[k].key
            BY <1>6, <2>5
        <3>2. \A h \in 1..N + M : h < i => new[h].key # put[k].key
            BY <2>3, <3>1
        <3>3. Follows(new, i)
            BY <1>1, <1>8, <2>5, <3>2 DEF Follows
        <3> QED
            BY <1>8, <2>1, <2>4, <3>3
    <2>6. CASE put[k].supersedes # 0
        <3>1. PICK l \in 1..N : l = put[k].supersedes /\ rs[l].key = put[k].key /\ Live(rs[l])
            BY <1>6, <2>6
        <3>2. \A h \in 1..N : h > l => rs[h].key # put[k].key
            BY <1>1, <3>1 DEF Chain, IsLast
        <3>3. l \in 1..N + M /\ l < i /\ new[l].key = put[k].key
            BY <1>2, <1>8, <3>1
        <3>4. \A h \in 1..N + M : h < i /\ new[h].key = put[k].key => h <= l
            BY <2>3, <3>2
        <3>5. Follows(new, i)
            BY <1>1, <1>8, <3>1, <3>3, <3>4 DEF Follows
        <3> QED
            BY <1>8, <2>1, <2>4, <3>5
    <2> QED
        BY <2>5, <2>6
<1>9. Chain(new)
    BY <1>1, <1>4, <1>7, <1>8 DEF Chain
<1>10. Held(new)
    <2>1. ASSUME NEW i \in 1..N
          PROVE  \E l \in 1..N + M : new[l].key = rs[i].key /\ Live(new[l])
        <3>1. PICK l \in 1..N : rs[l].key = rs[i].key /\ Live(rs[l])
            BY <1>1 DEF Held
        <3>2. CASE \A k \in 1..M : put[k].supersedes # l
            BY <1>2, <3>1, <3>2
        <3>3. CASE \E k \in 1..M : put[k].supersedes = l
            <4>1. PICK k \in 1..M : put[k].supersedes = l
                BY <3>3
            <4>2. put[k].key = rs[l].key /\ Live(put[k])
                <5>1. put[k].supersedes # 0
                    BY <4>1
                <5> QED
                    BY <1>6, <4>1, <5>1
            <4>3. PICK h \in 1..N + M : new[h] = put[k]
                BY <1>3
            <4>4. new[h].key = rs[i].key /\ Live(new[h])
                BY <3>1, <4>2, <4>3
            <4> QED
                BY <4>4
        <3> QED
            BY <3>2, <3>3
    <2>2. \A k \in 1..M : Live(put[k])
        BY <1>6
    <2>3. ASSUME NEW i \in 1..N + M
          PROVE  \E l \in 1..N + M : new[l].key = new[i].key /\ Live(new[l])
        BY <1>2, <1>4, <2>1, <2>2
    <2> QED
        BY <1>1, <2>3 DEF Held
<1>11. Differs(new)
    <2>1. ASSUME NEW i \in 1..N, rs[i].supersedes # 0
          PROVE  new[rs[i].supersedes].value # rs[i].value
        <3>1. rs[i].supersedes \in 1..N
            BY <1>1, <2>1 DEF Chain, Follows
        <3> QED
            BY <1>1, <1>2, <2>1, <3>1 DEF Differs
    <2>2. ASSUME NEW k \in 1..M, put[k].supersedes # 0
          PROVE  new[put[k].supersedes].value # put[k].value
        <3>1. PICK l \in 1..N : l = put[k].supersedes /\ rs[l].value # put[k].value
            BY <1>6, <2>2
        <3> QED
            BY <1>2, <3>1
    <2>3. ASSUME NEW i \in 1..N + M, new[i].supersedes # 0
          PROVE  new[new[i].supersedes].value # new[i].value
        <3>1. CASE i \in 1..N
            BY <1>2, <2>1, <2>3, <3>1
        <3>2. CASE \E k \in 1..M : new[i] = put[k]
            BY <2>2, <2>3, <3>2
        <3> QED
            BY <1>4, <3>1, <3>2
    <2> QED
        BY <1>1, <2>3 DEF Differs
<1> QED
    BY <1>9, <1>10, <1>11

\* The same of sequences.
LEMMA ChainCommitted ==
    ASSUME NEW rs \in Seq(Facts!Row), NEW put \in Seq(Facts!Row),
           Chain(rs), Held(rs), Differs(rs), Fits(rs, put)
    PROVE  LET new == Committed(rs, put)
           IN  new \in Seq(Facts!Row) /\ Chain(new) /\ Held(new) /\ Differs(new)
<1>1. PICK new \in Seq(Facts!Row) :
        /\ new = Committed(rs, put) /\ Len(new) = Len(rs) + Len(put)
        /\ \A k \in 1..Len(rs) : /\ new[k].key = rs[k].key /\ new[k].value = rs[k].value
                                 /\ new[k].supersedes = rs[k].supersedes
                                 /\ k \in Facts!Superseded(put) => ~Live(new[k])
                                 /\ k \notin Facts!Superseded(put) => new[k] = rs[k]
        /\ \A k \in 1..Len(put) : new[Len(rs) + k] = put[k]
    <2>1. Committed(rs, put) \in Seq(Facts!Row)
        BY CommittedRows
    <2> WITNESS Committed(rs, put) \in Seq(Facts!Row)
    <2> QED
        BY CommittedRows
<1>2. PICK N \in Nat, M \in Nat : N = Len(rs) /\ M = Len(put)
    OBVIOUS
<1>3. rs \in [1..N -> Facts!Row] /\ put \in [1..M -> Facts!Row]
    BY <1>2
<1>4. /\ new \in [1..N + M -> Facts!Row]
      /\ \A k \in 1..N : /\ new[k].key = rs[k].key /\ new[k].value = rs[k].value
                         /\ new[k].supersedes = rs[k].supersedes
                         /\ k \in Facts!Superseded(put) => ~Live(new[k])
                         /\ k \notin Facts!Superseded(put) => new[k] = rs[k]
      /\ \A k \in 1..M : new[N + k] = put[k]
    <2>1. new \in [1..N + M -> Facts!Row]
        BY <1>1, <1>2
    <2> QED
        BY <1>1, <1>2, <2>1
<1>5. Chain(new) /\ Held(new) /\ Differs(new)
    BY <1>3, <1>4, ChainGrows
<1> QED
    BY <1>1, <1>5

\* The row that holds the value of a key.
LEMMA CurrentRow ==
    ASSUME keyed \in Seq(Facts!Row), Held(keyed), NEW key
    PROVE  IF Facts!Current(key) = 0 THEN \A i \in DOMAIN keyed : keyed[i].key # key
           ELSE /\ Facts!Current(key) \in DOMAIN keyed /\ keyed[Facts!Current(key)].key = key
                /\ Live(keyed[Facts!Current(key)])
<1> DEFINE found == {i \in DOMAIN keyed : keyed[i].key = key /\ keyed[i].active}
<1>1. found = {i \in DOMAIN keyed : keyed[i].key = key /\ Live(keyed[i])}
    BY DEF Live
<1>2. Facts!Current(key) = IF found = {} THEN 0 ELSE CHOOSE i \in found : TRUE
    BY DEF Facts!Current
<1> HIDE DEF found
<1>3. found \subseteq DOMAIN keyed /\ 0 \notin DOMAIN keyed
    BY <1>1
<1>4. CASE found = {}
    BY <1>1, <1>2, <1>4 DEF Held
<1>5. CASE found # {}
    BY <1>1, <1>2, <1>3, <1>5
<1> QED
    BY <1>4, <1>5

-----------------------------------------------------------------------------
(* InvestorFacts: its inductive invariant *)

Given == Facts!Keys \X Facts!Values

Writing == [at : {"idle", "lock", "write", "select"}, given : Seq(Given), put : Seq(Facts!Row),
            answers : BOOLEAN, rename : BOOLEAN, wants : SUBSET Memories]

\* The team step was answered or skipped at some time.
Answered(rs) == \E i \in DOMAIN rs : rs[i].key = "setup_team_names"

\* A writer that writes holds the lock, so its rows fit the facts as they are; it is given a key
\* once; and one that renamed an agent, and is answering the team step, has that still to do or
\* to commit.
WriterFits(w) ==
    LET c == writer[w] IN
    /\ c.at = "write" => factsLock = w /\ Fits(keyed, c.put)
    /\ c.at # "write" => c.put = <<>>
    /\ \A a, b \in DOMAIN c.given : c.given[a][1] = c.given[b][1] => a = b
    /\ \A a \in DOMAIN c.given, k \in DOMAIN c.put : c.given[a][1] # c.put[k].key
    /\ c.at \in {"lock", "write"} /\ c.rename = TRUE /\ c.answers = FALSE =>
         \/ Answered(keyed) \/ Answered(c.put)
         \/ \E a \in DOMAIN c.given : c.given[a][1] = "setup_team_names"

FactsInv ==
    /\ Facts!TypeOK
    /\ writer \in [Turns -> Writing]
    /\ Chain(keyed) /\ Held(keyed) /\ Differs(keyed)
    /\ \A w \in Turns : WriterFits(w)
    /\ renamed => Answered(keyed)
    /\ Facts!KeptOrForgotten

\* A step of one writer that writes no row and takes no other's lock.
LEMMA WritersFrame ==
    ASSUME FactsInv, NEW w \in Turns, UNCHANGED keyed, writer' \in [Turns -> Writing],
           \A v \in Turns \ {w} : writer'[v] = writer[v],
           factsLock' = factsLock \/ factsLock \in {w, Nobody}, WriterFits(w)'
    PROVE  \A v \in Turns : WriterFits(v)'
<1>1. ASSUME NEW v \in Turns \ {w}
      PROVE  WriterFits(v)'
    <2>1. WriterFits(v) /\ v # Nobody
        BY SoulAssumption DEF FactsInv
    <2> QED
        BY <2>1 DEF WriterFits
<1> QED
    BY <1>1

LEMMA IdleRest == Facts!Rest \in Writing
BY DEF Facts!Rest, Writing

LEMMA IdleFits ==
    ASSUME NEW w \in Turns, writer'[w] = Facts!Rest
    PROVE  WriterFits(w)'
<1>2. /\ writer'[w].at = "idle" /\ writer'[w].put = <<>> /\ writer'[w].given = <<>>
    BY DEF Facts!Rest
<1>3. DOMAIN writer'[w].given = {}
    BY <1>2
<1> QED
    BY <1>2, <1>3 DEF WriterFits

\* A call begins.
LEMMA BeginKept ==
    ASSUME FactsInv, NEW w \in Turns, NEW given \in Seq(Given), NEW answers \in BOOLEAN,
           Facts!Begin(w, given, answers),
           \A a, b \in DOMAIN given : given[a][1] = given[b][1] => a = b,
           answers = FALSE => \A a \in DOMAIN given : given[a][1] \notin Facts!NAME_KEYS
    PROVE  FactsInv'
<1> DEFINE rename == \E i \in DOMAIN given : given[i][1] \in Facts!NAME_KEYS
<1> DEFINE new == [Facts!Rest EXCEPT !.at = "lock", !.given = given, !.answers = answers,
                                     !.rename = rename]
<1>1. writer' = [writer EXCEPT ![w] = new]
    BY DEF Facts!Begin
<1>2. rename \in BOOLEAN /\ (rename => answers = TRUE)
    OBVIOUS
<1>4. UNCHANGED <<keyed, factsLock, renamed, memory, stored, kept, forgotten>>
    BY DEF Facts!Begin, Facts!facts, Facts!memories
<1> HIDE DEF rename
<1>5. /\ new \in Writing /\ new.at = "lock" /\ new.put = <<>> /\ new.given = given
      /\ ~(new.rename = TRUE /\ new.answers = FALSE)
    <2>1. Facts!Rest \in Writing
        BY IdleRest
    <2>2. ASSUME NEW r \in BOOLEAN, r => answers = TRUE,
                 NEW began, began = [Facts!Rest EXCEPT !.at = "lock", !.given = given,
                                                       !.answers = answers, !.rename = r]
          PROVE  /\ began \in Writing /\ began.at = "lock" /\ began.put = <<>>
                 /\ began.given = given /\ ~(began.rename = TRUE /\ began.answers = FALSE)
        <3>1. began \in Writing
            BY <2>1, <2>2 DEF Writing
        <3>2. began.at = "lock" /\ began.put = <<>> /\ began.given = given
            BY <2>2 DEF Facts!Rest
        <3>3. began.answers = answers /\ began.rename = r
            BY <2>2 DEF Facts!Rest
        <3> QED
            BY <2>2, <3>1, <3>2, <3>3
    <2> QED
        BY <1>2, <2>2 DEF new
<1> HIDE DEF new
<1>6. writer' \in [Turns -> Writing] /\ writer'[w] = new /\ \A v \in Turns \ {w} : writer'[v] = writer[v]
    BY <1>1, <1>5 DEF FactsInv
<1>7. WriterFits(w)'
    <2>1. DOMAIN <<>> = {}
        OBVIOUS
    <2> QED
        BY <1>5, <1>6, <2>1 DEF WriterFits
<1>8. \A v \in Turns : WriterFits(v)'
    BY <1>4, <1>6, <1>7, WritersFrame
<1>9. Facts!TypeOK'
    BY <1>4, <1>6 DEF FactsInv, Facts!TypeOK, Writing
<1> QED
    BY <1>4, <1>6, <1>8, <1>9 DEF FactsInv, Facts!KeptOrForgotten

LEMMA CallBegins ==
    ASSUME FactsInv, NEW w \in Turns,
           Facts!SetIdentity(w) \/ Facts!SkipSetupStep(w) \/ Facts!RecordSignals(w)
    PROVE  FactsInv'
<1>1. \A g \in Given : <<g>> \in Seq(Given) /\ \A a, b \in DOMAIN <<g>> : <<g>>[a][1] = <<g>>[b][1] => a = b
    OBVIOUS
<1>2. ASSUME NEW key \in Facts!Keys, NEW value \in Facts!Values, NEW answers \in BOOLEAN,
             Facts!Begin(w, <<<<key, value>>>>, answers), answers = FALSE => key \notin Facts!NAME_KEYS
      PROVE  FactsInv'
    <2>1. <<key, value>> \in Given
        BY DEF Given
    <2>2. \A a \in DOMAIN <<<<key, value>>>> : <<<<key, value>>>>[a][1] = key
        OBVIOUS
    <2> QED
        BY <1>1, <1>2, <2>1, <2>2, BeginKept
<1>3. ASSUME NEW first \in Names, NEW second \in Names,
             Facts!Begin(w, <<<<"bot_name", first>>, <<"analyst_name", second>>>>, TRUE)
      PROVE  FactsInv'
    <2> DEFINE given == <<<<"bot_name", first>>, <<"analyst_name", second>>>>
    <2>1. given \in Seq(Given)
        BY DEF Given, Facts!Keys, Facts!Values
    <2>2. \A a, b \in DOMAIN given : given[a][1] = given[b][1] => a = b
        OBVIOUS
    <2> QED
        BY <1>3, <2>1, <2>2, BeginKept
<1>4. CASE Facts!SetIdentity(w)
    <2>1. CASE \E key \in Facts!NAME_KEYS \cup {"bot_vibe"}, value \in Names :
                 Facts!Begin(w, <<<<key, value>>>>, key \in Facts!NAME_KEYS)
        <3>1. PICK key \in Facts!NAME_KEYS \cup {"bot_vibe"}, value \in Names :
                     Facts!Begin(w, <<<<key, value>>>>, key \in Facts!NAME_KEYS)
            BY <2>1
        <3>2. key \in Facts!Keys /\ value \in Facts!Values
            BY DEF Facts!Keys, Facts!NAME_KEYS, Facts!Values
        <3>3. (key \in Facts!NAME_KEYS) \in BOOLEAN
              /\ ((key \in Facts!NAME_KEYS) = FALSE => key \notin Facts!NAME_KEYS)
            OBVIOUS
        <3> QED
            BY <1>2, <3>1, <3>2, <3>3
    <2>2. CASE \E first, second \in Names :
                 Facts!Begin(w, <<<<"bot_name", first>>, <<"analyst_name", second>>>>, TRUE)
        BY <1>3, <2>2
    <2> QED
        BY <1>4, <2>1, <2>2 DEF Facts!SetIdentity
<1>5. CASE Facts!SkipSetupStep(w)
    <2>1. "setup_team_names" \in Facts!Keys /\ "skipped" \in Facts!Values
          /\ "setup_team_names" \notin Facts!NAME_KEYS
        BY DEF Facts!Keys, Facts!NAME_KEYS, Facts!Values
    <2> QED
        BY <1>2, <1>5, <2>1 DEF Facts!SkipSetupStep
<1>6. CASE Facts!RecordSignals(w)
    <2>1. PICK value \in Names : Facts!Begin(w, <<<<"channel", value>>>>, FALSE)
        BY <1>6 DEF Facts!RecordSignals
    <2>2. "channel" \in Facts!Keys /\ value \in Facts!Values /\ "channel" \notin Facts!NAME_KEYS
        BY DEF Facts!Keys, Facts!NAME_KEYS, Facts!Values
    <2> QED
        BY <1>2, <2>1, <2>2
<1> QED
    BY <1>4, <1>5, <1>6

LEMMA LockKept ==
    ASSUME FactsInv, NEW w \in Turns, Facts!Lock(w)
    PROVE  FactsInv'
<1>1. /\ factsLock = Nobody /\ factsLock' = w /\ writer' = [writer EXCEPT ![w].at = "write"]
      /\ UNCHANGED <<keyed, renamed, memory, stored, kept, forgotten>>
    BY DEF Facts!Lock, Facts!memories
<1>2. writer[w] \in Writing /\ writer[w].at = "lock"
    BY DEF FactsInv, Facts!Lock, Facts!At
<1> DEFINE new == [writer[w] EXCEPT !.at = "write"]
<1>3. /\ new \in Writing /\ new.at = "write" /\ new.put = writer[w].put /\ new.given = writer[w].given
      /\ new.rename = writer[w].rename /\ new.answers = writer[w].answers
    BY <1>2 DEF Writing
<1>4. writer' = [writer EXCEPT ![w] = new]
    BY <1>1
<1> HIDE DEF new
<1>5. /\ writer' \in [Turns -> Writing] /\ writer'[w] = new
      /\ \A v \in Turns \ {w} : writer'[v] = writer[v]
    BY <1>3, <1>4 DEF FactsInv
<1>6. WriterFits(w)'
    <2>1. WriterFits(w) /\ writer[w].put = <<>>
        BY <1>2 DEF FactsInv, WriterFits
    <2>2. DOMAIN <<>> = {}
        OBVIOUS
    <2>3. Fits(keyed, <<>>)
        BY <2>2 DEF Fits
    <2> QED
        BY <1>1, <1>2, <1>3, <1>5, <2>1, <2>3 DEF WriterFits
<1>7. \A v \in Turns : WriterFits(v)'
    BY <1>1, <1>5, <1>6, WritersFrame
<1>8. Facts!TypeOK'
    BY <1>1, <1>5 DEF FactsInv, Facts!TypeOK, Writing
<1> QED
    BY <1>1, <1>5, <1>7, <1>8 DEF FactsInv, Facts!KeptOrForgotten

\* The next value that is given is taken off the ones that are.
LEMMA Taken ==
    ASSUME NEW s \in Seq(Given), s # <<>>
    PROVE  /\ Tail(s) \in Seq(Given) /\ Head(s) \in Given
           /\ 1 \in DOMAIN s /\ s[1] = Head(s)
           /\ \A a \in DOMAIN Tail(s) : \E b \in DOMAIN s : b = a + 1 /\ Tail(s)[a] = s[b]
           /\ \A b \in DOMAIN s : b = 1 \/ \E a \in DOMAIN Tail(s) : b = a + 1 /\ Tail(s)[a] = s[b]
<1>1. PICK N \in Nat : N = Len(s) /\ s \in [1..N -> Given]
    OBVIOUS
<1>2. N # 0
    <2>1. s # <<>> => Len(s) # 0
        OBVIOUS
    <2> QED
        BY <1>1, <2>1
<1>3. Tail(s) \in Seq(Given) /\ Len(Tail(s)) = N - 1 /\ \A a \in 1..N - 1 : Tail(s)[a] = s[a + 1]
    BY <1>1, <1>2
<1>4. Head(s) = s[1] /\ 1 \in 1..N
    BY <1>2
<1>5. Head(s) \in Given
    BY <1>1, <1>4
<1>6. DOMAIN Tail(s) = 1..N - 1 /\ DOMAIN s = 1..N
    BY <1>1, <1>3
<1>7. \A a \in 1..N - 1 : a + 1 \in 1..N
    OBVIOUS
<1>8. \A b \in 1..N : b = 1 \/ \E a \in 1..N - 1 : b = a + 1
    <2>1. \A b \in 1..N : b # 1 => b - 1 \in 1..N - 1 /\ b = (b - 1) + 1
        OBVIOUS
    <2> QED
        BY <2>1
<1>9. \A a \in 1..N - 1 : \E b \in 1..N : b = a + 1 /\ Tail(s)[a] = s[b]
    BY <1>3, <1>7
<1>10. \A b \in 1..N : b = 1 \/ \E a \in 1..N - 1 : b = a + 1 /\ Tail(s)[a] = s[b]
    BY <1>3, <1>8
<1> QED
    BY <1>3, <1>4, <1>5, <1>6, <1>9, <1>10

\* One more row to write, of a key that none is written of.
LEMMA FitsOneMore ==
    ASSUME NEW rs \in Seq(Facts!Row), NEW put \in Seq(Facts!Row), NEW row \in Facts!Row,
           Fits(rs, put), Live(row), \A k \in DOMAIN put : put[k].key # row.key,
           IF row.supersedes = 0 THEN \A i \in DOMAIN rs : rs[i].key # row.key
           ELSE /\ row.supersedes \in DOMAIN rs
                /\ rs[row.supersedes].key = row.key /\ Live(rs[row.supersedes])
                /\ rs[row.supersedes].value # row.value
    PROVE  /\ Append(put, row) \in Seq(Facts!Row) /\ Fits(rs, Append(put, row))
           /\ \A k \in DOMAIN Append(put, row) :
                Append(put, row)[k] = row \/ (k \in DOMAIN put /\ Append(put, row)[k] = put[k])
           /\ \A k \in DOMAIN put : k \in DOMAIN Append(put, row) /\ Append(put, row)[k] = put[k]
           /\ \E k \in DOMAIN Append(put, row) : Append(put, row)[k] = row
<1>1. PICK N \in Nat : N = Len(put) /\ put \in [1..N -> Facts!Row]
    OBVIOUS
<1>2. PICK new \in Seq(Facts!Row) : new = Append(put, row) /\ Len(new) = N + 1
                                    /\ new[N + 1] = row /\ \A k \in 1..N : new[k] = put[k]
    <2>1. Append(put, row) \in Seq(Facts!Row)
        OBVIOUS
    <2> WITNESS Append(put, row) \in Seq(Facts!Row)
    <2> QED
        BY <1>1
<1>3. DOMAIN put = 1..N /\ DOMAIN new = 1..N + 1
    BY <1>1, <1>2
<1>4. \A k \in 1..N + 1 : k = N + 1 \/ k \in 1..N
    OBVIOUS
<1>5. N + 1 \in 1..N + 1 /\ N + 1 \notin 1..N /\ \A k \in 1..N : k \in 1..N + 1
    OBVIOUS
<1>6. PICK last \in 1..N + 1 : last = N + 1 /\ last \notin 1..N /\ new[last] = row
    BY <1>2, <1>5
<1>7. \A k \in 1..N + 1 : k = last \/ (k \in 1..N /\ new[k] = put[k])
    BY <1>2, <1>4, <1>6
<1>8. Fits(rs, new)
    <2>1. /\ \A k, h \in 1..N : put[k].key = put[h].key => k = h
          /\ \A k \in 1..N :
               /\ Live(put[k])
               /\ IF put[k].supersedes = 0 THEN \A i \in DOMAIN rs : rs[i].key # put[k].key
                  ELSE /\ put[k].supersedes \in DOMAIN rs
                       /\ rs[put[k].supersedes].key = put[k].key /\ Live(rs[put[k].supersedes])
                       /\ rs[put[k].supersedes].value # put[k].value
        BY <1>3 DEF Fits
    <2>2. \A k, h \in 1..N + 1 : new[k].key = new[h].key => k = h
        <3>1. \A k \in 1..N : put[k].key # row.key
            BY <1>3
        <3>2. ASSUME NEW k \in 1..N + 1, NEW h \in 1..N + 1, new[k].key = new[h].key
              PROVE  k = h
            <4>1. CASE k = last
                BY <1>6, <1>7, <3>1, <3>2, <4>1
            <4>2. CASE h = last
                BY <1>6, <1>7, <3>1, <3>2, <4>2
            <4>3. CASE k # last /\ h # last
                BY <1>7, <2>1, <3>2, <4>3
            <4> QED
                BY <4>1, <4>2, <4>3
        <3> QED
            BY <3>2
    <2>3. ASSUME NEW k \in 1..N + 1
          PROVE  /\ Live(new[k])
                 /\ IF new[k].supersedes = 0 THEN \A i \in DOMAIN rs : rs[i].key # new[k].key
                    ELSE /\ new[k].supersedes \in DOMAIN rs
                         /\ rs[new[k].supersedes].key = new[k].key /\ Live(rs[new[k].supersedes])
                         /\ rs[new[k].supersedes].value # new[k].value
        <3>1. CASE new[k] = row
            BY <3>1
        <3>2. CASE k \in 1..N /\ new[k] = put[k]
            BY <2>1, <3>2
        <3> QED
            BY <1>6, <1>7, <3>1, <3>2
    <2> QED
        BY <1>3, <2>2, <2>3 DEF Fits
<1>9. \A k \in 1..N : k \in 1..N + 1 /\ new[k] = put[k]
    BY <1>2, <1>5
<1> QED
    BY <1>2, <1>3, <1>6, <1>7, <1>8, <1>9

LEMMA WriteKept ==
    ASSUME FactsInv, NEW w \in Turns, Facts!WriteKeyed(w)
    PROVE  FactsInv'
<1> DEFINE c == writer[w]
           key == Head(c.given)[1]
           value == Head(c.given)[2]
           row == [key |-> key, value |-> value, active |-> TRUE, supersedes |-> Facts!Current(key)]
           same == Facts!Current(key) # 0 /\ keyed[Facts!Current(key)].value = value
           put == IF same THEN c.put ELSE Append(c.put, row)
           new == [c EXCEPT !.given = Tail(@), !.put = put]
<1>1. /\ c.at = "write" /\ c.given # <<>> /\ writer' = [writer EXCEPT ![w] = new]
      /\ UNCHANGED <<keyed, factsLock, renamed, memory, stored, kept, forgotten>>
    BY DEF Facts!WriteKeyed, Facts!At, Facts!facts, Facts!memories
<1>2. c \in Writing /\ WriterFits(w) /\ keyed \in Seq(Facts!Row) /\ Held(keyed)
    BY DEF FactsInv, Facts!TypeOK
<1>3. c.given \in Seq(Given) /\ c.put \in Seq(Facts!Row)
    BY <1>2 DEF Writing
<1>4. /\ factsLock = w /\ Fits(keyed, c.put)
      /\ \A a, b \in DOMAIN c.given : c.given[a][1] = c.given[b][1] => a = b
      /\ \A a \in DOMAIN c.given, k \in DOMAIN c.put : c.given[a][1] # c.put[k].key
      /\ c.rename = TRUE /\ c.answers = FALSE =>
           \/ Answered(keyed) \/ Answered(c.put)
           \/ \E a \in DOMAIN c.given : c.given[a][1] = "setup_team_names"
    BY <1>1, <1>2 DEF WriterFits
<1>5. PICK rest, first : rest = Tail(c.given) /\ first = Head(c.given)
    OBVIOUS
<1>6. /\ rest \in Seq(Given) /\ first \in Given
      /\ 1 \in DOMAIN c.given /\ c.given[1] = first
      /\ \A a \in DOMAIN rest : \E b \in DOMAIN c.given : b = a + 1 /\ rest[a] = c.given[b]
      /\ \A b \in DOMAIN c.given :
           b = 1 \/ \E a \in DOMAIN rest : b = a + 1 /\ rest[a] = c.given[b]
    BY <1>1, <1>3, <1>5, Taken
<1>7. key = first[1] /\ value = first[2] /\ key \in Facts!Keys /\ value \in Facts!Values
    BY <1>5, <1>6 DEF Given
<1>8. IF Facts!Current(key) = 0 THEN \A i \in DOMAIN keyed : keyed[i].key # key
      ELSE /\ Facts!Current(key) \in DOMAIN keyed /\ keyed[Facts!Current(key)].key = key
           /\ Live(keyed[Facts!Current(key)])
    BY <1>2, CurrentRow
<1>9. /\ row \in Facts!Row /\ Live(row) /\ row.key = key /\ row.value = value
      /\ row.supersedes = Facts!Current(key)
    <2>1. Facts!Current(key) \in Nat
        BY <1>8, <1>2
    <2> HIDE DEF key, value
    <2> QED
        BY <1>7, <2>1 DEF Facts!Row, Live
<1>10. /\ put \in Seq(Facts!Row) /\ Fits(keyed, put)
       /\ \A k \in DOMAIN put : put[k].key = key \/ (k \in DOMAIN c.put /\ put[k] = c.put[k])
       /\ \A k \in DOMAIN c.put : k \in DOMAIN put /\ put[k] = c.put[k]
       /\ Facts!Current(key) = 0 => \E k \in DOMAIN put : put[k].key = key
       /\ ~same => \E k \in DOMAIN put : put[k].key = key
    <2>1. CASE same
        BY <1>3, <1>4, <2>1
    <2>2. CASE ~same
        <3>1. \A k \in DOMAIN c.put : c.put[k].key # row.key
            BY <1>4, <1>6, <1>7, <1>9
        <3>2. IF row.supersedes = 0 THEN \A i \in DOMAIN keyed : keyed[i].key # row.key
              ELSE /\ row.supersedes \in DOMAIN keyed
                   /\ keyed[row.supersedes].key = row.key /\ Live(keyed[row.supersedes])
                   /\ keyed[row.supersedes].value # row.value
            BY <1>8, <1>9, <2>2
        <3> HIDE DEF row, key, value, c
        <3>3. PICK written, more : written = c.put /\ more = row
            OBVIOUS
        <3>5. /\ written \in Seq(Facts!Row) /\ more \in Facts!Row /\ Fits(keyed, written) /\ Live(more)
              /\ \A k \in DOMAIN written : written[k].key # more.key
            BY <1>3, <1>4, <1>9, <3>1, <3>3
        <3>6. IF more.supersedes = 0 THEN \A i \in DOMAIN keyed : keyed[i].key # more.key
              ELSE /\ more.supersedes \in DOMAIN keyed
                   /\ keyed[more.supersedes].key = more.key /\ Live(keyed[more.supersedes])
                   /\ keyed[more.supersedes].value # more.value
            BY <3>2, <3>3
        <3>7. /\ Append(written, more) \in Seq(Facts!Row) /\ Fits(keyed, Append(written, more))
              /\ \A k \in DOMAIN Append(written, more) :
                   \/ Append(written, more)[k] = more
                   \/ k \in DOMAIN written /\ Append(written, more)[k] = written[k]
              /\ \A k \in DOMAIN written :
                   k \in DOMAIN Append(written, more) /\ Append(written, more)[k] = written[k]
              /\ \E k \in DOMAIN Append(written, more) : Append(written, more)[k] = more
            BY ONLY <1>2, <3>5, <3>6, FitsOneMore
        <3> HIDE DEF same
        <3>4. put = Append(written, more)
            BY <2>2, <3>3
        <3> QED
            BY <1>9, <3>3, <3>4, <3>7
    <2> QED
        BY <2>1, <2>2
<1> HIDE DEF put
<1>11. /\ new \in Writing /\ new.at = "write" /\ new.given = rest /\ new.put = put
       /\ new.rename = c.rename /\ new.answers = c.answers
    <2>1. put \in Seq(Facts!Row) /\ Tail(c.given) \in Seq(Given)
        BY <1>5, <1>6, <1>10
    <2> HIDE DEF c
    <2> QED
        BY <1>1, <1>2, <1>5, <2>1 DEF Writing
<1> HIDE DEF new
<1>12. /\ writer' \in [Turns -> Writing] /\ writer'[w] = new
       /\ \A v \in Turns \ {w} : writer'[v] = writer[v]
    BY <1>1, <1>11 DEF FactsInv
<1>13. \A a, b \in DOMAIN rest : rest[a][1] = rest[b][1] => a = b
    <2>1. SUFFICES ASSUME NEW a \in DOMAIN rest, NEW b \in DOMAIN rest, rest[a][1] = rest[b][1]
                   PROVE  a = b
        OBVIOUS
    <2>2. PICK a1 \in DOMAIN c.given : a1 = a + 1 /\ rest[a] = c.given[a1]
        BY <1>6
    <2>3. PICK b1 \in DOMAIN c.given : b1 = b + 1 /\ rest[b] = c.given[b1]
        BY <1>6
    <2>4. a1 = b1
        BY <1>4, <2>1, <2>2, <2>3
    <2>5. a \in Nat /\ b \in Nat
        BY <1>6
    <2> QED
        BY <2>2, <2>3, <2>4, <2>5
<1>14. \A a \in DOMAIN rest, k \in DOMAIN put : rest[a][1] # put[k].key
    <2>1. SUFFICES ASSUME NEW a \in DOMAIN rest, NEW k \in DOMAIN put
                   PROVE  rest[a][1] # put[k].key
        OBVIOUS
    <2>2. PICK b \in DOMAIN c.given : b = a + 1 /\ rest[a] = c.given[b]
        BY <1>6
    <2>3. a \in Nat /\ a # 0
        BY <1>6
    <2>4. b # 1
        BY <2>2, <2>3
    <2>5. rest[a][1] # key
        BY <1>4, <1>6, <1>7, <2>2, <2>4
    <2> HIDE DEF key
    <2> QED
        BY <1>4, <1>10, <2>2, <2>5
<1>15. c.rename = TRUE /\ c.answers = FALSE =>
           \/ Answered(keyed) \/ Answered(put)
           \/ \E a \in DOMAIN rest : rest[a][1] = "setup_team_names"
    <2>1. SUFFICES ASSUME c.rename = TRUE, c.answers = FALSE
                   PROVE  \/ Answered(keyed) \/ Answered(put)
                          \/ \E a \in DOMAIN rest : rest[a][1] = "setup_team_names"
        OBVIOUS
    <2>2. CASE Answered(keyed)
        BY <2>2
    <2>3. CASE Answered(c.put)
        BY <1>10, <2>3 DEF Answered
    <2>4. CASE \E a \in DOMAIN c.given : c.given[a][1] = "setup_team_names"
        <3>1. PICK b \in DOMAIN c.given : c.given[b][1] = "setup_team_names"
            BY <2>4
        <3>2. CASE b = 1
            <4>1. key = "setup_team_names"
                BY <1>6, <1>7, <3>1, <3>2
            <4>2. CASE Facts!Current(key) = 0
                BY <1>10, <4>1, <4>2 DEF Answered
            <4>3. CASE Facts!Current(key) # 0
                BY <1>8, <4>1, <4>3 DEF Answered
            <4> QED
                BY <4>2, <4>3
        <3>3. CASE \E a \in DOMAIN rest : rest[a] = c.given[b]
            BY <3>1, <3>3
        <3> QED
            BY <1>6, <3>2, <3>3
    <2> QED
        BY <1>4, <2>1, <2>2, <2>3, <2>4
<1>16. WriterFits(w)'
    <2> HIDE DEF c
    <2> QED
        BY <1>1, <1>4, <1>10, <1>11, <1>12, <1>13, <1>14, <1>15 DEF WriterFits
<1>17. \A v \in Turns : WriterFits(v)'
    BY <1>1, <1>12, <1>16, WritersFrame
<1>18. Facts!TypeOK'
    BY <1>1, <1>12 DEF FactsInv, Facts!TypeOK, Writing
<1> QED
    BY <1>1, <1>12, <1>17, <1>18 DEF FactsInv, Facts!KeptOrForgotten

LEMMA AnsweredCommitted ==
    ASSUME NEW rs \in Seq(Facts!Row), NEW put \in Seq(Facts!Row), Answered(rs) \/ Answered(put)
    PROVE  Answered(Committed(rs, put))
<1>1. PICK N \in Nat, M \in Nat : N = Len(rs) /\ M = Len(put)
    OBVIOUS
<1>2. PICK new \in Seq(Facts!Row) :
        /\ new = Committed(rs, put) /\ Len(new) = Len(rs) + Len(put)
        /\ \A i \in 1..Len(rs) : new[i].key = rs[i].key
        /\ \A k \in 1..Len(put) : new[Len(rs) + k] = put[k]
    <2>1. Committed(rs, put) \in Seq(Facts!Row)
        BY CommittedRows
    <2> WITNESS Committed(rs, put) \in Seq(Facts!Row)
    <2> QED
        BY CommittedRows
<1>3. DOMAIN rs = 1..N /\ DOMAIN put = 1..M /\ DOMAIN new = 1..N + M
    BY <1>1, <1>2
<1>4. \A i \in 1..N : i \in 1..N + M /\ new[i].key = rs[i].key
    BY <1>1, <1>2
<1>5. \A k \in 1..M : N + k \in 1..N + M /\ new[N + k].key = put[k].key
    BY <1>1, <1>2
<1>6. Answered(rs) => Answered(new)
    BY <1>3, <1>4 DEF Answered
<1>7. Answered(put) => Answered(new)
    BY <1>3, <1>5 DEF Answered
<1> QED
    BY <1>2, <1>6, <1>7

LEMMA CommitKept ==
    ASSUME FactsInv, NEW w \in Turns, Facts!Commit(w)
    PROVE  FactsInv'
<1> DEFINE c == writer[w]
<1>1. /\ c.at = "write" /\ c.given = <<>> /\ keyed' = Committed(keyed, c.put)
      /\ factsLock' = (IF factsLock = w THEN Nobody ELSE factsLock)
      /\ UNCHANGED <<memory, stored, kept, forgotten>>
    BY DEF Facts!Commit, Facts!At, Facts!memories, Committed, Retired
<1>2. c \in Writing /\ WriterFits(w) /\ keyed \in Seq(Facts!Row)
    BY DEF FactsInv, Facts!TypeOK
<1>3. c.put \in Seq(Facts!Row) /\ factsLock = w /\ Fits(keyed, c.put)
    BY <1>1, <1>2 DEF Writing, WriterFits
<1>4. keyed' \in Seq(Facts!Row) /\ Chain(keyed)' /\ Held(keyed)' /\ Differs(keyed)'
    <2> HIDE DEF c
    <2>1. PICK was, written : was = keyed /\ written = c.put
        OBVIOUS
    <2>2. /\ was \in Seq(Facts!Row) /\ written \in Seq(Facts!Row) /\ Fits(was, written)
          /\ Chain(was) /\ Held(was) /\ Differs(was)
        BY <1>2, <1>3, <2>1 DEF FactsInv
    <2>3. PICK new : new = Committed(was, written) /\ new \in Seq(Facts!Row)
                     /\ Chain(new) /\ Held(new) /\ Differs(new)
        BY ONLY <2>2, ChainCommitted
    <2>4. keyed' = new
        BY <1>1, <2>1, <2>3
    <2> QED
        BY <2>3, <2>4 DEF Chain, Follows, IsLast, Held, Differs, Live
\* What was once written of the team step is still there, and what is written now is.
<1>5. (Answered(keyed) \/ Answered(c.put)) => Answered(keyed)'
    <2> HIDE DEF c
    <2>1. PICK was, written : was = keyed /\ written = c.put
        OBVIOUS
    <2>2. (Answered(was) \/ Answered(written)) => Answered(Committed(was, written))
        BY <1>2, <1>3, <2>1, AnsweredCommitted
    <2>3. PICK new : new = Committed(was, written)
        OBVIOUS
    <2>4. keyed' = new /\ (Answered(keyed) \/ Answered(c.put) => Answered(new))
        BY <1>1, <2>1, <2>2, <2>3
    <2> QED
        BY <2>4 DEF Answered
\* A writer that goes on has no transaction open.
<1>6. ASSUME NEW v \in Turns \ {w}, writer'[v] = writer[v]
      PROVE  WriterFits(v)'
    <2>1. WriterFits(v) /\ writer[v].at # "write"
        BY <1>3 DEF FactsInv, WriterFits
    <2>2. writer'[v].put = <<>>
        BY <1>6, <2>1 DEF WriterFits
    <2>3. ~(writer[v].at # "write" /\ Answered(<<>>))
        <3>1. DOMAIN <<>> = {}
            OBVIOUS
        <3> QED
            BY <3>1 DEF Answered
    <2> QED
        BY <1>5, <1>6, <2>1, <2>2 DEF WriterFits
<1>7. CASE c.answers = TRUE
    <2> DEFINE new == [c EXCEPT !.at = "lock", !.given = <<<<"setup_team_names", "answered">>>>,
                                !.put = <<>>, !.answers = FALSE]
    <2>1. writer' = [writer EXCEPT ![w] = new] /\ UNCHANGED renamed
        BY <1>7 DEF Facts!Commit
    <2>2. /\ new \in Writing /\ new.at = "lock" /\ new.put = <<>>
          /\ new.given = <<<<"setup_team_names", "answered">>>>
        <3>1. <<>> \in Seq(Facts!Row) /\ <<<<"setup_team_names", "answered">>>> \in Seq(Given)
            BY DEF Given, Facts!Keys, Facts!Values
        <3> HIDE DEF c
        <3> QED
            BY <1>2, <3>1 DEF Writing
    <2> HIDE DEF new
    <2>3. /\ writer' \in [Turns -> Writing] /\ writer'[w] = new
          /\ \A v \in Turns \ {w} : writer'[v] = writer[v]
        BY <2>1, <2>2 DEF FactsInv
    <2>4. WriterFits(w)'
        <3>1. DOMAIN <<>> = {}
            OBVIOUS
        <3>2. /\ 1 \in DOMAIN <<<<"setup_team_names", "answered">>>>
              /\ <<<<"setup_team_names", "answered">>>>[1][1] = "setup_team_names"
              /\ \A a, b \in DOMAIN <<<<"setup_team_names", "answered">>>> : a = b
            OBVIOUS
        <3> QED
            BY <2>2, <2>3, <3>1, <3>2 DEF WriterFits
    <2>5. \A v \in Turns : WriterFits(v)'
        BY <1>6, <2>3, <2>4
    <2>6. Facts!TypeOK'
        BY <1>1, <1>3, <1>4, <2>1, <2>3 DEF FactsInv, Facts!TypeOK, Writing
    <2>7. renamed' => Answered(keyed)'
        BY <1>5, <2>1 DEF FactsInv
    <2> QED
        BY <1>1, <1>4, <2>3, <2>5, <2>6, <2>7 DEF FactsInv, Facts!KeptOrForgotten
<1>8. CASE c.answers = FALSE
    <2>1. writer' = [writer EXCEPT ![w] = Facts!Rest] /\ renamed' = (renamed \/ c.rename)
        BY <1>8 DEF Facts!Commit
    <2>2. /\ writer' \in [Turns -> Writing] /\ writer'[w] = Facts!Rest
          /\ \A v \in Turns \ {w} : writer'[v] = writer[v]
        BY <2>1, IdleRest DEF FactsInv
    <2>3. \A v \in Turns : WriterFits(v)'
        BY <1>6, <2>2, IdleFits
    <2>4. renamed' \in BOOLEAN
        BY <2>1
    <2>5. Facts!TypeOK'
        <3>1. \A v \in Turns : writer'[v].at \in {"idle", "lock", "write", "select"}
            BY <2>2 DEF Writing
        <3> QED
            BY <1>1, <1>3, <1>4, <2>4, <3>1 DEF FactsInv, Facts!TypeOK
    <2>6. renamed' => Answered(keyed)'
        <3>1. DOMAIN <<>> = {}
            OBVIOUS
        <3>2. c.rename = TRUE => Answered(keyed) \/ Answered(c.put)
            BY <1>1, <1>2, <1>8, <3>1 DEF WriterFits
        <3>3. c.rename \in BOOLEAN
            BY <1>2 DEF Writing
        <3> QED
            BY <1>5, <2>1, <3>2, <3>3 DEF FactsInv
    <2> QED
        BY <1>1, <1>4, <2>2, <2>3, <2>5, <2>6 DEF FactsInv, Facts!KeptOrForgotten
<1> QED
    BY <1>2, <1>7, <1>8 DEF Writing

LEMMA AbortKept ==
    ASSUME FactsInv, NEW w \in Turns, Facts!Abort(w)
    PROVE  FactsInv'
<1>1. /\ factsLock' = (IF factsLock = w THEN Nobody ELSE factsLock)
      /\ writer' = [writer EXCEPT ![w] = Facts!Rest]
      /\ UNCHANGED <<keyed, renamed, memory, stored, kept, forgotten>>
    BY DEF Facts!Abort, Facts!memories
<1>2. /\ writer' \in [Turns -> Writing] /\ writer'[w] = Facts!Rest
      /\ \A v \in Turns \ {w} : writer'[v] = writer[v]
    BY <1>1, IdleRest DEF FactsInv
<1>3. factsLock' = factsLock \/ factsLock \in {w, Nobody}
    BY <1>1
<1>4. \A v \in Turns : WriterFits(v)'
    BY <1>1, <1>2, <1>3, IdleFits, WritersFrame
<1>5. Facts!TypeOK'
    BY <1>1, <1>2 DEF FactsInv, Facts!TypeOK, Writing
<1> QED
    BY <1>1, <1>2, <1>4, <1>5 DEF FactsInv, Facts!KeptOrForgotten

-----------------------------------------------------------------------------
(* InvestorFacts: memories *)

\* A memory is told to be stored under the id it has, or one it is given now.
LEMMA Remembered ==
    ASSUME FactsInv, NEW w \in Turns, NEW m \in Memories, NEW id \in 1..MaxMemories,
           Facts!Remember(w, m, id), memory' = [memory EXCEPT ![m] = id], memory[m] \in {0, id},
           stored' \in 0..MaxMemories, UNCHANGED <<keyed, factsLock, renamed, forgotten>>
    PROVE  FactsInv'
<1>1. kept' = kept \cup {<<m, id>>} /\ writer' = [writer EXCEPT ![w] = Facts!Rest]
    BY DEF Facts!Remember
<1>2. /\ writer' \in [Turns -> Writing] /\ writer'[w] = Facts!Rest
      /\ \A v \in Turns \ {w} : writer'[v] = writer[v]
    BY <1>1, IdleRest DEF FactsInv
<1>3. \A v \in Turns : WriterFits(v)'
    BY <1>2, IdleFits, WritersFrame
<1>4. memory \in [Memories -> 0..MaxMemories] /\ kept \subseteq Memories \X (1..MaxMemories)
    BY DEF FactsInv, Facts!TypeOK
<1>5. memory' \in [Memories -> 0..MaxMemories] /\ kept' \subseteq Memories \X (1..MaxMemories)
    BY <1>1, <1>4
<1>6. Facts!TypeOK'
    BY <1>2, <1>5 DEF FactsInv, Facts!TypeOK, Writing
<1>7. Facts!KeptOrForgotten'
    <2>1. SUFFICES ASSUME NEW k \in kept'
                   PROVE  memory'[k[1]] = k[2] \/ k[2] \in forgotten
        BY DEF Facts!KeptOrForgotten
    <2>2. CASE k = <<m, id>>
        BY <1>4, <2>2
    <2>3. CASE k \in kept
        <3>1. k[1] \in Memories /\ k[2] # 0
            BY <1>4, <2>3
        <3>2. memory[k[1]] = k[2] \/ k[2] \in forgotten
            BY <2>3 DEF FactsInv, Facts!KeptOrForgotten
        <3> QED
            BY <1>4, <3>1, <3>2
    <2> QED
        BY <1>1, <2>1, <2>2, <2>3
<1> QED
    BY <1>2, <1>3, <1>6, <1>7 DEF FactsInv

LEMMA InsertKept ==
    ASSUME FactsInv, NEW w \in Turns, NEW m \in Memories, Facts!Insert(w, m)
    PROVE  FactsInv'
<1> USE KeptAssumption DEF Facts!FactsAssumption
<1>1. UNCHANGED <<keyed, factsLock, renamed, forgotten>> /\ stored < MaxMemories
    BY DEF Facts!Insert, Facts!facts
<1>2. CASE memory[m] = 0
    <2>1. /\ stored' = stored + 1 /\ memory' = [memory EXCEPT ![m] = stored + 1]
          /\ Facts!Remember(w, m, stored + 1)
        BY <1>2 DEF Facts!Insert
    <2>2. stored + 1 \in 1..MaxMemories
        BY <1>1 DEF FactsInv, Facts!TypeOK
    <2>3. stored' \in 0..MaxMemories /\ memory[m] \in {0, stored + 1}
        BY <1>2, <2>1, <2>2
    <2> QED
        BY <1>1, <2>1, <2>2, <2>3, Remembered
<1>3. CASE memory[m] # 0
    <2> DEFINE new == [Facts!Rest EXCEPT !.at = "select", !.wants = {m}]
    <2>1. writer' = [writer EXCEPT ![w] = new] /\ UNCHANGED <<memory, stored, kept>>
        BY <1>3 DEF Facts!Insert
    <2>2. new \in Writing /\ new.at = "select" /\ new.put = <<>> /\ new.given = <<>>
        <3>1. Facts!Rest \in Writing
            BY IdleRest
        <3>2. new \in Writing
            BY <3>1 DEF Writing
        <3> QED
            BY <3>2 DEF Facts!Rest
    <2> HIDE DEF new
    <2>3. /\ writer' \in [Turns -> Writing] /\ writer'[w] = new
          /\ \A v \in Turns \ {w} : writer'[v] = writer[v]
        BY <2>1, <2>2 DEF FactsInv
    <2>4. WriterFits(w)'
        <3>1. DOMAIN <<>> = {}
            OBVIOUS
        <3> QED
            BY <2>2, <2>3, <3>1 DEF WriterFits
    <2>5. \A v \in Turns : WriterFits(v)'
        BY <1>1, <2>3, <2>4, WritersFrame
    <2>6. Facts!TypeOK'
        BY <1>1, <2>1, <2>3 DEF FactsInv, Facts!TypeOK, Writing
    <2> QED
        BY <1>1, <2>1, <2>3, <2>5, <2>6 DEF FactsInv, Facts!KeptOrForgotten
<1> QED
    BY <1>2, <1>3

LEMMA SelectKept ==
    ASSUME FactsInv, NEW w \in Turns, Facts!Select(w)
    PROVE  FactsInv'
<1>1. UNCHANGED <<keyed, factsLock, renamed, memory, stored, forgotten>>
    BY DEF Facts!Select, Facts!facts
<1>2. PICK m \in writer[w].wants :
        IF memory[m] # 0 THEN Facts!Remember(w, m, memory[m])
        ELSE writer' = [writer EXCEPT ![w] = Facts!Rest] /\ UNCHANGED kept
    BY DEF Facts!Select
<1>3. m \in Memories /\ memory \in [Memories -> 0..MaxMemories]
    BY DEF FactsInv, Facts!TypeOK, Writing
<1>4. CASE memory[m] # 0
    <2>1. memory[m] \in 1..MaxMemories /\ memory' = [memory EXCEPT ![m] = memory[m]]
        BY <1>1, <1>3, <1>4
    <2>2. stored' \in 0..MaxMemories
        BY <1>1 DEF FactsInv, Facts!TypeOK
    <2> QED
        BY <1>1, <1>2, <1>3, <1>4, <2>1, <2>2, Remembered
<1>5. CASE memory[m] = 0
    <2>1. /\ writer' \in [Turns -> Writing] /\ writer'[w] = Facts!Rest
          /\ \A v \in Turns \ {w} : writer'[v] = writer[v]
        BY <1>2, <1>5, IdleRest DEF FactsInv
    <2>2. \A v \in Turns : WriterFits(v)'
        BY <1>1, <2>1, IdleFits, WritersFrame
    <2>3. Facts!TypeOK'
        BY <1>1, <1>2, <1>5, <2>1 DEF FactsInv, Facts!TypeOK, Writing
    <2> QED
        BY <1>1, <1>2, <1>5, <2>1, <2>2, <2>3 DEF FactsInv, Facts!KeptOrForgotten
<1> QED
    BY <1>4, <1>5

LEMMA DeleteKept ==
    ASSUME FactsInv, NEW id \in 1..MaxMemories, Facts!Delete(id)
    PROVE  FactsInv'
<1>1. /\ memory' = [m \in Memories |-> IF memory[m] = id THEN 0 ELSE memory[m]]
      /\ forgotten' = forgotten \cup {id}
      /\ UNCHANGED <<keyed, factsLock, renamed, stored, kept, writer>>
    BY DEF Facts!Delete, Facts!facts
<1>2. memory \in [Memories -> 0..MaxMemories] /\ kept \subseteq Memories \X (1..MaxMemories)
    BY DEF FactsInv, Facts!TypeOK
<1>3. 0 \in 0..MaxMemories
    BY KeptAssumption DEF Facts!FactsAssumption
<1>4. Facts!TypeOK'
    <2>1. memory' \in [Memories -> 0..MaxMemories]
        BY <1>1, <1>2, <1>3
    <2>2. forgotten' \subseteq 1..MaxMemories
        BY <1>1 DEF FactsInv, Facts!TypeOK
    <2> QED
        BY <1>1, <2>1, <2>2 DEF FactsInv, Facts!TypeOK
<1>5. Facts!KeptOrForgotten'
    <2>1. ASSUME NEW k \in kept
          PROVE  memory'[k[1]] = k[2] \/ k[2] \in forgotten'
        <3>1. k[1] \in Memories /\ (memory[k[1]] = k[2] \/ k[2] \in forgotten)
            BY <1>2 DEF FactsInv, Facts!KeptOrForgotten
        <3> QED
            BY <1>1, <1>2, <3>1
    <2> QED
        BY <1>1, <2>1 DEF Facts!KeptOrForgotten
<1>6. \A v \in Turns : WriterFits(v)'
    BY <1>1 DEF FactsInv, WriterFits
<1> QED
    BY <1>1, <1>4, <1>5, <1>6 DEF FactsInv

-----------------------------------------------------------------------------
(* InvestorFacts: its invariant holds, and what follows from it *)

LEMMA FactsInit == Facts!Init => FactsInv
<1> SUFFICES ASSUME Facts!Init
             PROVE  FactsInv
    OBVIOUS
<1> USE KeptAssumption DEF Facts!FactsAssumption
<1>1. /\ keyed = <<>> /\ memory = [m \in Memories |-> 0] /\ stored = 0 /\ factsLock = Nobody
      /\ writer = [w \in Turns |-> Facts!Rest] /\ renamed = FALSE /\ kept = {} /\ forgotten = {}
    BY DEF Facts!Init
<1>2. keyed \in Seq(Facts!Row) /\ DOMAIN keyed = {} /\ DOMAIN <<>> = {}
    BY <1>1
<1>3. writer \in [Turns -> Writing]
    BY <1>1, IdleRest
<1>4. \A w \in Turns : WriterFits(w)
    <2>1. /\ Facts!Rest.at = "idle" /\ Facts!Rest.put = <<>> /\ Facts!Rest.given = <<>>
        BY DEF Facts!Rest
    <2> QED
        BY <1>1, <1>2, <2>1 DEF WriterFits
<1>5. Facts!TypeOK
    <2>1. memory \in [Memories -> 0..MaxMemories] /\ stored \in 0..MaxMemories
        BY <1>1
    <2>2. \A w \in Turns : writer[w].at \in {"idle", "lock", "write", "select"}
        BY <1>3 DEF Writing
    <2> QED
        BY <1>1, <1>2, <2>1, <2>2 DEF Facts!TypeOK
<1>6. Chain(keyed) /\ Held(keyed) /\ Differs(keyed)
    BY <1>2 DEF Chain, Held, Differs
<1> QED
    BY <1>1, <1>3, <1>4, <1>5, <1>6 DEF FactsInv, Facts!KeptOrForgotten

LEMMA FactsStep ==
    ASSUME FactsInv, Facts!KeyedNext \/ Facts!MemoryNext
    PROVE  FactsInv'
<1>1. CASE Facts!KeyedNext
    <2>1. PICK w \in Turns : \/ Facts!SetIdentity(w) \/ Facts!SkipSetupStep(w)
                             \/ Facts!RecordSignals(w) \/ Facts!Lock(w) \/ Facts!WriteKeyed(w)
                             \/ Facts!Commit(w) \/ Facts!Abort(w)
        BY <1>1 DEF Facts!KeyedNext
    <2> QED
        BY <2>1, CallBegins, LockKept, WriteKept, CommitKept, AbortKept
<1>2. CASE Facts!MemoryNext
    <2>1. CASE \E w \in Turns : \/ Facts!Select(w) \/ Facts!Abort(w)
                                \/ \E m \in Memories : Facts!Insert(w, m)
        BY <2>1, SelectKept, AbortKept, InsertKept
    <2>2. CASE \E id \in 1..MaxMemories : Facts!Delete(id)
        BY <2>2, DeleteKept
    <2> QED
        BY <1>2, <2>1, <2>2 DEF Facts!MemoryNext
<1> QED
    BY <1>1, <1>2

LEMMA FactsUnchanged ==
    ASSUME FactsInv, UNCHANGED factsVars
    PROVE  FactsInv'
<1>1. UNCHANGED <<keyed, memory, stored, factsLock, writer, renamed, kept, forgotten>>
    BY DEF factsVars
<1>2. \A w \in Turns : WriterFits(w)'
    BY <1>1 DEF FactsInv, WriterFits
<1>3. Facts!TypeOK' /\ Facts!KeptOrForgotten'
    BY <1>1 DEF FactsInv, Facts!TypeOK, Facts!KeptOrForgotten
<1> QED
    BY <1>1, <1>2, <1>3 DEF FactsInv

LEMMA ChainIsOne ==
    ASSUME FactsInv
    PROVE  Facts!OneChain /\ Facts!NothingRepeated
<1>1. PICK N \in Nat : N = Len(keyed) /\ DOMAIN keyed = 1..N
    BY DEF FactsInv, Facts!TypeOK
<1>2. ASSUME NEW i \in 1..N
      PROVE  LET prior == {k \in 1..i - 1 : keyed[k].key = keyed[i].key}
                 after == {k \in i + 1..Len(keyed) : keyed[k].key = keyed[i].key}
             IN /\ IF prior = {} THEN keyed[i].supersedes = 0
                   ELSE /\ keyed[i].supersedes \in prior
                        /\ \A k \in prior : k <= keyed[i].supersedes
                /\ keyed[i].active <=> after = {}
    <2> DEFINE prior == {k \in 1..i - 1 : keyed[k].key = keyed[i].key}
               after == {k \in i + 1..Len(keyed) : keyed[k].key = keyed[i].key}
    <2>1. Follows(keyed, i) /\ (Live(keyed[i]) <=> IsLast(keyed, i))
        BY <1>1 DEF FactsInv, Chain
    <2>2. prior = {k \in 1..N : k < i /\ keyed[k].key = keyed[i].key}
        OBVIOUS
    <2>3. after = {k \in 1..N : k > i /\ keyed[k].key = keyed[i].key}
        BY <1>1
    <2>4. after = {} <=> IsLast(keyed, i)
        BY <1>1, <2>3 DEF IsLast
    <2>5. keyed[i].active <=> after = {}
        BY <2>1, <2>4 DEF Live
    <2> HIDE DEF prior, after
    <2>6. IF prior = {} THEN keyed[i].supersedes = 0
          ELSE keyed[i].supersedes \in prior /\ \A k \in prior : k <= keyed[i].supersedes
        <3>1. CASE prior = {}
            <4>1. \A k \in 1..N : k < i => keyed[k].key # keyed[i].key
                BY <2>2, <3>1
            <4> QED
                BY <1>1, <2>1, <3>1, <4>1 DEF Follows
        <3>2. CASE prior # {}
            <4>1. \E k \in 1..N : k < i /\ keyed[k].key = keyed[i].key
                BY <2>2, <3>2
            <4>2. /\ keyed[i].supersedes \in 1..N /\ keyed[i].supersedes < i
                  /\ keyed[keyed[i].supersedes].key = keyed[i].key
                  /\ \A k \in 1..N : k < i /\ keyed[k].key = keyed[i].key => k <= keyed[i].supersedes
                BY <1>1, <2>1, <4>1 DEF Follows
            <4> QED
                BY <2>2, <3>2, <4>2
        <3> QED
            BY <3>1, <3>2
    <2> QED
        BY <2>5, <2>6 DEF prior, after
<1>3. Facts!OneChain
    BY <1>1, <1>2 DEF Facts!OneChain
<1>4. Facts!NothingRepeated
    BY DEF FactsInv, Differs, Facts!NothingRepeated
<1> QED
    BY <1>3, <1>4

\* A key that has rows has a current one.
LEMMA TeamAnswered ==
    ASSUME FactsInv
    PROVE  Facts!NotOfferedAgain
<1>1. SUFFICES ASSUME renamed
               PROVE  Facts!TeamStep # "todo"
    BY DEF Facts!NotOfferedAgain
<1>2. Answered(keyed)
    BY <1>1 DEF FactsInv
<1>3. keyed \in Seq(Facts!Row) /\ Held(keyed)
    BY DEF FactsInv, Facts!TypeOK
<1>4. IF Facts!Current("setup_team_names") = 0
      THEN \A i \in DOMAIN keyed : keyed[i].key # "setup_team_names"
      ELSE /\ Facts!Current("setup_team_names") \in DOMAIN keyed
           /\ keyed[Facts!Current("setup_team_names")].key = "setup_team_names"
           /\ Live(keyed[Facts!Current("setup_team_names")])
    BY <1>3, CurrentRow
<1>5. Facts!Current("setup_team_names") # 0
    BY <1>2, <1>4 DEF Answered
<1> QED
    BY <1>5 DEF Facts!TeamStep

-----------------------------------------------------------------------------
(* InvestorSetup: its inductive invariant *)

User == [preferred_name : BOOLEAN, team : Names, team_names : {"none", "answered", "skipped"},
         holdings : {"none", "skipped"}]

\* A preferred name was given; set apart as Live is.
Named(person) == person.preferred_name

\* The steps that were settled for good are, in what is known of the investor.
SettledIn(person, steps) ==
    /\ "investor_name" \in steps => Named(person)
    /\ "team_names" \in steps => person.team_names # "none"
    /\ "holdings" \in steps => person.holdings # "none"
    /\ "core_profile" \notin steps

Read == [at : {"idle", "persona", "memories", "known"}, user : User, unknown : SUBSET Topics,
         settled : SUBSET Guided!STEPS, setup : [Guided!STEPS -> {"todo", "done", "skipped"}]]

SetupInv ==
    /\ user \in User
    /\ known \in [Readers -> Read]
    /\ Guided!TypeOK
    /\ SettledIn(user, settled)
    /\ \A r \in Readers : SettledIn(known[r].user, known[r].settled)
    /\ Guided!NotAskedAgain

\* What a step's status is made of.
LEMMA StepStatus ==
    ASSUME NEW person \in User, NEW unknown, NEW tickers
    PROVE  LET setup == Guided!ComputeSetup(person, unknown, tickers) IN
           /\ setup \in [Guided!STEPS -> {"todo", "done", "skipped"}]
           /\ setup["investor_name"] = "todo" <=> ~Named(person)
           /\ setup["team_names"] = "todo" <=>
                person.team = DefaultName /\ person.team_names = "none"
           /\ setup["core_profile"] = "todo" <=> unknown # {}
           /\ setup["holdings"] = "todo" <=> tickers = {} /\ person.holdings = "none"
<1> DEFINE setup == Guided!ComputeSetup(person, unknown, tickers)
<1>1. setup \in [Guided!STEPS -> {"todo", "done", "skipped"}]
    BY DEF Guided!ComputeSetup
<1>2. setup["investor_name"] = "todo" <=> ~Named(person)
    BY DEF Guided!ComputeSetup, Guided!STEPS, Guided!Skippable, Named
<1>3. setup["team_names"] = "todo" <=> person.team = DefaultName /\ person.team_names = "none"
    BY DEF Guided!ComputeSetup, Guided!STEPS, Guided!Skippable, User
<1>4. setup["core_profile"] = "todo" <=> unknown # {}
    BY DEF Guided!ComputeSetup, Guided!STEPS, Guided!Skippable
<1>5. setup["holdings"] = "todo" <=> tickers = {} /\ person.holdings = "none"
    BY DEF Guided!ComputeSetup, Guided!STEPS, Guided!Skippable, User
<1> QED
    BY <1>1, <1>2, <1>3, <1>4, <1>5

\* A step that is settled is not to do.
LEMMA SettledNotTodo ==
    ASSUME NEW person \in User, NEW unknown, NEW tickers, NEW steps \in SUBSET Guided!STEPS,
           SettledIn(person, steps), NEW s \in steps
    PROVE  Guided!ComputeSetup(person, unknown, tickers)[s] # "todo"
<1>1. s \in {"investor_name", "team_names", "holdings"}
    BY DEF Guided!STEPS, SettledIn
<1> QED
    BY <1>1, StepStatus DEF SettledIn

LEMMA SetupInit == Guided!Init => SetupInv
<1> SUFFICES ASSUME Guided!Init
             PROVE  SetupInv
    OBVIOUS
<1> USE KeptAssumption DEF Guided!SetupAssumption
<1>1. /\ user = Guided!NobodyYet /\ remembered = [t \in Topics |-> 0] /\ held = {}
      /\ call = [c \in Turns |-> "idle"] /\ settled = {}
      /\ known = [r \in Readers |-> [at |-> "idle", user |-> Guided!NobodyYet, unknown |-> Topics,
                                     settled |-> {}, setup |-> [s \in Guided!STEPS |-> "todo"]]]
    BY DEF Guided!Init
<1>2. user \in User
    BY <1>1 DEF User, Guided!NobodyYet
<1>3. known \in [Readers -> Read] /\ \A r \in Readers : known[r].at = "idle" /\ known[r].settled = {}
    BY <1>1, <1>2 DEF Read
<1>4. SettledIn(user, settled) /\ \A r \in Readers : SettledIn(known[r].user, known[r].settled)
    BY <1>1, <1>3 DEF SettledIn
<1>5. Guided!TypeOK
    BY <1>1, <1>2, <1>3 DEF Guided!TypeOK, User, Read
<1> QED
    BY <1>2, <1>3, <1>4, <1>5 DEF SetupInv, Guided!NotAskedAgain

\* What a call does to the facts the setup reads: no name is taken back and no step is put again.
LEMMA CallKept ==
    ASSUME SetupInv, NEW c \in Turns,
           \/ Guided!SetIdentity(c) \/ Guided!Answer(c) \/ Guided!Die(c) \/ Guided!SetUserDetails(c)
           \/ Guided!SkipSetupStep(c) \/ Guided!Remember(c) \/ Guided!Forget(c)
           \/ Guided!SetHolding(c) \/ Guided!RemoveHolding(c)
    PROVE  /\ SetupInv'
           /\ Named(user) => Named(user)'
           /\ user.team_names # "none" => user'.team_names # "none"
           /\ user.holdings # "none" => user'.holdings # "none"
           /\ user'.team = user.team \/ call'[c] = "renamed"
<1> USE KeptAssumption DEF Guided!SetupAssumption
<1>1. /\ user \in User /\ Guided!TypeOK /\ SettledIn(user, settled)
      /\ remembered \in [Topics -> 0..MaxMemories] /\ held \subseteq Tickers
      /\ call \in [Turns -> {"idle", "renamed"}] /\ settled \subseteq Guided!STEPS
    BY DEF SetupInv, Guided!TypeOK
<1>2. UNCHANGED known
    BY DEF Guided!SetIdentity, Guided!Answer, Guided!Die, Guided!SetUserDetails, Guided!SkipSetupStep,
           Guided!Remember, Guided!Forget, Guided!SetHolding, Guided!RemoveHolding
<1>3. SUFFICES /\ user' \in User /\ SettledIn(user, settled)'
               /\ remembered' \in [Topics -> 0..MaxMemories] /\ held' \subseteq Tickers
               /\ call' \in [Turns -> {"idle", "renamed"}] /\ settled' \subseteq Guided!STEPS
               /\ Named(user) => Named(user)'
               /\ user.team_names # "none" => user'.team_names # "none"
               /\ user.holdings # "none" => user'.holdings # "none"
               /\ user'.team = user.team \/ call'[c] = "renamed"
    <2>1. ASSUME user' \in User, SettledIn(user, settled)',
                 remembered' \in [Topics -> 0..MaxMemories], held' \subseteq Tickers,
                 call' \in [Turns -> {"idle", "renamed"}], settled' \subseteq Guided!STEPS
          PROVE  SetupInv'
        <3>1. Guided!TypeOK'
            BY <1>1, <1>2, <2>1 DEF Guided!TypeOK, User
        <3> QED
            BY <1>2, <2>1, <3>1 DEF SetupInv, Guided!NotAskedAgain
    <2> QED
        BY <2>1
<1>4. CASE Guided!SetIdentity(c)
    <2>1. PICK name \in Names : user' = [user EXCEPT !.team = name]
        BY <1>4 DEF Guided!SetIdentity
    <2>2. call' = [call EXCEPT ![c] = "renamed"] /\ UNCHANGED <<remembered, held, settled>>
        BY <1>4 DEF Guided!SetIdentity
    <2>3. /\ user' \in User /\ Named(user)' = Named(user)
          /\ user'.team_names = user.team_names /\ user'.holdings = user.holdings
        BY <1>1, <2>1 DEF User, Named
    <2> QED
        BY <1>1, <2>2, <2>3 DEF SettledIn
<1>5. CASE Guided!Answer(c)
    <2>1. /\ user' = [user EXCEPT !.team_names = "answered"]
          /\ settled' = settled \cup {"team_names"}
          /\ call' = [call EXCEPT ![c] = "idle"] /\ UNCHANGED <<remembered, held>>
        BY <1>5 DEF Guided!Answer
    <2>2. /\ user' \in User /\ Named(user)' = Named(user) /\ user'.team = user.team
          /\ user'.team_names = "answered" /\ user'.holdings = user.holdings
        BY <1>1, <2>1 DEF User, Named
    <2> QED
        BY <1>1, <2>1, <2>2 DEF SettledIn, Guided!STEPS
<1>6. CASE Guided!Die(c)
    <2>1. call' = [call EXCEPT ![c] = "idle"] /\ UNCHANGED <<user, remembered, held, settled>>
        BY <1>6 DEF Guided!Die, Guided!investor
    <2> QED
        BY <1>1, <2>1 DEF SettledIn, Named
<1>7. CASE Guided!SetUserDetails(c)
    <2>1. /\ user' = [user EXCEPT !.preferred_name = TRUE]
          /\ settled' = settled \cup {"investor_name"} /\ UNCHANGED <<remembered, held, call>>
        BY <1>7 DEF Guided!SetUserDetails
    <2>2. /\ user' \in User /\ Named(user)' /\ user'.team = user.team
          /\ user'.team_names = user.team_names /\ user'.holdings = user.holdings
        BY <1>1, <2>1 DEF User, Named
    <2> QED
        BY <1>1, <2>1, <2>2 DEF SettledIn, Guided!STEPS
<1>8. CASE Guided!SkipSetupStep(c)
    <2>1. PICK step \in Guided!Skippable :
            user' = [user EXCEPT ![step] = "skipped"] /\ settled' = settled \cup {step}
        BY <1>8 DEF Guided!SkipSetupStep
    <2>2. UNCHANGED <<remembered, held, call>>
        BY <1>8 DEF Guided!SkipSetupStep
    <2>3. CASE step = "team_names"
        <3>1. user' = [user EXCEPT !.team_names = "skipped"]
            BY <2>1, <2>3
        <3>2. /\ user' \in User /\ Named(user)' = Named(user) /\ user'.team = user.team
              /\ user'.team_names = "skipped" /\ user'.holdings = user.holdings
            BY <1>1, <3>1 DEF User, Named
        <3> QED
            BY <1>1, <2>1, <2>2, <2>3, <3>2 DEF SettledIn, Guided!STEPS
    <2>4. CASE step = "holdings"
        <3>1. user' = [user EXCEPT !.holdings = "skipped"]
            BY <2>1, <2>4
        <3>2. /\ user' \in User /\ Named(user)' = Named(user) /\ user'.team = user.team
              /\ user'.team_names = user.team_names /\ user'.holdings = "skipped"
            BY <1>1, <3>1 DEF User, Named
        <3> QED
            BY <1>1, <2>1, <2>2, <2>4, <3>2 DEF SettledIn, Guided!STEPS
    <2> QED
        BY <2>3, <2>4 DEF Guided!Skippable
<1>9. CASE Guided!Remember(c) \/ Guided!Forget(c)
    <2>1. UNCHANGED <<user, held, call, settled>>
        BY <1>9 DEF Guided!Remember, Guided!Forget
    <2>2. remembered' \in [Topics -> 0..MaxMemories]
        <3>1. CASE Guided!Remember(c)
            BY <1>1, <3>1 DEF Guided!Remember
        <3>2. CASE Guided!Forget(c)
            BY <1>1, <3>2 DEF Guided!Forget
        <3> QED
            BY <1>9, <3>1, <3>2
    <2> QED
        BY <1>1, <2>1, <2>2 DEF SettledIn, Named
<1>10. CASE Guided!SetHolding(c) \/ Guided!RemoveHolding(c)
    <2>1. UNCHANGED <<user, remembered, call, settled>> /\ held' \subseteq Tickers
        BY <1>1, <1>10 DEF Guided!SetHolding, Guided!RemoveHolding
    <2> QED
        BY <1>1, <2>1 DEF SettledIn, Named
<1> QED
    BY <1>4, <1>5, <1>6, <1>7, <1>8, <1>9, <1>10

\* A read that goes on keeps what it read first, and what it finds last is decided from that.
LEMMA ReadKept ==
    ASSUME SetupInv, NEW r \in Readers,
           Guided!ReadPersona(r) \/ Guided!ReadMemories(r) \/ Guided!ReadHoldings(r)
    PROVE  SetupInv' /\ UNCHANGED <<user, remembered, held, call>>
<1>1. /\ user \in User /\ known \in [Readers -> Read] /\ settled \subseteq Guided!STEPS
      /\ SettledIn(user, settled) /\ SettledIn(known[r].user, known[r].settled)
    BY DEF SetupInv, Guided!TypeOK
<1>2. UNCHANGED <<user, remembered, held, call, settled>>
    BY DEF Guided!ReadPersona, Guided!ReadMemories, Guided!ReadHoldings, Guided!investor
<1>3. SUFFICES ASSUME NEW new \in Read, known' = [known EXCEPT ![r] = new],
                      SettledIn(new.user, new.settled),
                      new.at = "known" => \A s \in new.settled : new.setup[s] # "todo"
               PROVE  SetupInv'
    <2>1. known[r] \in Read
        BY <1>1
    <2>2. CASE Guided!ReadPersona(r)
        <3> DEFINE new == [known[r] EXCEPT !.at = "persona", !.user = user, !.settled = settled,
                                           !.unknown = Topics,
                                           !.setup = [s \in Guided!STEPS |-> "todo"]]
        <3>1. known' = [known EXCEPT ![r] = new]
            BY <2>2 DEF Guided!ReadPersona
        <3>2. new \in Read /\ new.at = "persona" /\ new.user = user /\ new.settled = settled
            BY <1>1, <2>1 DEF Read
        <3> HIDE DEF new
        <3> QED
            BY <1>1, <1>2, <1>3, <3>1, <3>2
    <2>3. CASE Guided!ReadMemories(r)
        <3> DEFINE new == [known[r] EXCEPT !.at = "memories",
                                           !.unknown = Guided!UnknownTopics(remembered)]
        <3>1. known' = [known EXCEPT ![r] = new]
            BY <2>3 DEF Guided!ReadMemories
        <3>2. Guided!UnknownTopics(remembered) \in SUBSET Topics
            BY DEF Guided!UnknownTopics
        <3>3. /\ new \in Read /\ new.at = "memories" /\ new.user = known[r].user
              /\ new.settled = known[r].settled
            BY <2>1, <3>2 DEF Read
        <3> HIDE DEF new
        <3> QED
            BY <1>1, <1>2, <1>3, <3>1, <3>3
    <2>4. CASE Guided!ReadHoldings(r)
        <3> DEFINE setup == Guided!ComputeSetup(known[r].user, known[r].unknown, held)
                   new == [known[r] EXCEPT !.at = "known", !.setup = setup]
        <3>1. known' = [known EXCEPT ![r] = new]
            BY <2>4 DEF Guided!ReadHoldings
        <3>2. known[r].user \in User /\ known[r].settled \in SUBSET Guided!STEPS
            BY <2>1 DEF Read
        <3>3. /\ setup \in [Guided!STEPS -> {"todo", "done", "skipped"}]
              /\ \A s \in known[r].settled : setup[s] # "todo"
            BY <1>1, <3>2, StepStatus, SettledNotTodo
        <3> HIDE DEF setup
        <3>4. /\ new \in Read /\ new.user = known[r].user /\ new.settled = known[r].settled
              /\ new.setup = setup
            BY <2>1, <3>3 DEF Read
        <3> HIDE DEF new
        <3> QED
            BY <1>1, <1>2, <1>3, <3>1, <3>3, <3>4
    <2> QED
        BY <2>2, <2>3, <2>4
<1>4. /\ known' \in [Readers -> Read] /\ known'[r] = new
      /\ \A q \in Readers \ {r} : known'[q] = known[q]
    BY <1>1, <1>3
<1>5. Guided!TypeOK'
    BY <1>2, <1>4 DEF SetupInv, Guided!TypeOK, Read
<1>6. Guided!NotAskedAgain'
    BY <1>3, <1>4 DEF SetupInv, Guided!NotAskedAgain
<1>7. \A q \in Readers : SettledIn(known[q].user, known[q].settled)'
    BY <1>3, <1>4 DEF SetupInv, SettledIn, Named
<1> QED
    BY <1>2, <1>4, <1>5, <1>6, <1>7 DEF SetupInv, SettledIn, Named

\* A step of the setup: what is ready stays so, unless a memory or a holding is taken away or a name is
\* being changed.
LEMMA SetupStep ==
    ASSUME SetupInv, Guided!Next
    PROVE  /\ SetupInv'
           /\ Guided!Stage(Guided!Setup) = "ready" /\ Guided!Stage(Guided!Setup)' = "setup" =>
                \/ /\ Guided!UnknownTopics(remembered) = {}
                   /\ Guided!UnknownTopics(remembered)' # {}
                \/ held # {} /\ held' = {}
                \/ \E c \in Turns : call'[c] = "renamed"
<1>1. /\ SetupInv'
      /\ Named(user) => Named(user)'
      /\ user.team_names # "none" => user'.team_names # "none"
      /\ user.holdings # "none" => user'.holdings # "none"
      /\ user'.team = user.team \/ \E c \in Turns : call'[c] = "renamed"
    <2>1. CASE \E r \in Readers :
                 Guided!ReadPersona(r) \/ Guided!ReadMemories(r) \/ Guided!ReadHoldings(r)
        BY <2>1, ReadKept DEF Named
    <2>2. CASE \E c \in Turns :
                 \/ Guided!SetIdentity(c) \/ Guided!Answer(c) \/ Guided!Die(c)
                 \/ Guided!SetUserDetails(c) \/ Guided!SkipSetupStep(c) \/ Guided!Remember(c)
                 \/ Guided!Forget(c) \/ Guided!SetHolding(c) \/ Guided!RemoveHolding(c)
        BY <2>2, CallKept
    <2> QED
        BY <2>1, <2>2 DEF Guided!Next
<1>2. user \in User /\ user' \in User
    BY <1>1 DEF SetupInv
<1>3. SUFFICES ASSUME Guided!Stage(Guided!Setup) = "ready", Guided!Stage(Guided!Setup)' = "setup",
                      user'.team = user.team
               PROVE  \/ /\ Guided!UnknownTopics(remembered) = {}
                         /\ Guided!UnknownTopics(remembered)' # {}
                      \/ held # {} /\ held' = {}
    BY <1>1
<1>4. PICK unknown, later : /\ unknown = Guided!UnknownTopics(remembered)
                            /\ later = Guided!UnknownTopics(remembered)'
    OBVIOUS
<1>5. PICK person, mine, theirs, ours :
        person = user /\ theirs = user' /\ mine = held /\ ours = held'
    OBVIOUS
<1>6. /\ Guided!Stage(Guided!ComputeSetup(person, unknown, mine)) = "ready"
      /\ Guided!Stage(Guided!ComputeSetup(theirs, later, ours)) = "setup"
    BY <1>3, <1>4, <1>5 DEF Guided!Setup, Guided!Stage, Guided!ComputeSetup, Guided!UnknownTopics
<1>7. \A s \in Guided!STEPS : Guided!ComputeSetup(person, unknown, mine)[s] # "todo"
    BY <1>6 DEF Guided!Stage
<1>8. PICK s \in Guided!STEPS : Guided!ComputeSetup(theirs, later, ours)[s] = "todo"
    BY <1>6 DEF Guided!Stage
<1>9. person \in User /\ theirs \in User
    BY <1>2, <1>5
<1>10. CASE s = "investor_name"
    <2>1. Named(person)
        BY <1>7, <1>9, StepStatus DEF Guided!STEPS
    <2>2. ~Named(theirs)
        BY <1>8, <1>9, <1>10, StepStatus
    <2> QED
        BY <1>1, <1>5, <2>1, <2>2 DEF Named
<1>11. CASE s = "team_names"
    <2>1. person.team # DefaultName \/ person.team_names # "none"
        BY <1>7, <1>9, StepStatus DEF Guided!STEPS
    <2>2. theirs.team = DefaultName /\ theirs.team_names = "none"
        BY <1>8, <1>9, <1>11, StepStatus
    <2> QED
        BY <1>1, <1>3, <1>5, <2>1, <2>2
<1>12. CASE s = "core_profile"
    <2>1. unknown = {}
        BY <1>7, <1>9, StepStatus DEF Guided!STEPS
    <2>2. later # {}
        BY <1>8, <1>9, <1>12, StepStatus
    <2> QED
        BY <1>4, <2>1, <2>2
<1>13. CASE s = "holdings"
    <2>1. mine # {} \/ person.holdings # "none"
        BY <1>7, <1>9, StepStatus DEF Guided!STEPS
    <2>2. ours = {} /\ theirs.holdings = "none"
        BY <1>8, <1>9, <1>13, StepStatus
    <2> QED
        BY <1>1, <1>5, <2>1, <2>2
<1> QED
    BY <1>10, <1>11, <1>12, <1>13 DEF Guided!STEPS

LEMMA SetupUnchanged ==
    ASSUME SetupInv, UNCHANGED setupVars
    PROVE  SetupInv'
<1>1. UNCHANGED <<user, remembered, held, call, known, settled>>
    BY DEF setupVars
<1> QED
    BY <1>1 DEF SetupInv, Guided!TypeOK, Guided!NotAskedAgain, SettledIn, Named

-----------------------------------------------------------------------------
(* Backup: numbers, the greatest of which is last *)

Above(S, r) == {s \in S : s > r}

LEMMA AboveLarger ==
    ASSUME NEW S \in SUBSET Nat, NEW r \in Nat, NEW s \in Nat, s > r
    PROVE  Above(S, s) \subseteq Above(S, r)
<1>1. SUFFICES ASSUME NEW x \in Above(S, s)
               PROVE  x \in Above(S, r)
    OBVIOUS
<1>2. x \in S /\ x > s /\ x \in Nat
    BY DEF Above
<1>3. x > r
    BY <1>2
<1> QED
    BY <1>2, <1>3 DEF Above

LEMMA Larger ==
    ASSUME NEW S, NEW T, S \subseteq T, IsFiniteSet(T)
    PROVE  IsFiniteSet(S) /\ Cardinality(S) \in Nat /\ Cardinality(T) \in Nat
           /\ Cardinality(S) <= Cardinality(T)
BY FS_Subset, FS_CardinalityType

\* Of subsets of a finite set that its members name, one has none of the others within.
Within(f, s, m) == f[s] \subseteq f[m] /\ f[s] # f[m]

LEMMA Smallest ==
    ASSUME NEW S, IsFiniteSet(S), S # {}, NEW f \in [S -> SUBSET S]
    PROVE  \E m \in S : \A s \in S : ~Within(f, s, m)
<1> DEFINE T == {f[r] : r \in S}
<1>1. T \subseteq FiniteSubsetsOf(S) /\ T # {}
    BY FS_Subset DEF FiniteSubsetsOf
<1>2. PICK U \in T : \A V \in T : ~(<<V, U>> \in StrictSubsetOrdering(S))
    <2> HIDE DEF T
    <2> QED
        BY <1>1, FS_StrictSubsetOrderingWellFounded, WFMin
<1>3. PICK m \in S : U = f[m]
    BY <1>2
<1>4. \A s \in S : ~(<<f[s], f[m]>> \in StrictSubsetOrdering(S))
    BY <1>2, <1>3
<1>5. \A s \in S : f[s] \in SUBSET S
    OBVIOUS
<1>6. \A s \in S : ~Within(f, s, m)
    BY <1>4, <1>5 DEF StrictSubsetOrdering, Within
<1> QED
    BY <1>6

LEMMA Greatest ==
    ASSUME NEW S \in SUBSET Nat, IsFiniteSet(S), S # {}
    PROVE  \E m \in S : \A s \in S : s <= m
<1>1. PICK from \in [S -> SUBSET S] : \A r, s \in S : s \in from[r] <=> s >= r
    <2> DEFINE f == [r \in S |-> {s \in S : s >= r}]
    <2>1. f \in [S -> SUBSET S] /\ \A r, s \in S : s \in f[r] <=> s >= r
        OBVIOUS
    <2> HIDE DEF f
    <2> QED
        BY <2>1
<1>2. PICK m \in S : \A s \in S : ~Within(from, s, m)
    BY Smallest
<1>3. ASSUME NEW s \in S, s > m
      PROVE  FALSE
    <2>1. \A x \in from[s] : x \in S /\ x \in Nat /\ x >= s
        BY <1>1
    <2>2. \A x \in from[s] : x >= m
        BY <1>3, <2>1
    <2>3. from[s] \subseteq from[m]
        BY <1>1, <2>1, <2>2
    <2>4. m \in from[m] /\ m \notin from[s]
        BY <1>1, <1>3
    <2> QED
        BY <1>2, <2>3, <2>4 DEF Within
<1> QED
    BY <1>2, <1>3

LEMMA Least ==
    ASSUME NEW S \in SUBSET Nat, IsFiniteSet(S), S # {}
    PROVE  \E m \in S : \A s \in S : m <= s
<1>1. PICK upTo \in [S -> SUBSET S] : \A r, s \in S : s \in upTo[r] <=> s <= r
    <2> DEFINE f == [r \in S |-> {s \in S : s <= r}]
    <2>1. f \in [S -> SUBSET S] /\ \A r, s \in S : s \in f[r] <=> s <= r
        OBVIOUS
    <2> HIDE DEF f
    <2> QED
        BY <2>1
<1>2. PICK m \in S : \A s \in S : ~Within(upTo, s, m)
    BY Smallest
<1>3. ASSUME NEW s \in S, s < m
      PROVE  FALSE
    <2>1. \A x \in upTo[s] : x \in S /\ x \in Nat /\ x <= s
        BY <1>1
    <2>2. \A x \in upTo[s] : x <= m
        BY <1>3, <2>1
    <2>3. upTo[s] \subseteq upTo[m]
        BY <1>1, <2>1, <2>2
    <2>4. m \in upTo[m] /\ m \notin upTo[s]
        BY <1>1, <1>3
    <2> QED
        BY <1>2, <2>3, <2>4 DEF Within
<1> QED
    BY <1>2, <1>3

\* Backup's own Cardinality is the one the facts about finite sets are about.
LEMMA SameCardinality == \A S : Nightly!Cardinality(S) = Cardinality(S)
BY DEF Nightly!Cardinality, Cardinality

\* No more than Keep are among the newest Keep, and what is not has Keep after it.
LEMMA NewestBounded ==
    ASSUME NEW S \in SUBSET Nat, IsFiniteSet(S)
    PROVE  /\ Nightly!Newest(S) \subseteq S
           /\ Cardinality(Nightly!Newest(S)) <= Keep
           /\ \A r \in S \ Nightly!Newest(S) : Cardinality(Above(S, r)) >= Keep
           /\ \A r \in Nightly!Newest(S), s \in S : s > r => s \in Nightly!Newest(S)
<1>1. Keep \in Nat \ {0}
    BY KeptAssumption DEF Nightly!BackupAssumption
<1>2. Nightly!Newest(S) = {r \in S : Cardinality(Above(S, r)) < Keep}
    BY SameCardinality DEF Nightly!Newest, Above
<1>3. PICK T : T = Nightly!Newest(S)
    OBVIOUS
<1>4. T \subseteq S /\ \A r \in S : r \in T <=> Cardinality(Above(S, r)) < Keep
    BY <1>2, <1>3
<1>5. \A r \in S : Above(S, r) \subseteq S /\ Cardinality(Above(S, r)) \in Nat
    <2>1. \A r \in S : Above(S, r) \subseteq S
        BY DEF Above
    <2> QED
        BY <2>1, Larger
<1>6. Cardinality(T) <= Keep
    <2>1. CASE T = {}
        BY <1>1, <2>1, FS_EmptySet
    <2>2. CASE T # {}
        <3>1. T \in SUBSET Nat /\ IsFiniteSet(T) /\ Cardinality(T) \in Nat
            BY <1>4, Larger
        <3>2. PICK m \in T : \A s \in T : m <= s
            BY <2>2, <3>1, Least
        <3>3. \A s \in T \ {m} : s \in S /\ s > m
            BY <1>4, <3>1, <3>2
        <3>4. T \ {m} \subseteq Above(S, m)
            BY <3>3 DEF Above
        <3>5. IsFiniteSet(Above(S, m))
            BY <1>4, <1>5, Larger
        <3>6. Cardinality(T \ {m}) <= Cardinality(Above(S, m))
            BY <3>4, <3>5, Larger
        <3>7. Cardinality(T \ {m}) = Cardinality(T) - 1
            BY <3>1, <3>2, FS_RemoveElement
        <3>8. Cardinality(Above(S, m)) < Keep /\ Cardinality(Above(S, m)) \in Nat
            BY <1>4, <1>5, <3>2
        <3> QED
            BY <1>1, <3>1, <3>6, <3>7, <3>8
    <2> QED
        BY <2>1, <2>2
<1>7. \A r \in S \ T : Cardinality(Above(S, r)) >= Keep
    BY <1>1, <1>4, <1>5
<1>8. ASSUME NEW r \in T, NEW s \in S, s > r
      PROVE  s \in T
    <2>1. r \in S /\ r \in Nat /\ s \in Nat
        BY <1>4
    <2>2. Above(S, s) \subseteq Above(S, r)
        BY <1>8, <2>1, AboveLarger
    <2>3. IsFiniteSet(Above(S, r))
        BY <1>5, <2>1, Larger
    <2>4. Cardinality(Above(S, s)) <= Cardinality(Above(S, r))
        BY <2>2, <2>3, Larger
    <2> QED
        BY <1>1, <1>4, <1>5, <2>1, <2>4
<1> QED
    BY <1>3, <1>4, <1>6, <1>7, <1>8

-----------------------------------------------------------------------------
(* Backup: its files *)

Writes == {"pg_dump", "stat", "copy", "check", "compare", "tar", "keep_dump"}
Loops == {"now", "next", "today", "sleep"}
Commands == Writes \cup {"keep_tar", "prune_dumps", "prune_tars", "gone"} \cup Loops

\* The dumps put in place by runs that are past their second rename, or are over.
Over(step, r, dumped) == dumped \ (IF step = "keep_tar" THEN {r} ELSE {})

\* A run whose dump alone was put in place is one that broke; what was removed has Keep newer ones
\* among the runs that are over; and a tar that is on disk has all the newer ones there with it.
FilesInv ==
    /\ run \in 1..MaxRuns /\ broken \in Nat /\ at \in Commands
    /\ dumps \subseteq everDumped /\ everDumped \subseteq 1..run
    /\ tars \subseteq everTarred /\ everTarred \subseteq Over(at, run, everDumped)
    /\ at \in Writes => run \notin everDumped
    /\ at = "keep_tar" => run \in everDumped
    /\ Cardinality(Over(at, run, everDumped) \ everTarred) <= broken
    /\ \A r \in everDumped \ dumps : Cardinality(Above(Over(at, run, everDumped), r)) >= Keep
    /\ \A r \in everTarred \ tars : Cardinality(Above(everTarred, r)) >= Keep
    /\ \A r \in tars, s \in everTarred : s > r => s \in tars
    /\ at \in {"prune_tars"} \cup Loops => Cardinality(dumps) <= Keep
    /\ at \in Loops => Cardinality(tars) <= Keep

\* The runs are few, so what they leave is finite.
LEMMA FilesFinite ==
    ASSUME FilesInv
    PROVE  /\ run \in Nat /\ everDumped \subseteq 1..run
           /\ everDumped \in SUBSET Nat /\ IsFiniteSet(everDumped)
           /\ \A S \in SUBSET everDumped : S \in SUBSET Nat /\ IsFiniteSet(S) /\ Cardinality(S) \in Nat
           /\ Over(at, run, everDumped) \subseteq everDumped /\ everTarred \subseteq everDumped
<1>1. run \in Nat /\ everDumped \subseteq 1..run
    BY KeptAssumption DEF FilesInv, Nightly!BackupAssumption
<1>2. everDumped \in SUBSET Nat /\ IsFiniteSet(everDumped)
    <2>1. 1 \in Int /\ run \in Int /\ \A r \in 1..run : r \in Nat
        BY <1>1
    <2>2. IsFiniteSet(1..run)
        BY <2>1, FS_Interval
    <2> QED
        BY <1>1, <2>1, <2>2, Larger
<1>3. ASSUME NEW S \in SUBSET everDumped
      PROVE  S \in SUBSET Nat /\ IsFiniteSet(S) /\ Cardinality(S) \in Nat
    BY <1>2, Larger
<1> QED
    BY <1>1, <1>2, <1>3 DEF FilesInv, Over

\* A command that moves no file and ends no run between its renames.
LEMMA FilesFrame ==
    ASSUME FilesInv, UNCHANGED <<run, dumps, tars, everDumped, everTarred, broken>>,
           at # "keep_tar", at' \in Commands \ {"keep_tar"},
           at' \in Writes => at \in Writes,
           at' \in {"prune_tars"} \cup Loops => at \in {"prune_tars"} \cup Loops,
           at' \in Loops => at \in Loops
    PROVE  FilesInv'
<1>1. Over(at, run, everDumped)' = Over(at, run, everDumped)
    BY DEF Over
<1> QED
    BY <1>1 DEF FilesInv

\* More runs are over: what was removed still has Keep newer ones.
LEMMA MoreAbove ==
    ASSUME NEW S \in SUBSET Nat, NEW T \in SUBSET Nat, S \subseteq T, IsFiniteSet(T), NEW r,
           Cardinality(Above(S, r)) >= Keep
    PROVE  Cardinality(Above(T, r)) >= Keep
<1>1. Above(S, r) \subseteq Above(T, r) /\ Above(T, r) \subseteq T
    BY DEF Above
<1>2. IsFiniteSet(Above(T, r))
    BY <1>1, Larger
<1>3. /\ Cardinality(Above(S, r)) <= Cardinality(Above(T, r))
      /\ Cardinality(Above(S, r)) \in Nat /\ Cardinality(Above(T, r)) \in Nat
    BY <1>1, <1>2, Larger
<1> QED
    BY <1>3, KeptAssumption DEF Nightly!BackupAssumption

LEMMA FilesKeepDump ==
    ASSUME FilesInv, Nightly!KeepDump
    PROVE  FilesInv'
<1>1. /\ at = "keep_dump" /\ at' = "keep_tar" /\ dumps' = dumps \cup {run}
      /\ everDumped' = everDumped \cup {run} /\ UNCHANGED <<run, tars, everTarred, broken>>
    BY DEF Nightly!KeepDump
<1>2. run \notin everDumped
    BY <1>1 DEF FilesInv, Writes
<1>3. Over(at, run, everDumped) = everDumped /\ Over(at, run, everDumped)' = everDumped
    BY <1>1, <1>2 DEF Over
<1>4. everDumped' \ dumps' = everDumped \ dumps
    BY <1>1, <1>2
<1>5. run \in 1..run
    BY KeptAssumption DEF FilesInv, Nightly!BackupAssumption
<1>6. at' \in Commands /\ at' \notin Writes /\ at' \notin {"prune_tars"} \cup Loops
    BY <1>1 DEF Commands, Writes, Loops
<1> QED
    BY <1>1, <1>3, <1>4, <1>5, <1>6 DEF FilesInv

LEMMA FilesKeepTar ==
    ASSUME FilesInv, Nightly!KeepTar
    PROVE  FilesInv'
<1>1. /\ at = "keep_tar" /\ at' = "prune_dumps" /\ tars' = tars \cup {run}
      /\ everTarred' = everTarred \cup {run} /\ UNCHANGED <<run, dumps, everDumped, broken>>
    BY DEF Nightly!KeepTar
<1>2. run \in everDumped /\ run \notin everTarred
    BY <1>1 DEF FilesInv, Over
<1>3. Over(at, run, everDumped) = everDumped \ {run} /\ Over(at, run, everDumped)' = everDumped
    BY <1>1 DEF Over
<1>4. Over(at, run, everDumped)' \ everTarred' = Over(at, run, everDumped) \ everTarred
    BY <1>1, <1>3
<1>5. \A r \in everDumped \ dumps : Cardinality(Above(everDumped, r)) >= Keep
    <2>1. everDumped \ {run} \in SUBSET Nat /\ everDumped \in SUBSET Nat /\ IsFiniteSet(everDumped)
        BY FilesFinite
    <2> QED
        BY <1>3, <2>1, MoreAbove DEF FilesInv
<1>6. \A r \in everTarred' \ tars' : Cardinality(Above(everTarred', r)) >= Keep
    <2>1. /\ everTarred \in SUBSET Nat /\ everTarred' \in SUBSET Nat /\ IsFiniteSet(everTarred')
          /\ everTarred \subseteq everTarred'
        BY <1>1, <1>2, FilesFinite
    <2>2. \A r \in everTarred' \ tars' : r \in everTarred \ tars
        BY <1>1
    <2> QED
        BY <2>1, <2>2, MoreAbove DEF FilesInv
<1>7. \A r \in tars', s \in everTarred' : s > r => s \in tars'
    <2>1. \A s \in everTarred : s <= run /\ ~(s > run)
        <3>1. everTarred \subseteq 1..run /\ run \in Nat
            BY FilesFinite
        <3> QED
            BY <3>1
    <2>2. \A r \in tars, s \in everTarred : s > r => s \in tars
        BY DEF FilesInv
    <2> QED
        BY <1>1, <2>1, <2>2
<1>8. at' \in Commands /\ at' \notin Writes /\ at' \notin {"prune_tars"} \cup Loops
    BY <1>1 DEF Commands, Writes, Loops
<1>9. everTarred' \subseteq everDumped
    BY <1>1, <1>2, <1>3 DEF FilesInv
<1>10. Cardinality(Over(at, run, everDumped)' \ everTarred') <= broken'
    BY <1>1, <1>4 DEF FilesInv
<1> QED
    BY <1>1, <1>3, <1>5, <1>6, <1>7, <1>8, <1>9, <1>10 DEF FilesInv

LEMMA FilesPruneDumps ==
    ASSUME FilesInv, Nightly!PruneDumps
    PROVE  FilesInv'
<1>1. /\ at = "prune_dumps" /\ at' = "prune_tars" /\ dumps' = Nightly!Newest(dumps)
      /\ UNCHANGED <<run, tars, everDumped, everTarred, broken>>
    BY DEF Nightly!PruneDumps
<1>2. Over(at, run, everDumped) = everDumped /\ Over(at, run, everDumped)' = everDumped
    BY <1>1 DEF Over
<1>3. dumps \in SUBSET Nat /\ IsFiniteSet(dumps) /\ dumps \subseteq everDumped
    BY FilesFinite DEF FilesInv
<1>4. /\ dumps' \subseteq dumps /\ Cardinality(dumps') <= Keep
      /\ \A r \in dumps \ dumps' : Cardinality(Above(dumps, r)) >= Keep
    BY <1>1, <1>3, NewestBounded
<1>5. \A r \in everDumped' \ dumps' : Cardinality(Above(everDumped, r)) >= Keep
    <2>1. \A r \in everDumped \ dumps : Cardinality(Above(everDumped, r)) >= Keep
        BY <1>2 DEF FilesInv
    <2>2. \A r \in dumps \ dumps' : Cardinality(Above(everDumped, r)) >= Keep
        BY <1>3, <1>4, FilesFinite, MoreAbove
    <2> QED
        BY <1>1, <2>1, <2>2
<1>6. at' \in Commands /\ at' \notin Writes /\ at' # "keep_tar" /\ at' \notin Loops
    BY <1>1 DEF Commands, Writes, Loops
<1> QED
    BY <1>1, <1>2, <1>3, <1>4, <1>5, <1>6 DEF FilesInv

LEMMA FilesPruneTars ==
    ASSUME FilesInv, Nightly!PruneTars
    PROVE  FilesInv'
<1>1. /\ at = "prune_tars" /\ at' = "now" /\ tars' = Nightly!Newest(tars)
      /\ UNCHANGED <<run, dumps, everDumped, everTarred, broken>>
    BY DEF Nightly!PruneTars
<1>2. Over(at, run, everDumped)' = Over(at, run, everDumped)
    BY <1>1 DEF Over
<1>3. tars \in SUBSET Nat /\ IsFiniteSet(tars) /\ tars \subseteq everTarred
    BY FilesFinite DEF FilesInv
<1>4. /\ tars' \subseteq tars /\ Cardinality(tars') <= Keep
      /\ \A r \in tars \ tars' : Cardinality(Above(tars, r)) >= Keep
      /\ \A r \in tars', s \in tars : s > r => s \in tars'
    BY <1>1, <1>3, NewestBounded
<1>5. \A r \in everTarred' \ tars' : Cardinality(Above(everTarred, r)) >= Keep
    <2>1. \A r \in everTarred \ tars : Cardinality(Above(everTarred, r)) >= Keep
        BY DEF FilesInv
    <2>2. everTarred \in SUBSET Nat /\ IsFiniteSet(everTarred)
        BY FilesFinite
    <2>3. \A r \in tars \ tars' : Cardinality(Above(everTarred, r)) >= Keep
        BY <1>3, <1>4, <2>2, MoreAbove
    <2> QED
        BY <1>1, <2>1, <2>3
<1>6. \A r \in tars', s \in everTarred : s > r => s \in tars'
    <2>1. \A r \in tars, s \in everTarred : s > r => s \in tars
        BY DEF FilesInv
    <2> QED
        BY <1>4, <2>1
<1>7. at' \in Commands /\ at' \notin Writes /\ at' # "keep_tar"
    BY <1>1 DEF Commands, Writes, Loops
<1>8. tars' \subseteq everTarred
    BY <1>3, <1>4
<1> QED
    BY <1>1, <1>2, <1>4, <1>5, <1>6, <1>7, <1>8 DEF FilesInv

\* A run that ends between its renames is one that broke.
LEMMA FilesGone ==
    ASSUME FilesInv, Nightly!Gone
    PROVE  FilesInv'
<1>1. /\ Nightly!Dumping /\ at' = "gone" /\ UNCHANGED <<run, dumps, tars, everDumped, everTarred>>
      /\ broken' = (IF at = "keep_tar" THEN broken + 1 ELSE broken)
    BY DEF Nightly!Gone
<1>2. at' \in Commands \ {"keep_tar"} /\ at' \notin Writes /\ at' \notin {"prune_tars"} \cup Loops
    BY <1>1 DEF Commands, Writes, Loops
<1>3. CASE at # "keep_tar"
    BY <1>1, <1>2, <1>3, FilesFrame
<1>4. CASE at = "keep_tar"
    <2>1. Over(at, run, everDumped) = everDumped \ {run} /\ Over(at, run, everDumped)' = everDumped
        BY <1>1, <1>4 DEF Over
    <2> DEFINE broke == (everDumped \ {run}) \ everTarred
    <2>2. everDumped \ everTarred \subseteq broke \cup {run}
        OBVIOUS
    <2>3. IsFiniteSet(broke) /\ Cardinality(broke) \in Nat /\ Cardinality(broke) <= broken
        BY <2>1, FilesFinite DEF FilesInv
    <2> HIDE DEF broke
    <2>4. /\ IsFiniteSet(broke \cup {run})
          /\ Cardinality(broke \cup {run}) <= Cardinality(broke) + 1
        BY <2>3, FS_AddElement
    <2>5. /\ Cardinality(everDumped \ everTarred) <= Cardinality(broke \cup {run})
          /\ Cardinality(everDumped \ everTarred) \in Nat /\ Cardinality(broke \cup {run}) \in Nat
        BY <2>2, <2>4, Larger
    <2>6. broken' \in Nat /\ Cardinality(everDumped \ everTarred) <= broken'
        <3>1. broken \in Nat /\ broken' = broken + 1
            BY <1>1, <1>4 DEF FilesInv
        <3> QED
            BY <2>3, <2>4, <2>5, <3>1
    <2>7. \A r \in everDumped \ dumps : Cardinality(Above(everDumped, r)) >= Keep
        <3>1. everDumped \ {run} \in SUBSET Nat /\ everDumped \in SUBSET Nat /\ IsFiniteSet(everDumped)
            BY FilesFinite
        <3> QED
            BY <2>1, <3>1, MoreAbove DEF FilesInv
    <2>8. everTarred \subseteq everDumped
        BY FilesFinite
    <2> QED
        BY <1>1, <1>2, <2>1, <2>6, <2>7, <2>8 DEF FilesInv
<1> QED
    BY <1>3, <1>4

\* The next run begins.
LEMMA FilesBegin ==
    ASSUME FilesInv, run < MaxRuns, run' = run + 1, at \in {"gone", "sleep"}, at' = "pg_dump",
           UNCHANGED <<dumps, tars, everDumped, everTarred, broken>>
    PROVE  FilesInv'
<1>1. Over(at, run, everDumped) = everDumped /\ Over(at, run, everDumped)' = everDumped
    BY DEF Over
<1>2. run \in Nat /\ everDumped \subseteq 1..run
    BY FilesFinite
<1>3. everDumped \subseteq 1..run' /\ run' \notin everDumped
    BY <1>2
<1>4. run' \in 1..MaxRuns
    BY KeptAssumption DEF FilesInv, Nightly!BackupAssumption
<1>5. at' \in Commands /\ at' # "keep_tar" /\ at' \notin {"prune_tars"} \cup Loops
    BY DEF Commands, Writes, Loops
<1> QED
    BY <1>1, <1>3, <1>4, <1>5 DEF FilesInv

\* As many runs can be restored as were completed, up to Keep, less those that broke.
LEMMA PairsFromFiles ==
    ASSUME FilesInv
    PROVE  Nightly!PairsKept
<1>1. PICK pairs, complete : pairs = dumps \cap tars /\ complete = everTarred
    OBVIOUS
<1>2. /\ pairs \subseteq everDumped /\ complete \subseteq everDumped /\ everDumped \cap everTarred = complete
      /\ tars \subseteq complete /\ everDumped \in SUBSET Nat /\ IsFiniteSet(everDumped)
    BY <1>1, FilesFinite DEF FilesInv
<1>3. /\ IsFiniteSet(pairs) /\ Cardinality(pairs) \in Nat
      /\ IsFiniteSet(complete) /\ Cardinality(complete) \in Nat
    BY <1>2, Larger
<1>4. broken \in Nat /\ Keep \in Nat
    BY KeptAssumption DEF FilesInv, Nightly!BackupAssumption
<1>5. SUFFICES \/ Cardinality(pairs) + broken >= Keep
               \/ Cardinality(pairs) >= Cardinality(complete)
    <2>1. /\ Nightly!Cardinality(dumps \cap tars) = Cardinality(pairs)
          /\ Nightly!Cardinality(everDumped \cap everTarred) = Cardinality(complete)
        BY <1>1, <1>2, SameCardinality
    <2>2. PICK p, c : p = Cardinality(pairs) /\ c = Cardinality(complete)
        OBVIOUS
    <2>3. p \in Nat /\ c \in Nat /\ (p + broken >= Keep \/ p >= c)
        BY <1>3, <1>5, <2>2
    <2>4. p + broken >= IF c < Keep THEN c ELSE Keep
        BY <1>4, <2>3
    <2> QED
        BY <2>1, <2>2, <2>4 DEF Nightly!PairsKept
\* Every tar on disk has its dump: the tars are all there are, or Keep of them.
<1>6. CASE tars \subseteq dumps
    <2>1. pairs = tars
        BY <1>1, <1>6
    <2>2. CASE complete = tars
        BY <1>3, <2>1, <2>2
    <2>3. CASE complete # tars
        <3>1. complete \ tars \in SUBSET Nat /\ IsFiniteSet(complete \ tars) /\ complete \ tars # {}
            BY <1>2, <2>3, FilesFinite
        <3>2. PICK r \in complete \ tars : \A s \in complete \ tars : s <= r
            BY <3>1, Greatest
        <3>3. Above(complete, r) \subseteq pairs
            <4>1. SUFFICES ASSUME NEW s \in complete, s > r
                           PROVE  s \in tars
                BY <2>1 DEF Above
            <4>2. s \in Nat /\ r \in Nat
                BY <1>2
            <4> QED
                BY <3>2, <4>1, <4>2
        <3>4. Cardinality(Above(complete, r)) >= Keep
            BY <1>1, <3>2 DEF FilesInv
        <3>5. Cardinality(Above(complete, r)) <= Cardinality(pairs) /\ Cardinality(Above(complete, r)) \in Nat
            BY <1>3, <3>3, Larger
        <3> QED
            BY <1>3, <1>4, <3>4, <3>5
    <2> QED
        BY <2>2, <2>3
\* A tar has lost its dump, which has Keep newer ones: they broke, or they pair.
<1>7. CASE ~(tars \subseteq dumps)
    <2>1. tars \ dumps \in SUBSET Nat /\ IsFiniteSet(tars \ dumps) /\ tars \ dumps # {}
        BY <1>2, <1>7, FilesFinite
    <2>2. PICK r \in tars \ dumps : \A s \in tars \ dumps : s <= r
        BY <2>1, Greatest
    <2> DEFINE over == Over(at, run, everDumped)
               newer == Above(over, r)
               broke == over \ everTarred
    <2>3. over \subseteq everDumped /\ newer \subseteq over /\ broke \subseteq over
        BY FilesFinite DEF Above
    <2>4. Cardinality(newer) >= Keep /\ Cardinality(broke) <= broken
        BY <1>2, <2>2 DEF FilesInv
    <2>5. newer \subseteq pairs \cup broke
        <3>1. SUFFICES ASSUME NEW s \in over, s > r, s \in everTarred
                       PROVE  s \in dumps \cap tars
            BY <1>1 DEF Above
        <3>2. s \in tars
            BY <2>2, <3>1 DEF FilesInv
        <3>3. s \in Nat /\ r \in Nat
            BY <1>2, <2>2, <2>3
        <3>4. s \in dumps
            BY <2>2, <3>1, <3>2, <3>3
        <3> QED
            BY <3>2, <3>4
    <2>6. IsFiniteSet(broke) /\ Cardinality(broke) \in Nat
        BY <1>2, <2>3, Larger
    <2> HIDE DEF over, newer, broke
    <2>7. IsFiniteSet(pairs \cup broke) /\ Cardinality(pairs \cup broke) <= Cardinality(pairs) + Cardinality(broke)
        <3>1. Cardinality(pairs \cap broke) \in Nat
            BY <1>3, Larger
        <3>2. /\ IsFiniteSet(pairs \cup broke)
              /\ Cardinality(pairs \cup broke)
                   = Cardinality(pairs) + Cardinality(broke) - Cardinality(pairs \cap broke)
            BY <1>3, <2>6, FS_Union
        <3> QED
            BY <1>3, <2>6, <3>1, <3>2
    <2>8. /\ Cardinality(newer) <= Cardinality(pairs \cup broke)
          /\ Cardinality(newer) \in Nat /\ Cardinality(pairs \cup broke) \in Nat
        BY <2>5, <2>7, Larger
    <2> QED
        BY <1>3, <1>4, <2>4, <2>6, <2>7, <2>8
<1> QED
    BY <1>6, <1>7

LEMMA FilesStep ==
    ASSUME FilesInv, Nightly!Next
    PROVE  FilesInv'
<1>1. CASE Nightly!KeepDump \/ Nightly!KeepTar \/ Nightly!PruneDumps \/ Nightly!PruneTars
    BY <1>1, FilesKeepDump, FilesKeepTar, FilesPruneDumps, FilesPruneTars
<1>2. CASE Nightly!Fail \/ Nightly!Kill
    BY <1>2, FilesGone DEF Nightly!Fail, Nightly!Kill
<1>3. CASE Nightly!Restart
    BY <1>3, FilesBegin DEF Nightly!Restart, Nightly!sqlite, Nightly!copies, Nightly!times
<1>4. CASE Nightly!Wake
    BY <1>4, FilesBegin DEF Nightly!Wake, Nightly!files, Nightly!sqlite, Nightly!copies
<1>5. CASE \/ Nightly!PgDump \/ Nightly!Stat \/ Nightly!Accept \/ Nightly!Retry \/ Nightly!Tar
           \/ \E p \in Nightly!Pages : Nightly!WriteDb(p) \/ Nightly!Copy(p) \/ Nightly!CopyAgain(p)
    <2>1. /\ UNCHANGED <<run, dumps, tars, everDumped, everTarred, broken>>
          /\ at \in Writes /\ at' \in Writes
        BY <1>5 DEF Nightly!PgDump, Nightly!Stat, Nightly!Accept, Nightly!Retry, Nightly!Tar,
                    Nightly!WriteDb, Nightly!Copy, Nightly!CopyAgain, Nightly!files, Writes
    <2>2. at # "keep_tar" /\ at' \in Commands \ {"keep_tar"} /\ at' \notin {"prune_tars"} \cup Loops
        BY <2>1 DEF Writes, Commands, Loops
    <2> QED
        BY <2>1, <2>2, FilesFrame
<1>6. CASE Nightly!Tick \/ Nightly!ReadNow \/ Nightly!ReadNext \/ Nightly!ReadToday
    <2>1. /\ UNCHANGED <<run, dumps, tars, everDumped, everTarred, broken>>
          /\ at \in Loops /\ at' \in Loops
        BY <1>6 DEF Nightly!Tick, Nightly!ReadNow, Nightly!ReadNext, Nightly!ReadToday,
                    Nightly!files, Loops
    <2>2. at # "keep_tar" /\ at' \in Commands \ {"keep_tar"} /\ at' \notin Writes
        BY <2>1 DEF Writes, Commands, Loops
    <2> QED
        BY <2>1, <2>2, FilesFrame
<1> QED
    BY <1>1, <1>2, <1>3, <1>4, <1>5, <1>6 DEF Nightly!Next

-----------------------------------------------------------------------------
(* Backup: its partial files *)

\* The partials a run has on disk at a command; what was killed may have left any.
Begun(step, r) ==
    (IF step \in Writes \ {"pg_dump"} THEN {<<"dump", r>>} ELSE {})
    \cup (IF step \in {"keep_dump", "keep_tar"} THEN {<<"tar", r>>} ELSE {})
    \cup (IF step = "gone" THEN {"dump", "tar"} \X (1..r) ELSE {})

LEMMA BegunTypes ==
    ASSUME FilesInv, partials \subseteq Begun(at, run)
    PROVE  /\ partials \subseteq {"dump", "tar"} \X (1..run)
           /\ {<<"dump", run>>, <<"tar", run>>} \subseteq {"dump", "tar"} \X (1..run)
<1>1. run \in 1..run
    BY FilesFinite DEF FilesInv
<1> QED
    BY <1>1 DEF Begun

LEMMA PartialsStep ==
    ASSUME FilesInv, partials \subseteq Begun(at, run), Nightly!Next
    PROVE  partials' \subseteq Begun(at, run)'
<1>1. CASE \/ Nightly!Stat \/ Nightly!Accept \/ Nightly!Retry
           \/ \E p \in Nightly!Pages : Nightly!WriteDb(p) \/ Nightly!Copy(p) \/ Nightly!CopyAgain(p)
    <2>1. /\ UNCHANGED <<run, partials>> /\ at \in Writes \ {"pg_dump", "keep_dump"}
          /\ at' \in Writes \ {"pg_dump", "keep_dump"}
        BY <1>1 DEF Nightly!Stat, Nightly!Accept, Nightly!Retry, Nightly!WriteDb, Nightly!Copy,
                    Nightly!CopyAgain, Nightly!files, Writes
    <2> QED
        BY <2>1 DEF Begun, Writes
<1>2. CASE Nightly!PgDump
    BY <1>2 DEF Nightly!PgDump, Begun, Writes
<1>3. CASE Nightly!Tar
    BY <1>3 DEF Nightly!Tar, Begun, Writes
<1>4. CASE Nightly!KeepDump
    BY <1>4 DEF Nightly!KeepDump, Begun, Writes
<1>5. CASE Nightly!KeepTar
    BY <1>5 DEF Nightly!KeepTar, Begun, Writes
<1>6. CASE \/ Nightly!PruneDumps \/ Nightly!PruneTars
           \/ Nightly!Tick \/ Nightly!ReadNow \/ Nightly!ReadNext \/ Nightly!ReadToday \/ Nightly!Wake
    <2>1. /\ UNCHANGED partials /\ at \in {"prune_dumps", "prune_tars"} \cup Loops
        BY <1>6 DEF Nightly!PruneDumps, Nightly!PruneTars, Nightly!Tick, Nightly!ReadNow,
                    Nightly!ReadNext, Nightly!ReadToday, Nightly!Wake, Nightly!files, Loops
    <2> QED
        BY <2>1 DEF Begun, Writes, Loops
<1>7. CASE Nightly!Fail \/ Nightly!Kill
    <2>1. at' = "gone" /\ UNCHANGED run
        BY <1>7 DEF Nightly!Fail, Nightly!Kill, Nightly!Gone
    <2>2. partials' \subseteq partials \cup {<<"dump", run>>, <<"tar", run>>}
        BY <1>7 DEF Nightly!Fail, Nightly!Kill
    <2>3. partials' \subseteq {"dump", "tar"} \X (1..run)
        BY <2>2, BegunTypes
    <2> QED
        BY <2>1, <2>3 DEF Begun
<1>8. CASE Nightly!Restart
    BY <1>8 DEF Nightly!Restart
<1> QED
    BY <1>1, <1>2, <1>3, <1>4, <1>5, <1>6, <1>7, <1>8 DEF Nightly!Next

-----------------------------------------------------------------------------
(* Backup: the copy of the SQLite file *)

\* Some content the file had holds the second page of a copy, and a first page that was written no less
\* often than the one copied, and no more often than by the time the bound was read.
Caught(contents, c, bound) ==
    \E x \in contents : c[2] = x[2] /\ c[1] <= x[1] /\ x[1] <= bound

\* So when the first page is read again as it was copied, the copy is that content.
CopyInv ==
    /\ n \in 0..DbTries
    /\ db \in [Nightly!Pages -> 0..MaxWrites] /\ db[1] + db[2] <= MaxWrites
    /\ still \subseteq [Nightly!Pages -> 0..MaxWrites] /\ db \in still
    /\ copy \in [Nightly!Pages -> -1..MaxWrites] /\ check \in [Nightly!Pages -> -1..MaxWrites]
    /\ copy[1] <= db[1]
    /\ at = "check" /\ check[1] = -1 => Caught(still, copy, db[1])
    /\ at = "check" /\ check[1] # -1 => Caught(still, copy, check[1])
    /\ at = "compare" => Caught(still, copy, check[1])
    /\ at = "tar" => copy \in still
    /\ at \notin {"check", "compare", "tar"} => check[1] = -1

LEMMA LastPage == Nightly!Max(Nightly!Pages) = 2
<1>1. \E p \in {1, 2} : \A q \in {1, 2} : p >= q
    OBVIOUS
<1>2. /\ Nightly!Max({1, 2}) \in {1, 2}
      /\ \A q \in {1, 2} : Nightly!Max({1, 2}) >= q
    BY <1>1 DEF Nightly!Max
<1> QED
    BY <1>2 DEF Nightly!Pages

\* Nothing is copied any more, or not yet.
LEMMA NoCopy ==
    ASSUME n' \in 0..DbTries, db' = Nightly!Fresh, still' = {Nightly!Fresh},
           copy' = Nightly!Uncopied, check' = Nightly!Uncopied,
           at' \notin {"check", "compare", "tar"}
    PROVE  CopyInv'
<1> USE KeptAssumption DEF Nightly!BackupAssumption
<1>1. /\ Nightly!Fresh \in [Nightly!Pages -> 0..MaxWrites]
      /\ Nightly!Fresh[1] = 0 /\ Nightly!Fresh[2] = 0
    BY DEF Nightly!Fresh, Nightly!Pages
<1>2. /\ Nightly!Uncopied \in [Nightly!Pages -> -1..MaxWrites] /\ Nightly!Uncopied[1] = -1
    BY DEF Nightly!Uncopied, Nightly!Pages
<1>3. MaxWrites \in Nat
    OBVIOUS
<1> QED
    BY <1>1, <1>2, <1>3 DEF CopyInv

LEMMA CopyFrame ==
    ASSUME CopyInv, UNCHANGED <<db, still, copy, check>>, n' \in 0..DbTries,
           at \notin {"check", "compare", "tar"}, at' \notin {"check", "compare", "tar"}
    PROVE  CopyInv'
BY DEF CopyInv

LEMMA CopyWrite ==
    ASSUME CopyInv, NEW p \in Nightly!Pages, Nightly!WriteDb(p)
    PROVE  CopyInv'
<1> USE KeptAssumption DEF Nightly!BackupAssumption
<1>1. /\ at \in {"stat", "copy", "check", "compare"} /\ db[1] + db[2] < MaxWrites
      /\ db' = [db EXCEPT ![p] = @ + 1] /\ still' = still \cup {db'}
      /\ UNCHANGED <<at, n, copy, check>>
    BY DEF Nightly!WriteDb, Nightly!copies
<1>2. /\ db[1] \in Nat /\ db[2] \in Nat /\ MaxWrites \in Nat /\ copy[1] \in Int /\ copy[1] <= db[1]
      /\ check[1] \in Int
    BY DEF CopyInv, Nightly!Pages
<1>3. /\ db' \in [Nightly!Pages -> 0..MaxWrites] /\ db'[1] + db'[2] <= MaxWrites
      /\ db'[1] \in Nat /\ db[1] <= db'[1]
    <2>1. CASE p = 1
        <3>1. db' = [db EXCEPT ![1] = db[1] + 1]
            BY <1>1, <2>1
        <3>2. db[1] + 1 \in 0..MaxWrites
            BY <1>1, <1>2
        <3>3. db' \in [Nightly!Pages -> 0..MaxWrites] /\ db'[1] = db[1] + 1 /\ db'[2] = db[2]
            BY <3>1, <3>2 DEF CopyInv, Nightly!Pages
        <3> QED
            BY <1>1, <1>2, <3>3
    <2>2. CASE p = 2
        <3>1. db' = [db EXCEPT ![2] = db[2] + 1]
            BY <1>1, <2>2
        <3>2. db[2] + 1 \in 0..MaxWrites
            BY <1>1, <1>2
        <3>3. db' \in [Nightly!Pages -> 0..MaxWrites] /\ db'[1] = db[1] /\ db'[2] = db[2] + 1
            BY <3>1, <3>2 DEF CopyInv, Nightly!Pages
        <3> QED
            BY <1>1, <1>2, <3>3
    <2> QED
        BY <2>1, <2>2 DEF Nightly!Pages
<1>4. copy[1] <= db'[1]
    BY <1>2, <1>3
<1>5. Caught(still, copy, db[1]) => Caught(still', copy, db'[1])
    <2>1. \A x \in still : x[1] \in Nat
        BY DEF CopyInv, Nightly!Pages
    <2> QED
        BY <1>1, <1>2, <1>3, <2>1 DEF Caught
<1>6. \A bound : Caught(still, copy, bound) => Caught(still', copy, bound)
    BY <1>1 DEF Caught
<1> QED
    BY <1>1, <1>3, <1>4, <1>5, <1>6 DEF CopyInv

LEMMA CopyPage ==
    ASSUME CopyInv, NEW p \in Nightly!Pages, Nightly!Copy(p)
    PROVE  CopyInv'
<1>1. /\ at = "copy" /\ copy' = [copy EXCEPT ![p] = db[p]]
      /\ at' = (IF p = 2 THEN "check" ELSE "copy") /\ UNCHANGED <<db, still, n, check>>
    BY LastPage DEF Nightly!Copy, Nightly!sqlite
<1>2. /\ copy' \in [Nightly!Pages -> -1..MaxWrites] /\ db \in still /\ check[1] = -1
      /\ db[1] \in Nat /\ db[2] \in Nat /\ copy[1] <= db[1]
    BY <1>1 DEF CopyInv, Nightly!Pages
<1>3. copy'[1] <= db[1]
    <2>1. CASE p = 1
        BY <1>1, <1>2, <2>1 DEF CopyInv, Nightly!Pages
    <2>2. CASE p = 2
        BY <1>1, <1>2, <2>2 DEF CopyInv, Nightly!Pages
    <2> QED
        BY <2>1, <2>2 DEF Nightly!Pages
<1>4. at' = "check" => Caught(still, copy', db[1])
    <2>1. at' = "check" => copy'[2] = db[2]
        BY <1>1 DEF CopyInv, Nightly!Pages
    <2> QED
        BY <1>2, <1>3, <2>1 DEF Caught
<1> QED
    BY <1>1, <1>2, <1>3, <1>4 DEF CopyInv

LEMMA CheckPage ==
    ASSUME CopyInv, NEW p \in Nightly!Pages, Nightly!CopyAgain(p)
    PROVE  CopyInv'
<1>1. /\ at = "check" /\ check[p] = -1 /\ check' = [check EXCEPT ![p] = db[p]]
      /\ p = 2 => check[1] # -1
      /\ at' = (IF p = 2 THEN "compare" ELSE "check") /\ UNCHANGED <<db, still, n, copy>>
    <2>1. p = 2 => 1 \in 1..p - 1
        OBVIOUS
    <2> QED
        BY <2>1, LastPage DEF Nightly!CopyAgain, Nightly!sqlite
<1>2. check' \in [Nightly!Pages -> -1..MaxWrites] /\ db[1] \in Nat
    BY <1>1 DEF CopyInv, Nightly!Pages
<1>3. CASE p = 1
    <2>1. check'[1] = db[1] /\ check'[1] # -1 /\ at' = "check"
        BY <1>1, <1>2, <1>3 DEF CopyInv, Nightly!Pages
    <2>2. Caught(still, copy, db[1])
        BY <1>1, <1>3 DEF CopyInv
    <2> QED
        BY <1>1, <1>2, <2>1, <2>2 DEF CopyInv
<1>4. CASE p = 2
    <2>1. check'[1] = check[1] /\ check[1] # -1 /\ at' = "compare"
        BY <1>1, <1>4 DEF CopyInv, Nightly!Pages
    <2>2. Caught(still, copy, check[1])
        BY <1>1, <2>1 DEF CopyInv
    <2> QED
        BY <1>1, <1>2, <2>1, <2>2 DEF CopyInv
<1> QED
    BY <1>3, <1>4 DEF Nightly!Pages

LEMMA CopyAccepted ==
    ASSUME CopyInv, Nightly!Accept
    PROVE  CopyInv'
<1>1. /\ at = "compare" /\ copy = check /\ at' = "tar" /\ UNCHANGED <<db, still, n, copy, check>>
    BY DEF Nightly!Accept, Nightly!Still, Nightly!sqlite, Nightly!copies
<1>2. PICK x \in still : copy[2] = x[2] /\ copy[1] <= x[1] /\ x[1] <= copy[1]
    BY <1>1 DEF CopyInv, Caught
<1>3. x \in [Nightly!Pages -> 0..MaxWrites] /\ copy \in [Nightly!Pages -> -1..MaxWrites]
    BY DEF CopyInv
<1>4. copy[1] = x[1]
    <2>1. copy[1] \in Int /\ x[1] \in Int
        BY <1>3 DEF Nightly!Pages
    <2> QED
        BY <1>2, <2>1
<1>5. copy = x
    <2>1. \A p \in Nightly!Pages : copy[p] = x[p]
        BY <1>2, <1>4 DEF Nightly!Pages
    <2> QED
        BY <1>3, <2>1
<1> QED
    BY <1>1, <1>5 DEF CopyInv

LEMMA CopyStep ==
    ASSUME CopyInv, Nightly!Next
    PROVE  CopyInv'
<1> USE KeptAssumption DEF Nightly!BackupAssumption
<1>1. CASE \E p \in Nightly!Pages : Nightly!WriteDb(p) \/ Nightly!Copy(p) \/ Nightly!CopyAgain(p)
    BY <1>1, CopyWrite, CopyPage, CheckPage
<1>2. CASE Nightly!Accept
    BY <1>2, CopyAccepted
<1>3. CASE Nightly!PgDump
    <2>1. 1 \in 0..DbTries
        OBVIOUS
    <2> QED
        BY <1>3, <2>1, CopyFrame DEF Nightly!PgDump, Nightly!sqlite
<1>4. CASE Nightly!Retry
    <2>1. /\ n < DbTries /\ n' = n + 1 /\ at' = "stat" /\ UNCHANGED <<db, still>>
          /\ copy' = Nightly!Uncopied /\ check' = Nightly!Uncopied
        BY <1>4 DEF Nightly!Retry, Nightly!sqlite
    <2>2. n' \in 0..DbTries
        BY <2>1 DEF CopyInv
    <2>3. /\ Nightly!Uncopied \in [Nightly!Pages -> -1..MaxWrites] /\ Nightly!Uncopied[1] = -1
        BY DEF Nightly!Uncopied, Nightly!Pages
    <2>4. -1 <= db[1]
        BY DEF CopyInv, Nightly!Pages
    <2> QED
        BY <2>1, <2>2, <2>3, <2>4 DEF CopyInv
<1>5. CASE Nightly!Tar \/ Nightly!Fail \/ Nightly!Kill
    <2>1. 0 \in 0..DbTries
        OBVIOUS
    <2> QED
        BY <1>5, <2>1, NoCopy DEF Nightly!Tar, Nightly!Fail, Nightly!Kill, Nightly!Gone
<1>6. CASE \/ Nightly!Stat \/ Nightly!KeepDump \/ Nightly!KeepTar \/ Nightly!PruneDumps
           \/ Nightly!PruneTars \/ Nightly!Restart \/ Nightly!Tick \/ Nightly!ReadNow
           \/ Nightly!ReadNext \/ Nightly!ReadToday \/ Nightly!Wake
    <2>1. /\ UNCHANGED <<db, still, n, copy, check>>
          /\ at \notin {"check", "compare", "tar"} /\ at' \notin {"check", "compare", "tar"}
        BY <1>6 DEF Nightly!Stat, Nightly!KeepDump, Nightly!KeepTar, Nightly!PruneDumps,
                    Nightly!PruneTars, Nightly!Restart, Nightly!Tick, Nightly!ReadNow,
                    Nightly!ReadNext, Nightly!ReadToday, Nightly!Wake, Nightly!sqlite, Nightly!copies
    <2>2. n' \in 0..DbTries
        BY <2>1 DEF CopyInv
    <2> QED
        BY <2>1, <2>2, CopyFrame
<1> QED
    BY <1>1, <1>2, <1>3, <1>4, <1>5, <1>6 DEF Nightly!Next

-----------------------------------------------------------------------------
(* Backup: when the next dump is *)

Times == [now : Int, next : Int, today : Int]

\* The next 03:00 after now, when now is a time of the first day.
IsNext(next, now) == next > now /\ next % Day = DumpAt /\ next - now <= Day

\* Before it sleeps the clock is on the first day or the second, and on the second only when now was
\* after 03:00.
SchedInv ==
    /\ sched \in Times
    /\ at = "now" => clock \in 0..Day - 1
    /\ at \in {"next", "today"} => sched.now \in 0..Day - 1 /\ clock \in sched.now..sched.now + Slowness
    /\ at = "today" => \/ sched.next = Day + DumpAt
                       \/ sched.next = Day + Day + DumpAt /\ clock >= Day
    /\ at = "sleep" => IsNext(sched.next, sched.now)

LEMMA DayBounds ==
    /\ Day \in Nat \ {0} /\ DumpAt \in 0..Day - 1 /\ DumpAt \in Int
    /\ Slowness \in 0..Day - DumpAt /\ Slowness \in Int /\ Day \in Int
BY KeptAssumption DEF Nightly!BackupAssumption

LEMMA DayOfClock ==
    ASSUME NEW time \in 0..Day + Day - 1
    PROVE  Nightly!DayOf(time) = IF time < Day THEN 0 ELSE 1
<1>1. \A d \in Nat \ {0} : \A c \in 0..d + d - 1 : c \div d = IF c < d THEN 0 ELSE 1
    OBVIOUS
<1> QED
    BY <1>1, DayBounds DEF Nightly!DayOf

LEMMA DumpOfDay ==
    /\ DumpAt % Day = DumpAt /\ (Day + DumpAt) % Day = DumpAt
    /\ (Day + Day + DumpAt) % Day = DumpAt
<1>1. \A d \in Nat \ {0} : \A x \in 0..d - 1 :
        x % d = x /\ (d + x) % d = x /\ (d + d + x) % d = x
    OBVIOUS
<1> QED
    BY <1>1, DayBounds

LEMMA ClockBound ==
    ASSUME SchedInv, at \in {"next", "today"}
    PROVE  /\ clock \in 0..Day + Day - 1 /\ sched.now \in 0..Day - 1
           /\ clock >= sched.now /\ clock <= sched.now + Slowness
<1>1. sched.now \in 0..Day - 1 /\ clock \in sched.now..sched.now + Slowness
    BY DEF SchedInv
<1>2. PICK now \in Int : now = sched.now
    BY DEF SchedInv, Times
<1> QED
    BY <1>1, <1>2, DayBounds

LEMMA SchedStep ==
    ASSUME FilesInv, SchedInv, Nightly!Next
    PROVE  SchedInv'
<1>1. CASE Nightly!ReadNow
    <2>1. /\ at = "now" /\ at' = "next" /\ clock' = clock /\ clock \in 0..Day - 1
          /\ sched' = [sched EXCEPT !.now = clock] /\ sched \in Times
        BY <1>1 DEF Nightly!ReadNow, SchedInv
    <2>2. sched' \in Times /\ sched'.now = clock
        BY <2>1 DEF Times
    <2>3. clock \in clock..clock + Slowness
        BY <2>1, DayBounds
    <2> QED
        BY <2>1, <2>2, <2>3 DEF SchedInv
<1>2. CASE Nightly!Tick
    <2>1. /\ at \in {"next", "today"} /\ at' = at /\ sched' = sched /\ clock < sched.now + Slowness
          /\ clock' = clock + 1
        BY <1>2 DEF Nightly!Tick
    <2>2. /\ clock \in Int /\ sched.now \in Int /\ sched.now \in 0..Day - 1 /\ clock >= sched.now
        BY <2>1, ClockBound, DayBounds
    <2>3. clock' \in sched.now..sched.now + Slowness /\ (clock >= Day => clock' >= Day)
        BY <2>1, <2>2, DayBounds
    <2> QED
        BY <2>1, <2>2, <2>3 DEF SchedInv
<1>3. CASE Nightly!ReadNext
    <2>1. /\ at = "next" /\ at' = "today" /\ clock' = clock /\ sched \in Times
          /\ sched' = [sched EXCEPT !.next = (Nightly!DayOf(clock) + 1) * Day + DumpAt]
        BY <1>3 DEF Nightly!ReadNext, SchedInv
    <2>2. /\ clock \in 0..Day + Day - 1 /\ sched.now \in 0..Day - 1
          /\ clock \in sched.now..sched.now + Slowness
        BY <2>1, ClockBound DEF SchedInv
    <2>3. PICK next : next = (Nightly!DayOf(clock) + 1) * Day + DumpAt
        OBVIOUS
    <2>4. /\ next = Day + DumpAt \/ (next = Day + Day + DumpAt /\ clock >= Day)
          /\ next \in Int
        <3>1. CASE clock < Day
            <4>1. Nightly!DayOf(clock) = 0
                BY <2>2, <3>1, DayOfClock
            <4> QED
                BY <2>3, <4>1, DayBounds
        <3>2. CASE clock >= Day
            <4>1. Nightly!DayOf(clock) = 1
                BY <2>2, <3>2, DayOfClock, DayBounds
            <4> QED
                BY <2>3, <3>2, <4>1, DayBounds
        <3> QED
            BY <2>2, <3>1, <3>2, DayBounds
    <2>5. sched' \in Times /\ sched'.now = sched.now /\ sched'.next = next
        BY <2>1, <2>3, <2>4 DEF Times
    <2> QED
        BY <2>1, <2>2, <2>4, <2>5 DEF SchedInv
<1>4. CASE Nightly!ReadToday
    <2> DEFINE today == Nightly!DayOf(clock) * Day + DumpAt
    <2>1. /\ at = "today" /\ at' = "sleep" /\ sched \in Times
          /\ sched' = [sched EXCEPT !.today = today,
                                    !.next = Nightly!Pick(today, sched.now, sched.next)]
          /\ \/ sched.next = Day + DumpAt
             \/ sched.next = Day + Day + DumpAt /\ clock >= Day
        BY <1>4 DEF Nightly!ReadToday, SchedInv
    <2>2. PICK t, now, next : t = today /\ now = sched.now /\ next = sched.next
        OBVIOUS
    <2>3. /\ clock \in 0..Day + Day - 1 /\ now \in 0..Day - 1 /\ clock <= now + Slowness
        BY <2>1, <2>2, ClockBound
    <2>4. t \in Int /\ IsNext(IF t > now THEN t ELSE next, now)
        <3>1. CASE clock < Day
            <4>1. t = DumpAt /\ next = Day + DumpAt
                <5>1. Nightly!DayOf(clock) = 0
                    BY <2>3, <3>1, DayOfClock
                <5>2. 0 * Day + DumpAt = DumpAt
                    BY DayBounds
                <5>3. ~(clock >= Day)
                    BY <2>3, <3>1, DayBounds
                <5> QED
                    BY <2>1, <2>2, <5>1, <5>2, <5>3
            <4> QED
                BY <2>3, <4>1, DayBounds, DumpOfDay DEF IsNext
        <3>2. CASE clock >= Day
            <4>1. t = Day + DumpAt
                <5>1. Nightly!DayOf(clock) = 1
                    BY <2>3, <3>2, DayOfClock, DayBounds
                <5>2. 1 * Day + DumpAt = Day + DumpAt
                    BY DayBounds
                <5> QED
                    BY <2>2, <5>1, <5>2
            <4>2. now >= DumpAt /\ t > now /\ t - now <= Day
                BY <2>3, <3>2, <4>1, DayBounds
            <4> QED
                BY <4>1, <4>2, DayBounds, DumpOfDay DEF IsNext
        <3> QED
            BY <2>3, <3>1, <3>2, DayBounds
    <2>5. sched' \in Times /\ sched'.now = now /\ sched'.next = IF t > now THEN t ELSE next
        <3>1. sched' = [sched EXCEPT !.today = t, !.next = IF t > now THEN t ELSE next]
            BY <2>1, <2>2 DEF Nightly!Pick
        <3>2. (IF t > now THEN t ELSE next) \in Int
            BY <2>1, <2>2, <2>4 DEF Times
        <3> QED
            BY <2>1, <2>2, <2>4, <3>1, <3>2 DEF Times
    <2> QED
        BY <2>1, <2>4, <2>5 DEF SchedInv
<1>5. CASE Nightly!PruneTars
    <2>1. at' = "now" /\ clock' \in 0..Day - 1 /\ UNCHANGED sched
        BY <1>5 DEF Nightly!PruneTars
    <2> QED
        BY <2>1 DEF SchedInv
<1>6. CASE Nightly!Wake
    BY <1>6 DEF Nightly!Wake, SchedInv, Times
<1>7. CASE \/ Nightly!PgDump \/ Nightly!Stat \/ Nightly!Accept \/ Nightly!Retry \/ Nightly!Tar
           \/ Nightly!KeepDump \/ Nightly!KeepTar \/ Nightly!PruneDumps
           \/ \E p \in Nightly!Pages : Nightly!WriteDb(p) \/ Nightly!Copy(p) \/ Nightly!CopyAgain(p)
           \/ Nightly!Fail \/ Nightly!Kill \/ Nightly!Restart
    <2>1. UNCHANGED sched /\ at' \notin Loops
        BY <1>7 DEF Nightly!PgDump, Nightly!Stat, Nightly!Accept, Nightly!Retry, Nightly!Tar,
                    Nightly!KeepDump, Nightly!KeepTar, Nightly!PruneDumps, Nightly!WriteDb,
                    Nightly!Copy, Nightly!CopyAgain, Nightly!Fail, Nightly!Kill, Nightly!Gone,
                    Nightly!Restart, Nightly!times, Loops
    <2> QED
        BY <2>1 DEF SchedInv, Loops
<1> QED
    BY <1>1, <1>2, <1>3, <1>4, <1>5, <1>6, <1>7 DEF Nightly!Next

(* Backup: its invariant holds, and what follows from it *)

BackupInv == FilesInv /\ partials \subseteq Begun(at, run) /\ CopyInv /\ SchedInv

LEMMA BackupInit == Nightly!Init => BackupInv
<1> SUFFICES ASSUME Nightly!Init
             PROVE  BackupInv
    OBVIOUS
<1> USE KeptAssumption DEF Nightly!BackupAssumption
<1>1. /\ run = 1 /\ at = "pg_dump" /\ broken = 0 /\ partials = {}
      /\ dumps = {} /\ tars = {} /\ everDumped = {} /\ everTarred = {}
    BY DEF Nightly!Init
<1>2. FilesInv
    <2>1. Over(at, run, everDumped) = {} /\ Over(at, run, everDumped) \ everTarred = {}
        BY <1>1 DEF Over
    <2>2. Cardinality({}) = 0
        BY FS_EmptySet
    <2>3. at \in Commands /\ at # "keep_tar" /\ at \notin {"prune_tars"} \cup Loops
        BY <1>1 DEF Commands, Writes, Loops
    <2>4. run \in 1..MaxRuns
        BY <1>1
    <2> QED
        BY <1>1, <2>1, <2>2, <2>3, <2>4 DEF FilesInv
<1>3. CopyInv
    <2>1. /\ db = Nightly!Fresh /\ still = {Nightly!Fresh} /\ n = 0
          /\ copy = Nightly!Uncopied /\ check = Nightly!Uncopied
        BY DEF Nightly!Init
    <2>2. /\ Nightly!Fresh \in [Nightly!Pages -> 0..MaxWrites]
          /\ Nightly!Fresh[1] = 0 /\ Nightly!Fresh[2] = 0
        BY DEF Nightly!Fresh, Nightly!Pages
    <2>3. Nightly!Uncopied \in [Nightly!Pages -> -1..MaxWrites] /\ Nightly!Uncopied[1] = -1
        BY DEF Nightly!Uncopied, Nightly!Pages
    <2>4. MaxWrites \in Nat /\ 0 \in 0..DbTries
        OBVIOUS
    <2> QED
        BY <1>1, <2>1, <2>2, <2>3, <2>4 DEF CopyInv
<1>4. SchedInv
    <2>1. sched \in Times
        BY DEF Nightly!Init, Times
    <2> QED
        BY <1>1, <2>1 DEF SchedInv
<1> QED
    BY <1>1, <1>2, <1>3, <1>4 DEF BackupInv

LEMMA BackupStep ==
    ASSUME BackupInv, Nightly!Next
    PROVE  BackupInv'
BY FilesStep, PartialsStep, CopyStep, SchedStep DEF BackupInv

LEMMA BackupUnchanged ==
    ASSUME BackupInv, UNCHANGED backupVars
    PROVE  BackupInv'
<1>1. UNCHANGED <<run, at, n, partials, dumps, tars, db, copy, check, clock, sched, still,
                  everDumped, everTarred, broken>>
    BY DEF backupVars
<1>2. FilesInv'
    BY <1>1 DEF BackupInv, FilesInv, Over
<1>3. (partials \subseteq Begun(at, run))'
    BY <1>1 DEF BackupInv, Begun
<1>4. CopyInv'
    BY <1>1 DEF BackupInv, CopyInv
<1>5. SchedInv'
    BY <1>1 DEF BackupInv, SchedInv
<1> QED
    BY <1>2, <1>3, <1>4, <1>5 DEF BackupInv

LEMMA BackupTypes ==
    ASSUME BackupInv
    PROVE  Nightly!TypeOK
<1>1. partials \subseteq {"dump", "tar"} \X (1..run)
    BY BegunTypes DEF BackupInv
<1>2. everTarred \subseteq everDumped
    BY FilesFinite DEF BackupInv
<1> QED
    BY <1>1, <1>2 DEF BackupInv, FilesInv, CopyInv, Nightly!TypeOK

LEMMA KeptAndBounded ==
    ASSUME BackupInv
    PROVE  Nightly!NewestKept /\ Nightly!DiskBounded
<1>1. FilesInv /\ partials \subseteq Begun(at, run)
    BY DEF BackupInv
<1>2. ASSUME NEW r \in everDumped \ dumps
      PROVE  Nightly!Cardinality({s \in everDumped : s > r}) >= Keep
    <2>1. Cardinality(Above(Over(at, run, everDumped), r)) >= Keep
        BY <1>1 DEF FilesInv
    <2>2. Cardinality(Above(everDumped, r)) >= Keep
        BY <1>1, <2>1, FilesFinite, MoreAbove
    <2> QED
        BY <2>2, SameCardinality DEF Above
<1>3. ASSUME NEW r \in everTarred \ tars
      PROVE  Nightly!Cardinality({s \in everTarred : s > r}) >= Keep
    <2>1. Cardinality(Above(everTarred, r)) >= Keep
        BY <1>1 DEF FilesInv
    <2> QED
        BY <2>1, SameCardinality DEF Above
<1>4. Nightly!DiskBounded
    <2>1. SUFFICES ASSUME at = "sleep"
                   PROVE  /\ Nightly!Cardinality(dumps) <= Keep /\ Nightly!Cardinality(tars) <= Keep
                          /\ partials = {}
        BY DEF Nightly!DiskBounded
    <2>2. Cardinality(dumps) <= Keep /\ Cardinality(tars) <= Keep
        BY <1>1, <2>1 DEF FilesInv, Loops
    <2>3. Begun(at, run) = {}
        BY <2>1 DEF Begun, Writes
    <2> QED
        BY <1>1, <2>2, <2>3, SameCardinality
<1> QED
    BY <1>2, <1>3, <1>4 DEF Nightly!NewestKept

LEMMA CopiedAndTimed ==
    ASSUME BackupInv
    PROVE  Nightly!HeldStill /\ Nightly!NextIsFirst
<1>1. Nightly!HeldStill
    BY DEF BackupInv, CopyInv, Nightly!HeldStill
<1>2. Nightly!NextIsFirst
    BY DEF BackupInv, SchedInv, IsNext, Nightly!NextIsFirst
<1> QED
    BY <1>1, <1>2

-----------------------------------------------------------------------------
(* MCSoul: one of the parts steps, and the others stay as they are *)

KeptInv == SoulInv /\ FactsInv /\ SetupInv /\ BackupInv

LEMMA KeptStep ==
    ASSUME KeptInv, KeptNext
    PROVE  KeptInv'
<1>1. SoulInv /\ FactsInv /\ SetupInv /\ BackupInv
    BY DEF KeptInv
<1>2. CASE Next /\ UNCHANGED <<factsVars, setupVars, backupVars>>
    BY <1>1, <1>2, InvStep, FactsUnchanged, SetupUnchanged, BackupUnchanged DEF KeptInv
<1>3. CASE (Facts!KeyedNext \/ Facts!MemoryNext) /\ UNCHANGED <<vars, setupVars, backupVars>>
    BY <1>1, <1>3, InvStep, FactsStep, SetupUnchanged, BackupUnchanged DEF KeptInv
<1>4. CASE Guided!Next /\ UNCHANGED <<vars, factsVars, backupVars>>
    BY <1>1, <1>4, InvStep, FactsUnchanged, SetupStep, BackupUnchanged DEF KeptInv
<1>5. CASE Nightly!Next /\ UNCHANGED <<vars, factsVars, setupVars>>
    BY <1>1, <1>5, InvStep, FactsUnchanged, SetupUnchanged, BackupStep DEF KeptInv
<1> QED
    BY <1>2, <1>3, <1>4, <1>5 DEF KeptNext

LEMMA KeptInvariance == KeptSpec => []KeptInv
<1>1. KeptInit => KeptInv
    BY InvInit, FactsInit, SetupInit, BackupInit DEF KeptInit, KeptInv
<1>2. ASSUME KeptInv, [KeptNext]_<<vars, part, factsVars, setupVars, backupVars>>
      PROVE  KeptInv'
    <2>1. CASE UNCHANGED <<vars, factsVars, setupVars, backupVars>>
        BY <1>2, <2>1, InvStep, FactsUnchanged, SetupUnchanged, BackupUnchanged DEF KeptInv
    <2> QED
        BY <1>2, <2>1, KeptStep
<1> QED
    BY <1>1, <1>2, PTL DEF KeptSpec

\* Every variable of what the desk keeps has its type: the soul's rows and turns, the keyed facts and
\* memories and their writers, the setup as it is and as each turn read it, and the backup's files, copies
\* and readings of the clock.
THEOREM KeptTypeCorrect == KeptSpec => []TypesOK
<1>1. KeptInv => TypesOK
    BY BackupTypes DEF KeptInv, SoulInv, FactsInv, SetupInv, TypesOK
<1> QED
    BY <1>1, KeptInvariance, PTL

\* facts.py 3-5, memories.py 54: whatever writers of the keyed facts and of memories do at once, the rows of
\* a key are one chain whose last alone is active, two in a row differ, and a memory that was stored is
\* in the table until it is forgotten.
THEOREM FactsKeptHolds == KeptSpec => []FactsKept
<1>1. KeptInv => FactsKept
    BY ChainIsOne DEF KeptInv, FactsInv, FactsKept
<1> QED
    BY <1>1, KeptInvariance, PTL

\* tools/persona.py 54-56 and 98: a setup step that was answered or skipped is not put to the investor
\* again, neither by the facts as they are nor by a turn that read them while they changed.
THEOREM NotAskedAgainHolds == KeptSpec => []NotAskedAgain
<1>1. KeptInv => NotAskedAgain
    BY TeamAnswered DEF KeptInv, SetupInv, NotAskedAgain
<1> QED
    BY <1>1, KeptInvariance, PTL

\* backup.sh 3-7 and 22-30: wherever a run fails or is killed, the newest BACKUP_KEEP of each kind of file
\* are on disk and no more once the script sleeps, as many of them pair as should, the SQLite copy is
\* what the file was at one moment, and the next dump is at the first 03:00 after now.
THEOREM BackupsKeptHolds == KeptSpec => []BackupsKept
<1>1. KeptInv => BackupsKept
    BY PairsFromFiles, KeptAndBounded, CopiedAndTimed DEF KeptInv, BackupInv, BackupsKept
<1> QED
    BY <1>1, KeptInvariance, PTL

\* graph/setup.py 73: an investor who is ready goes back to the setup only by a step that takes away
\* something they said: the last topic, the last holding, or the name of the team.
THEOREM ReadyStaysHolds == KeptSpec => ReadyStays
<1>1. ASSUME KeptInv, [KeptNext]_<<vars, part, factsVars, setupVars, backupVars>>
      PROVE  [Guided!Stage(Guided!Setup) = "ready" /\ Guided!Stage(Guided!Setup)' = "setup" =>
                \/ /\ Guided!UnknownTopics(remembered) = {}
                   /\ Guided!UnknownTopics(remembered)' # {}
                \/ held # {} /\ held' = {}
                \/ \E c \in Turns : call'[c] = "renamed"]_Guided!vars
    <2>1. CASE Guided!Next
        BY <1>1, <2>1, SetupStep DEF KeptInv
    <2>2. CASE UNCHANGED setupVars
        BY <2>2 DEF setupVars, Guided!vars, Guided!investor
    <2>3. Guided!Next \/ UNCHANGED setupVars
        BY <1>1 DEF KeptNext
    <2> QED
        BY <2>1, <2>2, <2>3
<1> QED
    BY <1>1, KeptInvariance, PTL DEF KeptSpec, ReadyStays, Guided!ReadyStays

=============================================================================
