-------------------------------- MODULE Soul --------------------------------
(***************************************************************************)
(* The soul of one investor's assistant: the proposals on the facts table, *)
(* the tool that adds them and the messages that approve or reject them.   *)
(*                                                                         *)
(* Grain: one action is one SQL statement of a transaction, at READ        *)
(* COMMITTED; the writes of a transaction come last and are one action     *)
(* with its commit (until then nobody sees them, and the rows written are  *)
(* locked).  A message names its proposal by an id that matches that row   *)
(* alone.  The soul before any was approved is the default one, NoSoul.    *)
(***************************************************************************)
EXTENDS Naturals, FiniteSets

CONSTANTS
    Proposals,   \* the ids soul rows may have
    Turns,       \* the turns that write at once: tool calls and messages
    NoSoul,      \* not a row: the default soul
    Nobody,      \* not a turn
    MaxPending   \* MAX_PENDING_PROPOSALS

ASSUME SoulAssumption ==
    /\ NoSoul \notin Proposals
    /\ Nobody \notin Turns
    /\ MaxPending \in Nat \ {0}

VARIABLES
    status,      \* status[p]: the status of soul row p; "none" when there is no such row
    supersedes,  \* supersedes[p]: the soul that was active when p was proposed
    old,         \* the rows older than PROPOSAL_MAX_AGE
    lock,        \* the turn whose transaction holds the persona lock
    turn,        \* turn[t]: the statement t issues next, on which row, and the soul it read
    refused      \* history, the proposals the investor was told are rejected

vars == <<status, supersedes, old, lock, turn, refused>>
rows == <<status, supersedes, old>>

Souls == Proposals \cup {NoSoul}

Rest == [next |-> "idle", row |-> NoSoul, soul |-> NoSoul]
Statements == {"idle", "matchApprove", "matchReject", "lockPropose", "count", "current", "insert",
               "lockApprove", "find", "compare", "apply", "reject"}
Turn == [next : Statements, row : Souls, soul : Souls]

At(t, statement) == turn[t].next = statement
GoTo(t, statement) == turn' = [turn EXCEPT ![t].next = statement]
End(t) == turn' = [turn EXCEPT ![t] = Rest]

ActiveRows == {p \in Proposals : status[p] = "active"}

\* SELECT id ... AND status = 'active': there is one row or none (OneActive).
Active == IF ActiveRows = {} THEN NoSoul ELSE CHOOSE p \in ActiveRows : TRUE

Pending == {p \in Proposals : status[p] = "proposed" /\ p \notin old}

-----------------------------------------------------------------------------
Init ==
    /\ status = [p \in Proposals |-> "none"]
    /\ supersedes = [p \in Proposals |-> NoSoul]
    /\ old = {}
    /\ lock = Nobody
    /\ turn = [t \in Turns |-> Rest]
    /\ refused = {}

\* Mutant: the lock is not waited for.
LockAtOnce(t) == lock' = t

\* lock_persona: the advisory lock, held until the transaction ends.
Lock(t) == lock = Nobody /\ lock' = t

Unlock(t) == lock' = IF lock = t THEN Nobody ELSE lock

-----------------------------------------------------------------------------
(* propose *)

Propose(t) ==
    /\ At(t, "idle")
    /\ GoTo(t, "lockPropose")
    /\ UNCHANGED <<rows, lock, refused>>

LockPropose(t) ==
    /\ At(t, "lockPropose")
    /\ Lock(t)
    /\ GoTo(t, "count")
    /\ UNCHANGED <<rows, refused>>

\* Mutant: one proposal too many is stored.
CountPast(t) ==
    /\ At(t, "count")
    /\ IF Cardinality(Pending) > MaxPending
       THEN Unlock(t) /\ End(t)
       ELSE GoTo(t, "current") /\ UNCHANGED lock
    /\ UNCHANGED <<rows, refused>>

\* Nothing is stored while too many young proposals wait.
Count(t) ==
    /\ At(t, "count")
    /\ IF Cardinality(Pending) >= MaxPending
       THEN Unlock(t) /\ End(t)
       ELSE GoTo(t, "current") /\ UNCHANGED lock
    /\ UNCHANGED <<rows, refused>>

Current(t) ==
    /\ At(t, "current")
    /\ turn' = [turn EXCEPT ![t].next = "insert", ![t].soul = Active]
    /\ UNCHANGED <<rows, lock, refused>>

\* Mutant: a proposal is stored with a status the table does not know.
InsertPending(t, p) ==
    /\ At(t, "insert")
    /\ status[p] = "none"
    /\ status' = [status EXCEPT ![p] = "pending"]
    /\ supersedes' = [supersedes EXCEPT ![p] = turn[t].soul]
    /\ Unlock(t)
    /\ End(t)
    /\ UNCHANGED <<old, refused>>

Insert(t, p) ==
    /\ At(t, "insert")
    /\ status[p] = "none"
    /\ status' = [status EXCEPT ![p] = "proposed"]
    /\ supersedes' = [supersedes EXCEPT ![p] = turn[t].soul]
    /\ Unlock(t)
    /\ End(t)
    /\ UNCHANGED <<old, refused>>

-----------------------------------------------------------------------------
(* decide *)

\* A message `approve soul <id>` or `reject soul <id>`.
Decide(t, p, statement) ==
    /\ At(t, "idle")
    /\ status[p] # "none"
    /\ turn' = [turn EXCEPT ![t] = [next |-> statement, row |-> p, soul |-> NoSoul]]
    /\ UNCHANGED <<rows, lock, refused>>

\* matching and judge: only a proposal that is still proposed, and not too old, can be decided.
Match(t) ==
    /\ turn[t].next \in {"matchApprove", "matchReject"}
    /\ IF turn[t].row \in Pending
       THEN GoTo(t, IF At(t, "matchApprove") THEN "lockApprove" ELSE "reject")
       ELSE End(t)
    /\ UNCHANGED <<rows, lock, refused>>

LockApprove(t) ==
    /\ At(t, "lockApprove")
    /\ Lock(t)
    /\ GoTo(t, "find")
    /\ UNCHANGED <<rows, refused>>

\* The proposal is read again, under the lock; PersonaInvalid if it is no longer proposed.
Find(t) ==
    /\ At(t, "find")
    /\ IF status[turn[t].row] = "proposed"
       THEN GoTo(t, "compare") /\ UNCHANGED lock
       ELSE Unlock(t) /\ End(t)
    /\ UNCHANGED <<rows, refused>>

\* Mutant: a stale proposal is applied.
CompareNothing(t) ==
    /\ At(t, "compare")
    /\ turn' = [turn EXCEPT ![t].next = "apply", ![t].soul = Active]
    /\ UNCHANGED <<rows, lock, refused>>

\* The soul it was written against must still be the active one; else it is stale.
Compare(t) ==
    /\ At(t, "compare")
    /\ IF supersedes[turn[t].row] = Active
       THEN turn' = [turn EXCEPT ![t].next = "apply", ![t].soul = Active] /\ UNCHANGED lock
       ELSE Unlock(t) /\ End(t)
    /\ UNCHANGED <<rows, refused>>

\* Both updates name their row by its id alone.
Apply(t) ==
    /\ At(t, "apply")
    /\ status' = [p \in Proposals |->
                    IF p = turn[t].row THEN "active"
                    ELSE IF p = turn[t].soul THEN "superseded" ELSE status[p]]
    /\ Unlock(t)
    /\ End(t)
    /\ UNCHANGED <<supersedes, old, refused>>

\* reject: one UPDATE of a row still proposed, without the lock; PersonaInvalid if it found none.
Reject(t) ==
    LET p == turn[t].row IN
    /\ At(t, "reject")
    /\ IF status[p] = "proposed"
       THEN status' = [status EXCEPT ![p] = "rejected"] /\ refused' = refused \cup {p}
       ELSE UNCHANGED <<status, refused>>
    /\ End(t)
    /\ UNCHANGED <<supersedes, old, lock>>

-----------------------------------------------------------------------------
(* The worker dies or the database fails: the transaction is rolled back, the lock is free. *)
Abort(t) ==
    /\ ~At(t, "idle")
    /\ Unlock(t)
    /\ End(t)
    /\ UNCHANGED <<rows, refused>>

\* PROPOSAL_MAX_AGE passes.
Age(p) ==
    /\ status[p] # "none"
    /\ p \notin old
    /\ old' = old \cup {p}
    /\ UNCHANGED <<status, supersedes, lock, turn, refused>>

Next ==
    \/ \E t \in Turns :
         \/ Propose(t) \/ LockPropose(t) \/ Count(t) \/ Current(t)
         \/ Match(t) \/ LockApprove(t) \/ Find(t) \/ Compare(t) \/ Apply(t)
         \/ Reject(t)
         \/ Abort(t)
         \/ \E p \in Proposals :
              \/ Insert(t, p)
              \/ Decide(t, p, "matchApprove")
              \/ Decide(t, p, "matchReject")
    \/ \E p \in Proposals : Age(p)

Spec == Init /\ [][Next]_vars

-----------------------------------------------------------------------------
(* Properties *)

TypeOK ==
    /\ status \in [Proposals -> {"none", "proposed", "active", "superseded", "rejected"}]
    /\ supersedes \in [Proposals -> Souls]
    /\ old \subseteq Proposals
    /\ lock \in Turns \cup {Nobody}
    /\ turn \in [Turns -> Turn]
    /\ refused \subseteq Proposals

\* soul.py 3: at most one soul is active, so the unique index never refuses an approval.
OneActive ==
    \A p, q \in Proposals : status[p] = "active" /\ status[q] = "active" => p = q

\* soul.py 4-5: "an old proposal never silently undoes a newer approved soul": what an approval
\* replaces is the soul its proposal was written against.
NeverUndone ==
    [][\A p \in Proposals : status[p] # "active" /\ status'[p] = "active" =>
         supersedes[p] = Active]_vars

\* soul.py 36-37: no more than MaxPending young proposals wait for a decision at once.
PendingCapped == Cardinality(Pending) <= MaxPending

\* What a transaction that holds the lock has read is still so when it writes.
Reads(t) ==
    /\ turn[t].next \in {"count", "current", "insert", "find", "compare", "apply"} => lock = t
    /\ turn[t].next \in {"matchApprove", "matchReject", "lockApprove", "find", "compare",
                          "apply", "reject"} => turn[t].row \in Proposals
    /\ turn[t].next \in {"compare", "apply"} => status[turn[t].row] \in {"proposed", "rejected"}
    /\ turn[t].next \in {"insert", "apply"} => turn[t].soul = Active
    /\ turn[t].next = "apply" => supersedes[turn[t].row] = Active

\* The inductive invariant behind OneActive and NeverUndone.
SoulInv == TypeOK /\ OneActive /\ \A t \in Turns : Reads(t)

\* approval.py 33-35: a proposal the investor was told is rejected is not applied by another decision.
RefusedStays == \A p \in refused : status[p] = "rejected"

=============================================================================
