--------------------------- MODULE InvestorFacts ---------------------------
(***************************************************************************)
(* One investor's keyed facts and memories on the facts table: the tools   *)
(* and requests that write them at once, and the setup step that is read   *)
(* from them.  Soul rows, which take the same lock, are in Soul.           *)
(*                                                                         *)
(* Grain: one action is one SQL statement and the code up to the next      *)
(* await; the writes of a transaction, which nobody sees before, are one   *)
(* action with its commit.  A memory is its topic and words, as its hash   *)
(* tells them apart.                                                       *)
(***************************************************************************)
EXTENDS Naturals, Sequences

CONSTANTS
    Writers,      \* the tool calls and requests that write at once
    Names,        \* the values a name or a signal may have, the default among them
    DefaultName,
    Memories,     \* the memories that may be told
    Nobody,       \* not a writer
    MaxRows,      \* no call begins once so many keyed facts are stored
    MaxMemories   \* how many rows memories take

FactsAssumption == Nobody \notin Writers /\ MaxMemories \in Nat

VARIABLES
    rows,      \* the keyed facts, in the order they were stored
    memory,    \* memory[m]: the id of m's row, 0 when there is none
    stored,    \* how many memory rows were stored
    lock,      \* the writer whose transaction holds the persona lock
    writer,    \* writer[w]: what w does next, and what it knows
    renamed,   \* history, a call that renamed an agent has returned
    kept,      \* history, the memories, with their ids, the desk was told are stored
    forgotten  \* history, the ids that were deleted

facts == <<rows, lock, renamed>>
memories == <<memory, stored, kept, forgotten>>
vars == <<facts, memories, writer>>

\* keys.py: a name of the team, the Director's name, what answers or skips the team step, a signal.
Keys == {"analyst_name", "bot_name", "bot_vibe", "setup_team_names", "channel"}
NAME_KEYS == {"analyst_name", "bot_name"}
TEAM_NAME_KEYS == {"analyst_name"}
Values == Names \cup {"answered", "skipped"}

Row == [key : Keys, value : Values, active : BOOLEAN, supersedes : Nat]

\* given: the values its transactions have still to set; put: the rows this one will write;
\* answers: whether a second transaction answers the team step; rename: whether the call renames
\* an agent; wants: the memory it adds.
Rest == [at |-> "idle", given |-> <<>>, put |-> <<>>, answers |-> FALSE, rename |-> FALSE,
         wants |-> {}]
At(w, step) == writer[w].at = step

\* The row that holds a key's value; 0 when there is none.
Current(key) ==
    LET found == {i \in DOMAIN rows : rows[i].key = key /\ rows[i].active}
    IN IF found = {} THEN 0 ELSE CHOOSE i \in found : TRUE

Value(key, default) == IF Current(key) = 0 THEN default ELSE rows[Current(key)].value

Init ==
    /\ rows = <<>>
    /\ memory = [m \in Memories |-> 0]
    /\ stored = 0
    /\ lock = Nobody
    /\ writer = [w \in Writers |-> Rest]
    /\ renamed = FALSE
    /\ kept = {}
    /\ forgotten = {}

-----------------------------------------------------------------------------
(* Calls *)

Begin(w, given, answers) ==
    /\ At(w, "idle")
    /\ Len(rows) < MaxRows
    /\ writer' = [writer EXCEPT ![w] =
                    [Rest EXCEPT !.at = "lock", !.given = given, !.answers = answers,
                                 !.rename = \E i \in DOMAIN given : given[i][1] \in NAME_KEYS]]
    /\ UNCHANGED <<facts, memories>>

\* Mutant: only a name of the team answers the team step.
SetIdentityTeam(w) ==
    \/ \E key \in NAME_KEYS \cup {"bot_vibe"}, value \in Names :
         /\ Begin(w, <<<<key, value>>>>, key \in TEAM_NAME_KEYS)
    \/ \E first, second \in Names :
         Begin(w, <<<<"bot_name", first>>, <<"analyst_name", second>>>>, TRUE)

\* set_identity: one value, or both names at once.
SetIdentity(w) ==
    \/ \E key \in NAME_KEYS \cup {"bot_vibe"}, value \in Names :
         Begin(w, <<<<key, value>>>>, key \in NAME_KEYS)
    \/ \E first, second \in Names :
         Begin(w, <<<<"bot_name", first>>, <<"analyst_name", second>>>>, TRUE)

SkipSetupStep(w) == Begin(w, <<<<"setup_team_names", "skipped">>>>, FALSE)

\* record_signals, on each request.
RecordSignals(w) == \E value \in Names : Begin(w, <<<<"channel", value>>>>, FALSE)

-----------------------------------------------------------------------------
(* set_keyed and set_many *)

\* Mutant: the lock is not waited for.
LockAtOnce(w) ==
    /\ At(w, "lock")
    /\ lock' = w
    /\ writer' = [writer EXCEPT ![w].at = "write"]
    /\ UNCHANGED <<rows, renamed, memories>>

\* lock_persona
Lock(w) ==
    /\ At(w, "lock")
    /\ lock = Nobody
    /\ lock' = w
    /\ writer' = [writer EXCEPT ![w].at = "write"]
    /\ UNCHANGED <<rows, renamed, memories>>

\* Mutant: an unchanged value is written again.
WriteKeyedAlways(w) ==
    /\ At(w, "write")
    /\ writer[w].given # <<>>
    /\ LET key == Head(writer[w].given)[1]
           value == Head(writer[w].given)[2]
           row == [key |-> key, value |-> value, active |-> TRUE, supersedes |-> Current(key)]
       IN writer' = [writer EXCEPT ![w].given = Tail(@), ![w].put = Append(@, row)]
    /\ UNCHANGED <<facts, memories>>

\* _write_keyed: the current row is read, and superseded unless it holds the value.
WriteKeyed(w) ==
    /\ At(w, "write")
    /\ writer[w].given # <<>>
    /\ LET key == Head(writer[w].given)[1]
           value == Head(writer[w].given)[2]
           row == [key |-> key, value |-> value, active |-> TRUE, supersedes |-> Current(key)]
           same == Current(key) # 0 /\ rows[Current(key)].value = value
       IN writer' = [writer EXCEPT ![w].given = Tail(@),
                                   ![w].put = IF same THEN @ ELSE Append(@, row)]
    /\ UNCHANGED <<facts, memories>>

Superseded(put) == {put[i].supersedes : i \in DOMAIN put}

\* The transaction commits; set_identity goes on to answer the team step in one of its own.
Commit(w) ==
    /\ At(w, "write")
    /\ writer[w].given = <<>>
    /\ rows' = [i \in DOMAIN rows |->
                  IF i \in Superseded(writer[w].put) THEN [rows[i] EXCEPT !.active = FALSE]
                  ELSE rows[i]] \o writer[w].put
    /\ lock' = IF lock = w THEN Nobody ELSE lock
    /\ IF writer[w].answers
       THEN writer' = [writer EXCEPT ![w] =
              [@ EXCEPT !.at = "lock", !.given = <<<<"setup_team_names", "answered">>>>,
                        !.put = <<>>, !.answers = FALSE]] /\ UNCHANGED renamed
       ELSE writer' = [writer EXCEPT ![w] = Rest] /\ renamed' = (renamed \/ writer[w].rename)
    /\ UNCHANGED memories

\* The worker dies, or the embedder or the database fails: the transaction is rolled back.
Abort(w) ==
    /\ ~At(w, "idle")
    /\ lock' = IF lock = w THEN Nobody ELSE lock
    /\ writer' = [writer EXCEPT ![w] = Rest]
    /\ UNCHANGED <<rows, renamed, memories>>

-----------------------------------------------------------------------------
(* memories.py *)

Remember(w, m, id) ==
    /\ kept' = kept \cup {<<m, id>>}
    /\ writer' = [writer EXCEPT ![w] = Rest]

\* add, first statement: the row is stored, unless the hash is there already.
Insert(w, m) ==
    /\ At(w, "idle")
    /\ stored < MaxMemories
    /\ IF memory[m] = 0
       THEN /\ stored' = stored + 1
            /\ memory' = [memory EXCEPT ![m] = stored + 1]
            /\ Remember(w, m, stored + 1)
       ELSE /\ writer' = [writer EXCEPT ![w] = [Rest EXCEPT !.at = "select", !.wants = {m}]]
            /\ UNCHANGED <<memory, stored, kept>>
    /\ UNCHANGED <<facts, forgotten>>

\* Mutant: what is there is not looked at.
SelectNothing(w) ==
    /\ At(w, "select")
    /\ \E m \in writer[w].wants : Remember(w, m, memory[m])
    /\ UNCHANGED <<facts, memory, stored, forgotten>>

\* add, second statement: the id of the row that was there.  If it was deleted since, the call
\* raises (ValueError) and nothing is stored.
Select(w) ==
    /\ At(w, "select")
    /\ \E m \in writer[w].wants :
         IF memory[m] # 0 THEN Remember(w, m, memory[m])
                          ELSE writer' = [writer EXCEPT ![w] = Rest] /\ UNCHANGED kept
    /\ UNCHANGED <<facts, memory, stored, forgotten>>

\* delete, by an id the desk was shown some time before.
Delete(id) ==
    /\ \E m \in Memories : memory[m] = id
    /\ memory' = [m \in Memories |-> IF memory[m] = id THEN 0 ELSE memory[m]]
    /\ forgotten' = forgotten \cup {id}
    /\ UNCHANGED <<facts, stored, kept, writer>>

KeyedNext ==
    \E w \in Writers :
        SetIdentity(w) \/ SkipSetupStep(w) \/ RecordSignals(w)
        \/ Lock(w) \/ WriteKeyed(w) \/ Commit(w) \/ Abort(w)

MemoryNext ==
    \/ \E w \in Writers : Select(w) \/ Abort(w) \/ \E m \in Memories : Insert(w, m)
    \/ \E id \in 1..MaxMemories : Delete(id)

\* A keyed fact and a memory are rows of one table that no statement takes both of.
Next == KeyedNext \/ MemoryNext

Spec == Init /\ [][Next]_vars

-----------------------------------------------------------------------------
(* graph/setup.py *)

\* compute_setup: the status of the team_names step.
TeamStep ==
    IF \/ \E key \in TEAM_NAME_KEYS : Value(key, DefaultName) # DefaultName
       \/ Value("setup_team_names", "none") = "answered" THEN "done"
    ELSE IF Current("setup_team_names") # 0 THEN "skipped" ELSE "todo"

-----------------------------------------------------------------------------
(* Properties *)

TypeOK ==
    /\ rows \in Seq(Row)
    /\ memory \in [Memories -> 0..MaxMemories]
    /\ stored \in 0..MaxMemories
    /\ lock \in Writers \cup {Nobody}
    /\ \A w \in Writers : writer[w].at \in {"idle", "lock", "write", "select"}
    /\ renamed \in BOOLEAN
    /\ kept \subseteq Memories \X (1..MaxMemories)
    /\ forgotten \subseteq 1..MaxMemories

\* facts.py 3-5: the rows of a key are one chain, whatever calls and requests write at once: each
\* supersedes the one before, and the last alone is active, so the unique index refuses nobody.
OneChain ==
    \A i \in DOMAIN rows :
        LET before == {k \in 1..i - 1 : rows[k].key = rows[i].key}
            after == {k \in i + 1..Len(rows) : rows[k].key = rows[i].key}
        IN /\ IF before = {} THEN rows[i].supersedes = 0
              ELSE rows[i].supersedes \in before /\ \A k \in before : k <= rows[i].supersedes
           /\ rows[i].active <=> after = {}

\* facts.py 5: "Setting the same value writes nothing": two rows of the chain in a row differ.
NothingRepeated ==
    \A i \in DOMAIN rows :
        rows[i].supersedes # 0 => rows[rows[i].supersedes].value # rows[i].value

\* tools/persona.py 54-56: once a call that renamed anyone has returned, the team step is not offered
\* again, whatever is renamed, named back or skipped after it.
NotOfferedAgain == renamed => TeamStep # "todo"

\* memories.py 54: a memory the desk was told is stored is in the table under that id, until it is
\* forgotten by that id.
KeptOrForgotten ==
    \A k \in kept : memory[k[1]] = k[2] \/ k[2] \in forgotten

=============================================================================
