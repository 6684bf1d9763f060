--------------------------- MODULE InvestorSetup ---------------------------
(***************************************************************************)
(* The guided setup: the tool calls that answer its steps, one             *)
(* transaction each (set_identity: two), and the turns that read where the *)
(* investor is in it, in three reads, while those calls run.               *)
(*                                                                         *)
(* Grain: one action is one transaction.  That each is one, whatever it is *)
(* made of, is what InvestorFacts shows.  Of the persona's fields only the *)
(* ones the setup reads are kept, the team's three names as one.           *)
(***************************************************************************)
EXTENDS Naturals

CONSTANTS
    Calls,        \* the tool calls of the investor's conversations that run at once
    Turns,        \* the turns and research runs that read the setup
    Names,        \* the names an agent may be given, the default among them
    DefaultName,
    Topics,       \* the core topics
    Tickers,
    MaxMemories   \* the memories of one topic

SetupAssumption == DefaultName \in Names /\ MaxMemories \in Nat

VARIABLES
    user,        \* the facts the setup reads: names and the steps that were skipped or answered
    remembered,  \* remembered[t]: how many memories the topic has
    held,        \* the tickers held
    call,        \* call[c]: "idle", or "renamed" between set_identity's two transactions
    turn,        \* turn[r]: how far its read is, what it has read, and what it found
    settled      \* history, the steps a call that has returned settled for good

investor == <<user, remembered, held>>
vars == <<investor, call, turn, settled>>

STEPS == {"investor_name", "team_names", "core_profile", "holdings"}
Skippable == {"team_names", "holdings"}

\* IDENTITY_DEFAULTS, and nothing said yet.  A step's own fact is what SETUP_SKIPS names.
NobodyYet == [preferred_name |-> FALSE, team |-> DefaultName,
              team_names |-> "none", holdings |-> "none"]

Init ==
    /\ user = NobodyYet
    /\ remembered = [t \in Topics |-> 0]
    /\ held = {}
    /\ call = [c \in Calls |-> "idle"]
    /\ turn = [r \in Turns |-> [at |-> "idle", user |-> NobodyYet, unknown |-> Topics,
                                settled |-> {}, setup |-> [s \in STEPS |-> "todo"]]]
    /\ settled = {}

-----------------------------------------------------------------------------
(* graph/setup.py *)

\* Mutant: what answered the team step is not looked at.
ComputeRenamedOnly(persona, unknown, tickers) ==
    [s \in STEPS |->
        IF \/ s = "investor_name" /\ persona.preferred_name
           \/ s = "team_names" /\ persona.team # DefaultName
           \/ s = "core_profile" /\ unknown = {}
           \/ s = "holdings" /\ tickers # {} THEN "done"
        ELSE IF s \in Skippable /\ persona[s] = "skipped" THEN "skipped" ELSE "todo"]

\* compute_setup: the status of every step.
ComputeSetup(persona, unknown, tickers) ==
    [s \in STEPS |->
        IF \/ s = "investor_name" /\ persona.preferred_name
           \/ s = "team_names" /\ (persona.team # DefaultName \/ persona.team_names = "answered")
           \/ s = "core_profile" /\ unknown = {}
           \/ s = "holdings" /\ tickers # {} THEN "done"
        ELSE IF s \in Skippable /\ persona[s] # "none" THEN "skipped" ELSE "todo"]

UnknownTopics(memories) == {t \in Topics : memories[t] = 0}

\* stage: setup until no step is todo.
Stage(setup) == IF \E s \in STEPS : setup[s] = "todo" THEN "setup" ELSE "ready"

\* Where the investor is in it now.
Setup == ComputeSetup(user, UnknownTopics(remembered), held)

-----------------------------------------------------------------------------
(* Tool calls *)

\* Mutant: the default name is no answer.
SetIdentityNew(c) ==
    /\ call[c] = "idle"
    /\ \E name \in Names :
         /\ user' = [user EXCEPT !.team = name]
         /\ IF name # DefaultName THEN call' = [call EXCEPT ![c] = "renamed"] ELSE UNCHANGED call
    /\ UNCHANGED <<remembered, held, turn, settled>>

\* set_identity, its first transaction: a name of the team, or (as it stands) the Director's alone,
\* which no step reads.
SetIdentity(c) ==
    /\ call[c] = "idle"
    /\ \E name \in Names : user' = [user EXCEPT !.team = name]
    /\ call' = [call EXCEPT ![c] = "renamed"]
    /\ UNCHANGED <<remembered, held, turn, settled>>

\* Its second: any rename answers the team step.
Answer(c) ==
    /\ call[c] = "renamed"
    /\ user' = [user EXCEPT !.team_names = "answered"]
    /\ settled' = settled \cup {"team_names"}
    /\ call' = [call EXCEPT ![c] = "idle"]
    /\ UNCHANGED <<remembered, held, turn>>

\* The worker dies between the two, or the second fails.
Die(c) ==
    /\ call[c] = "renamed"
    /\ call' = [call EXCEPT ![c] = "idle"]
    /\ UNCHANGED <<investor, turn, settled>>

\* set_user_details with a preferred name; min_length=1 after the strip, so it is never emptied.
SetUserDetails(c) ==
    /\ call[c] = "idle"
    /\ user' = [user EXCEPT !.preferred_name = TRUE]
    /\ settled' = settled \cup {"investor_name"}
    /\ UNCHANGED <<remembered, held, call, turn>>

SkipSetupStep(c) ==
    /\ call[c] = "idle"
    /\ \E step \in Skippable :
         /\ user' = [user EXCEPT ![step] = "skipped"]
         /\ settled' = settled \cup {step}
    /\ UNCHANGED <<remembered, held, call, turn>>

Remember(c) ==
    /\ call[c] = "idle"
    /\ \E t \in Topics :
         /\ remembered[t] < MaxMemories
         /\ remembered' = [remembered EXCEPT ![t] = @ + 1]
    /\ UNCHANGED <<user, held, call, turn, settled>>

Forget(c) ==
    /\ call[c] = "idle"
    /\ \E t \in Topics :
         /\ remembered[t] > 0
         /\ remembered' = [remembered EXCEPT ![t] = @ - 1]
    /\ UNCHANGED <<user, held, call, turn, settled>>

SetHolding(c) ==
    /\ call[c] = "idle"
    /\ \E ticker \in Tickers : held' = held \cup {ticker}
    /\ UNCHANGED <<user, remembered, call, turn, settled>>

RemoveHolding(c) ==
    /\ call[c] = "idle"
    /\ \E ticker \in held : held' = held \ {ticker}
    /\ UNCHANGED <<user, remembered, call, turn, settled>>

-----------------------------------------------------------------------------
(* load_known: three reads, each of its own *)

ReadPersona(r) ==
    /\ turn[r].at \in {"idle", "known"}
    /\ turn' = [turn EXCEPT ![r] = [@ EXCEPT !.at = "persona", !.user = user, !.settled = settled,
                                             !.unknown = Topics, !.setup = [s \in STEPS |-> "todo"]]]
    /\ UNCHANGED <<investor, call, settled>>

ReadMemories(r) ==
    /\ turn[r].at = "persona"
    /\ turn' = [turn EXCEPT ![r] =
                  [@ EXCEPT !.at = "memories", !.unknown = UnknownTopics(remembered)]]
    /\ UNCHANGED <<investor, call, settled>>

\* The last read; setup_of decides from the three.
ReadHoldings(r) ==
    /\ turn[r].at = "memories"
    /\ turn' = [turn EXCEPT ![r] =
                  [@ EXCEPT !.at = "known",
                             !.setup = ComputeSetup(turn[r].user, turn[r].unknown, held)]]
    /\ UNCHANGED <<investor, call, settled>>

Next ==
    \/ \E c \in Calls :
         \/ SetIdentity(c) \/ Answer(c) \/ Die(c) \/ SetUserDetails(c) \/ SkipSetupStep(c)
         \/ Remember(c) \/ Forget(c) \/ SetHolding(c) \/ RemoveHolding(c)
    \/ \E r \in Turns : ReadPersona(r) \/ ReadMemories(r) \/ ReadHoldings(r)

Spec == Init /\ [][Next]_vars

-----------------------------------------------------------------------------
(* Properties *)

TypeOK ==
    /\ user \in [preferred_name : BOOLEAN, team : Names, team_names : {"none", "answered", "skipped"},
                holdings : {"none", "skipped"}]
    /\ remembered \in [Topics -> 0..MaxMemories]
    /\ held \subseteq Tickers
    /\ call \in [Calls -> {"idle", "renamed"}]
    /\ \A r \in Turns :
         /\ turn[r].at \in {"idle", "persona", "memories", "known"}
         /\ turn[r].unknown \subseteq Topics
         /\ turn[r].setup \in [STEPS -> {"todo", "done", "skipped"}]
    /\ settled \subseteq STEPS

\* tools/persona.py 98 ("so it is never asked again") and 54: a step a call skipped or answered before
\* a turn began to read is not put to the investor by that turn, whatever is renamed, named back,
\* sold or skipped meanwhile.
NotAskedAgain ==
    \A r \in Turns : turn[r].at = "known" => \A s \in turn[r].settled : turn[r].setup[s] # "todo"

\* graph/setup.py 73: an investor who is ready goes back to the setup only because a memory or a
\* holding was taken away, or while a rename is between its transactions.
ReadyStays ==
    [][Stage(Setup) = "ready" /\ Stage(Setup)' = "setup" =>
         \/ UnknownTopics(remembered) = {} /\ UnknownTopics(remembered)' # {}
         \/ held # {} /\ held' = {}
         \/ \E c \in Calls : call'[c] = "renamed"]_vars

=============================================================================
