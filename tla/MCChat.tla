------------------------------- MODULE MCChat -------------------------------
(***************************************************************************)
(* Instances of the modules of a chat for TLC: the lock that keeps the     *)
(* turns of a conversation apart (ThreadLock), the thread a conversation   *)
(* continues (ChatThreads), its turns (ChatTurn), and the relay of what a  *)
(* turn says (ChatRelay), whose reasoning is redacted (Redact).  They      *)
(* share no state at the grain they are modelled at, so a behaviour is one *)
(* of one of them: `part` says which.  The others stay in their initial    *)
(* state.                                                                  *)
(***************************************************************************)
EXTENDS ThreadLock, Sequences, TLC

CONSTANTS
    MaxCalls, MaxFragments, MaxNested, MaxTools, MaxNotices, RETRY_ATTEMPTS,   \* ChatRelay
    Conversations, NoThread, Anyone, MaxTurns, Window,     \* ChatThreads
    HISTORY_MESSAGES, BATCH, MaxToolCalls, MaxMessages,    \* ChatTurn
    Chars, WordChars, Spaces, TagEnds, Secrets, Tag,
    MAX_HOLDS, MaxFragment, MaxText                        \* Redact

VARIABLES
    part,
    node, call, relay, held, events, clock, heard, unsent,
    threads, aliases, history, request, opening, outcome, tasks, placed, unsure,
    messages, summarized, covered, saved, turnNode, turn, clean,
    text, buffer, sent, dropped, over

Relaying == INSTANCE ChatRelay WITH lost <- unsent

Threads == INSTANCE ChatThreads

Turn == INSTANCE ChatTurn WITH MaxCalls <- MaxToolCalls, node <- turnNode

Redaction == INSTANCE Redact

ASSUME PartsAssumption ==
    /\ Relaying!RelayAssumption
    /\ Threads!ThreadsAssumption
    /\ Turn!TurnAssumption
    /\ Redaction!RedactAssumption

\* An address, the name of a place, and a block of the prompt.
Identifying == {<<"x", ".", "x">>, <<"x", " ", "x">>}
BlockTag == <<"<", "x">>

relayVars == <<node, call, relay, held, events, clock, heard, unsent>>
threadsVars == <<threads, aliases, history, request, opening, outcome, tasks, placed, unsure>>
turnVars == <<messages, summarized, covered, saved, turnNode, turn, clean>>
redactVars == <<text, buffer, sent, dropped, over>>
chatVars == <<part, vars, relayVars, threadsVars, turnVars, redactVars>>

ChatInit ==
    /\ part \in {"lock", "threads", "turn", "relay", "redact"}
    /\ Init
    /\ Relaying!Init /\ (part # "relay" => relay.reasoning)
    /\ Threads!Init
    /\ Turn!Init
    /\ Redaction!Init

\* The conversations are alike: the first creates the thread they share.  A job matters while a request
\* waits for it or can still attach to it, and the rest while a sound one has turns to come.
First == CHOOSE c \in Conversations : TRUE

WorthSeeing ==
    /\ Threads!Base \in threads' \ threads => request[First].at = "create" /\ request'[First].at # "create"
    /\ \A c \in Conversations : outcome[c] # "none" /\ outcome'[c] # outcome[c] =>
         \/ \E r \in opening : r.job = c
         \/ \E d \in Conversations : request[d].at = "turn" /\ request[d].job = c
    /\ \E c \in Conversations : Threads!Sound(c) /\ Len(history[c]) < MaxTurns

ChatNext ==
    /\ UNCHANGED part
    /\ \/ part = "lock" /\ Next /\ UNCHANGED <<relayVars, threadsVars, turnVars, redactVars>>
       \/ /\ part = "threads"
          /\ Threads!Next
          /\ WorthSeeing
          /\ UNCHANGED <<vars, relayVars, turnVars, redactVars>>
       \/ part = "turn" /\ Turn!Next /\ UNCHANGED <<vars, relayVars, threadsVars, redactVars>>
       \/ part = "relay" /\ Relaying!Next /\ UNCHANGED <<vars, threadsVars, turnVars, redactVars>>
       \/ part = "redact" /\ Redaction!Next /\ UNCHANGED <<vars, relayVars, threadsVars, turnVars>>

\* The fairness of ThreadLock, in its part.
ChatFairness ==
    /\ WF_vars(part = "lock" /\ Tick)
    /\ \A j \in Jobs : WF_vars(part = "lock" /\ JobStep(j))

ChatSpec == ChatInit /\ [][ChatNext]_chatVars /\ ChatFairness

-----------------------------------------------------------------------------
(* Properties *)

\* Every variable of the parts of a chat has its type.
TypesOK ==
    /\ TypeOK
    /\ part = "relay" => Relaying!TypeOK
    /\ part = "threads" => Threads!TypeOK
    /\ part = "turn" => Turn!TypeOK
    /\ part = "redact" => Redaction!TypeOK

\* lock.py 7-8: a lost lock holds nobody up: a job that lost its lock to another is stopped, even if its
\* work would never end, and the lock of a job that ended without releasing it is free in the end.
LostLockEnds == part = "lock" => IntruderStops /\ NotLeftBehind

\* threads.py 7-11: a conversation whose requests always carried a known pair stays on one thread, and
\* shares it with no other that opened with the same words, unless one job answered both openings.
ThreadKept == part = "threads" => Threads!KeepsItsThread /\ Threads!KeptApart

\* history.py 14-15, chat.py 102-105, compaction.py 4-6: the history a model is shown is one it accepts,
\* and all of the thread is in it or in the summary, whatever turns and compactions failed.
HistoryWhole ==
    part = "turn" => Turn!HistoryAnswered /\ Turn!NothingUnseen /\ Turn!SummaryIsWhole

\* chat.py 3-7, setup.py 58-60: a soul decision is applied once and told, and the thread opened once.
TurnActsOnce == part = "turn" => Turn!DecidedOnce /\ Turn!OpensOnce

\* stream.py 57-58 and 132-133: all reasoning is shown, before what it led to.
ThinkingShown == part = "relay" => Relaying!AllThinkingShown /\ Relaying!ShownInOrder

\* stream.py 7-9, queue/models.py 95-103: a client shows one attempt's text alone, and in the end the
\* reply; a reset voids something, and parts two attempts.
ReplyShown ==
    part = "relay" =>
        Relaying!ClientShowsTheReply /\ Relaying!ResetVoids /\ Relaying!AttemptsAreParted

\* redact.py 3-14 and 74-75: neither a value nor a tag is sent, however fragments and cuts divide them,
\* and all the rest is, once and in order.
RestAloneIsSent ==
    part = "redact" => Redaction!NoValueSent /\ Redaction!NoTagSent /\ Redaction!RestIsSent

=============================================================================
