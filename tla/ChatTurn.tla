------------------------------ MODULE ChatTurn ------------------------------
(***************************************************************************)
(* The chat graph of one thread: context, agent, tools, notice and compact,*)
(* and the messages its checkpoint keeps.  A checkpoint is written after   *)
(* every node, and a turn may die anywhere: its job is never run again, so *)
(* the next turn goes on from what the checkpoint holds.                   *)
(*                                                                         *)
(* A message is its kind, whether it has text, the tool calls it makes or  *)
(* answers, and its place in the thread (0 for one shown but not stored).  *)
(* What a role, a soul change or a memory contains is left out.            *)
(***************************************************************************)
EXTENDS Naturals, Sequences, SequencesExt

CONSTANTS
    HISTORY_MESSAGES,   \* the window of latest messages
    BATCH,              \* compact once this many have left it
    MaxCalls,           \* how many tools one reply calls
    MaxMessages         \* how long the thread grows

TurnAssumption ==
    /\ HISTORY_MESSAGES \in Nat \ {0}
    /\ BATCH \in Nat \ {0}
    /\ MaxCalls \in Nat
    /\ MaxMessages \in Nat

VARIABLES
    messages,     \* the thread, never shortened
    summarized,   \* how many messages the summary covers
    covered,      \* history, those that went into a summary
    saved,        \* history, those whose facts were saved to memory
    node,         \* the node that runs next
    turn,         \* what this turn's state holds besides
    clean         \* history, the last turn ended and what had to be compacted was

vars == <<messages, summarized, covered, saved, node, turn, clean>>

\* "known" is within context, once the decision was applied.
Nodes == {"idle", "context", "known", "agent", "tools", "notice", "compact", "summary"}

\* phrase: the investor's message decides about a soul change; decided: how often that was applied;
\* told: how often the reply says so; opening: the reply opens the thread.
NoTurn == [phrase |-> FALSE, decided |-> 0, told |-> 0, opening |-> FALSE]
Turn == [phrase : BOOLEAN, decided : 0..MaxMessages, told : 0..MaxMessages, opening : BOOLEAN]

CallIds == (1..MaxMessages) \X (1..MaxCalls)
Message == [kind : {"human", "ai", "tool"}, text : BOOLEAN, calls : SUBSET CallIds,
            n : 0..MaxMessages]

Human(n) == [kind |-> "human", text |-> TRUE, calls |-> {}, n |-> n]
Ai(text, calls, n) == [kind |-> "ai", text |-> text, calls |-> calls, n |-> n]
ToolResult(id, n) == [kind |-> "tool", text |-> TRUE, calls |-> {id}, n |-> n]

Places(ms) == {ms[i].n : i \in DOMAIN ms}
Next_place == Len(messages) + 1

-----------------------------------------------------------------------------
(* graph/history.py *)

\* The ids answered by the tool results that follow message i of ms.
Results(ms, i) ==
    UNION {ms[j].calls : j \in {j \in i + 1..Len(ms) : \A k \in i + 1..j : ms[k].kind = "tool"}}

Empty(m) == m.kind = "ai" /\ m.calls = {} /\ ~m.text

\* The failure results added after message i, for the calls nothing answered.
Unfinished(ms, i) ==
    LET missing == IF ms[i].kind = "ai" THEN SetToSeq(ms[i].calls \ Results(ms, i)) ELSE <<>>
    IN [k \in DOMAIN missing |-> ToolResult(missing[k], 0)]

\* Mutant: only the last message's calls are looked at.
AnsweredLast(ms) == IF ms = <<>> THEN ms ELSE ms \o Unfinished(ms, Len(ms))

\* Every tool call answered, and empty replies dropped.
Answered(ms) ==
    FlattenSeq([i \in DOMAIN ms |-> IF Empty(ms[i]) THEN <<>> ELSE <<ms[i]>> \o Unfinished(ms, i)])

Last_n(ms, n) == SubSeq(ms, IF Len(ms) > n THEN Len(ms) - n + 1 ELSE 1, Len(ms))

From(ms, i) == SubSeq(ms, i, Len(ms))

\* The last messages, from the first human one among them, never opening on a tool result.
Recent(ms, limit) ==
    LET window == Last_n(ms, limit)
        humans == {i \in DOMAIN window : window[i].kind = "human"}
        starts == {i \in 1..Len(window) + 1 : i \in DOMAIN window => window[i].kind # "tool"}
        first(s) == CHOOSE i \in s : \A j \in s : i <= j
    IN From(window, first(IF humans # {} THEN humans ELSE starts))

\* Mutant: a window without the batch that is not yet compacted.
HistoryWindow == Recent(Answered(From(messages, summarized + 1)), HISTORY_MESSAGES)

\* What the model is shown: everything after the summary, within the window and a batch.
History == Recent(Answered(From(messages, summarized + 1)), HISTORY_MESSAGES + BATCH)

-----------------------------------------------------------------------------
(* graph/compaction.py *)

\* Where the recent window begins: at a human message.  Places are counted from 0.
Window_start ==
    LET start == IF Len(messages) > HISTORY_MESSAGES THEN Len(messages) - HISTORY_MESSAGES ELSE 0
        from == {i \in start..Len(messages) : i < Len(messages) => messages[i + 1].kind = "human"}
    IN CHOOSE i \in from : \A j \in from : i <= j

Due == Window_start >= summarized + BATCH
Span == summarized + 1..Window_start

-----------------------------------------------------------------------------
Init ==
    /\ messages = <<>>
    /\ summarized = 0
    /\ covered = {}
    /\ saved = {}
    /\ node = "idle"
    /\ turn = NoTurn
    /\ clean = TRUE

Add(ms) == messages' = messages \o ms
Compacted == <<summarized, covered, saved>>

\* run_chat: the investor's message, with the job's id, is added to the thread.
Ask ==
    /\ node = "idle"
    /\ Len(messages) < MaxMessages
    /\ Add(<<Human(Next_place)>>)
    /\ \E phrase \in BOOLEAN : turn' = [NoTurn EXCEPT !.phrase = phrase]
    /\ node' = "context"
    /\ UNCHANGED <<Compacted, clean>>

\* Mutant: only what no summary covers is looked at.
OpeningRecent == \A i \in summarized + 1..Len(messages) :
    messages[i].kind = "ai" => \A j \in i..Len(messages) : messages[j].kind # "human"

\* setup.opening: no reply was ever given before this message.
Opening == \A i \in DOMAIN messages :
    messages[i].kind = "ai" => \A j \in i..Len(messages) : messages[j].kind # "human"

\* Mutant: the decision is looked for at every step of the turn.
DecideAgain ==
    /\ node = "context"
    /\ turn.phrase
    /\ turn' = [turn EXCEPT !.decided = @ + 1]
    /\ node' = "known"
    /\ UNCHANGED <<messages, Compacted, clean>>

\* A decision is applied on the investor's own message only, not after a tool step.
Deciding == messages[Len(messages)].kind = "human" /\ turn.phrase

\* decide commits by itself: a turn that dies before the end of the node never tells what it did.
Decide ==
    /\ node = "context"
    /\ Deciding
    /\ turn' = [turn EXCEPT !.decided = @ + 1]
    /\ node' = "known"
    /\ UNCHANGED <<messages, Compacted, clean>>

\* What is known of the investor is read, and the node ends.
Context ==
    /\ node = "known" \/ (node = "context" /\ ~Deciding)
    /\ turn' = [turn EXCEPT !.opening = Opening]
    /\ node' = "agent"
    /\ UNCHANGED <<messages, Compacted, clean>>

\* The model's reply: it calls tools or not, and may be empty.
Agent ==
    /\ node = "agent"
    /\ Len(messages) < MaxMessages
    /\ \E n \in 0..MaxCalls, text \in BOOLEAN :
         /\ Add(<<Ai(text, {Next_place} \X (1..n), Next_place)>>)
         /\ node' = IF n = 0 THEN "notice" ELSE "tools"
    /\ UNCHANGED <<Compacted, turn, clean>>

\* ToolNode: the results of all calls of the reply, or none of them when one raises (Die).
Tools ==
    LET calls == SetToSeq(messages[Len(messages)].calls) IN
    /\ node = "tools"
    /\ Len(messages) + Len(calls) <= MaxMessages
    /\ Add([k \in DOMAIN calls |-> ToolResult(calls[k], Len(messages) + k)])
    /\ node' = "context"
    /\ UNCHANGED <<Compacted, turn, clean>>

\* Mutant: the reply with the notice is added beside the model's.
NoticeAppends ==
    /\ node = "notice"
    /\ turn' = [turn EXCEPT !.told = turn.decided]
    /\ node' = "compact"
    /\ Add(IF turn.decided > 0 THEN <<Ai(TRUE, {}, Next_place)>> ELSE <<>>)
    /\ UNCHANGED <<Compacted, clean>>

\* The reply ends with what the decision did; it replaces the model's, under the same id.
Notice ==
    /\ node = "notice"
    /\ turn' = [turn EXCEPT !.told = turn.decided]
    /\ node' = "compact"
    /\ messages' = [messages EXCEPT ![Len(messages)].text = @ \/ turn.decided > 0]
    /\ UNCHANGED <<Compacted, clean>>

\* The span's facts are saved, one by one, before it is summarised.
Flush ==
    /\ node = "compact"
    /\ IF Due THEN saved' = saved \cup Span /\ node' = "summary" /\ UNCHANGED clean
              ELSE node' = "idle" /\ clean' = TRUE /\ UNCHANGED saved
    /\ UNCHANGED <<messages, summarized, covered, turn>>

Summarize ==
    /\ node = "summary"
    /\ summarized' = Window_start
    /\ covered' = covered \cup Span
    /\ node' = "idle"
    /\ clean' = TRUE
    /\ UNCHANGED <<messages, saved, turn>>

\* Mutant: a failed summary is not tried again.
CompactionSkips ==
    /\ node \in {"compact", "summary"}
    /\ Due
    /\ node' = "idle"
    /\ clean' = FALSE
    /\ summarized' = Window_start
    /\ UNCHANGED <<messages, covered, saved, turn>>

\* A failed flush or summary changes nothing: the turn ends, and the next one tries again.
CompactionFails ==
    /\ node \in {"compact", "summary"}
    /\ Due
    /\ node' = "idle"
    /\ clean' = FALSE
    /\ UNCHANGED <<messages, Compacted, turn>>

\* The turn raises or its worker dies; the checkpoint keeps what the finished nodes wrote.
Die ==
    /\ node # "idle"
    /\ node' = "idle"
    /\ clean' = FALSE
    /\ UNCHANGED <<messages, Compacted, turn>>

Next ==
    \/ Ask \/ Decide \/ Context \/ Agent \/ Tools \/ Notice \/ Flush \/ Summarize
    \/ CompactionFails \/ Die

Spec == Init /\ [][Next]_vars

-----------------------------------------------------------------------------
(* Properties *)

TypeOK ==
    /\ messages \in Seq(Message) /\ Len(messages) <= MaxMessages
    /\ summarized \in 0..MaxMessages
    /\ covered \subseteq 1..MaxMessages
    /\ saved \subseteq 1..MaxMessages
    /\ node \in Nodes
    /\ turn \in Turn
    /\ clean \in BOOLEAN

\* history.py 14-15 and 42-43: in what the model is shown, whatever turns died before, the results
\* that follow a reply answer exactly its calls, and there is no result of any other call.
HistoryAnswered ==
    node = "agent" =>
        /\ \A i \in DOMAIN History : History[i].kind = "ai" => Results(History, i) = History[i].calls
        /\ \A i \in DOMAIN History : History[i].kind = "tool" =>
             \E j \in 1..i - 1 : /\ History[j].kind = "ai"
                                 /\ \A k \in j + 1..i : History[k].kind = "tool"

\* chat.py 102-105 with compaction.py 1-6: after a turn that ended and whose compaction succeeded,
\* the next message's first reply is given all of the thread, each message shown or summarised.  A
\* call left unanswered by a dead turn is excepted: the failure results shown in its place take
\* room in the window, and may push out as many older messages that no summary covers yet.
NothingUnseen ==
    /\ node = "agent"
    /\ clean
    /\ messages[Len(messages)].kind = "human"
    /\ 0 \notin Places(Answered(From(messages, summarized + 1)))
    => \A i \in DOMAIN messages :
            Empty(messages[i]) \/ i \in covered \/ i \in Places(History)

\* compaction.py 4-6: the summary covers the messages before `summarized`, no more and no less,
\* whatever compaction failed, and their facts had been saved by then.
SummaryIsWhole ==
    /\ covered = 1..summarized
    /\ covered \subseteq saved

\* chat.py 3-7: a decision is applied once, however many steps the turn has and wherever it dies, and
\* a reply that ends its turn says what was done.
DecidedOnce ==
    /\ turn.decided <= 1
    /\ node \in {"compact", "summary"} => turn.told = turn.decided

\* setup.py 58-60: the reply that opens the thread is its first, so no later turn introduces itself
\* again, though turns die and the beginning is summarised.
OpensOnce ==
    node = "agent" /\ turn.opening =>
        \A i \in DOMAIN messages : messages[i].kind = "human" =>
            \A j \in 1..i : messages[j].kind = "human"

=============================================================================
