----------------------------- MODULE ChatRelay -----------------------------
(***************************************************************************)
(* One chat turn as its job's events tell it: the chat graph's model node  *)
(* with its retries, its tools and notices, the parts they put on the      *)
(* graph's stream, and the relay that turns each part into events.  The    *)
(* relay takes the parts in the order they were put there, so a part is    *)
(* put and taken in one action.                                            *)
(*                                                                         *)
(* A text is the stamps of its fragments: which attempt produced it and    *)
(* when.  How much reasoning the filter holds back is left open; Redact    *)
(* says what it decides on.                                                *)
(***************************************************************************)
EXTENDS Naturals, Sequences, SequencesExt

CONSTANTS
    MaxCalls,         \* how often a turn calls the model
    MaxFragments,     \* how many fragments of text and reasoning a turn streams
    MaxNested,        \* how many parts a turn's tools put on the stream
    MaxTools,         \* how many tools one reply calls
    MaxNotices,       \* how many notices end a reply
    RETRY_ATTEMPTS

RelayAssumption ==
    /\ MaxCalls \in Nat \ {0} /\ MaxFragments \in Nat /\ MaxNested \in Nat
    /\ MaxTools \in Nat \ {0} /\ MaxNotices \in Nat
    /\ RETRY_ATTEMPTS \in Nat \ {0}

VARIABLES
    node,     \* the node that runs; "done" or "failed" when run_chat has returned or raised
    call,     \* the model call in progress
    relay,    \* ChatRelay: _streamed, _thought, reply, notices, and whether it filters reasoning
    held,     \* the reasoning its filter holds back
    events,   \* what was published
    clock,    \* history, how many fragments were streamed
    heard,    \* history, the reasoning that reached the filter
    lost      \* history, a publish failed

vars == <<node, call, relay, held, events, clock, heard, lost>>

Nodes == {"context", "agent", "tools", "notice", "done", "failed"}

\* The attempts are numbered through the turn; said and mused: what this one streamed.
Call == [number : 0..MaxCalls, attempt : 0..RETRY_ATTEMPTS, id : Nat,
         said : Seq(Nat), mused : BOOLEAN]

Stamp == [of : Nat, at : Nat]
Event == [type : {"progress", "retrying", "reasoning", "token", "message_end", "reset", "notice",
                  "tool"},
          text : Seq(Stamp)]

Ev(type) == [type |-> type, text |-> <<>>]
Text(type, stamps) == [type |-> type, text |-> stamps]

Init ==
    /\ node = "context"
    /\ call = [number |-> 0, attempt |-> 0, id |-> 0, said |-> <<>>, mused |-> FALSE]
    /\ \E reasoning \in BOOLEAN :
         relay = [streamed |-> FALSE, thought |-> FALSE, reply |-> <<>>, notices |-> 0,
                  reasoning |-> reasoning]
    /\ held = <<>>
    /\ events = <<>>
    /\ clock = 0
    /\ heard = <<>>
    /\ lost = FALSE

-----------------------------------------------------------------------------
(* ChatRelay.  Each part gives the events to publish, the relay and what is held after them. *)

\* flush: the reasoning still held back.
Flush(h) == IF h = <<>> THEN <<>> ELSE <<Text("reasoning", h)>>

\* Mutant: an event overtakes the reasoning held back before it.
AfterFlushLate(evs, r) == [out |-> evs \o Flush(held), relay |-> r, held |-> <<>>]

AfterFlush(evs, r) == [out |-> Flush(held) \o evs, relay |-> r, held |-> <<>>]

\* Mutant: every retry resets.
CustomResets(event, nested) ==
    LET retry == event = "retry" /\ ~nested IN
    IF event = "notice" /\ ~nested
      THEN AfterFlush(<<Ev("notice")>>, [relay EXCEPT !.notices = @ + 1])
    ELSE IF retry
      THEN AfterFlush(<<Ev("reset")>>, [relay EXCEPT !.streamed = FALSE, !.thought = FALSE])
    ELSE AfterFlush(IF event = "progress" THEN <<Ev("progress")>> ELSE <<>>, relay)

\* Mutant: a retry after reasoning alone is not marked.
CustomUnmarked(event, nested) ==
    LET retry == event = "retry" /\ ~nested IN
    IF event = "notice" /\ ~nested
      THEN AfterFlush(<<Ev("notice")>>, [relay EXCEPT !.notices = @ + 1])
    ELSE IF retry /\ relay.streamed
      THEN AfterFlush(<<Ev("reset")>>, [relay EXCEPT !.streamed = FALSE, !.thought = FALSE])
    ELSE AfterFlush(IF event = "progress" THEN <<Ev("progress")>> ELSE <<>>, relay)

\* _custom: progress, notices and retries.
Custom(event, nested) ==
    LET retry == event = "retry" /\ ~nested IN
    IF event = "notice" /\ ~nested
      THEN AfterFlush(<<Ev("notice")>>, [relay EXCEPT !.notices = @ + 1])
    ELSE IF retry /\ relay.streamed
      THEN AfterFlush(<<Ev("reset")>>, [relay EXCEPT !.streamed = FALSE, !.thought = FALSE])
    ELSE IF retry /\ relay.thought
      THEN AfterFlush(<<Ev("retrying")>>, [relay EXCEPT !.thought = FALSE])
    ELSE AfterFlush(IF event = "progress" THEN <<Ev("progress")>> ELSE <<>>, relay)

\* _message with reasoning: the filter lets go of the first n fragments it holds.
Reasoning(stamp, n) ==
    [out |-> Flush(SubSeq(held \o <<stamp>>, 1, n)),
     relay |-> [relay EXCEPT !.thought = TRUE],
     held |-> SubSeq(held \o <<stamp>>, n + 1, Len(held) + 1)]

\* _message with text.
Token(stamp) == AfterFlush(<<Text("token", <<stamp>>)>>, [relay EXCEPT !.streamed = TRUE])

\* Mutant: text before a tool call is not ended.
AgentUpdateOpen(text, calls) ==
    AfterFlush([i \in 1..calls |-> Ev("tool")],
        [relay EXCEPT !.streamed = FALSE, !.thought = FALSE, !.reply = text])

\* _updates from the model node.
AgentUpdate(text, calls) ==
    AfterFlush(
        (IF relay.streamed /\ calls > 0 THEN <<Ev("message_end")>> ELSE <<>>)
            \o [i \in 1..calls |-> Ev("tool")],
        [relay EXCEPT !.streamed = FALSE, !.thought = FALSE, !.reply = text])

\* _updates from the tools; those of the other nodes only flush.
ToolsUpdate(results) == AfterFlush([i \in 1..results |-> Ev("tool")], relay)

\* feed: every event of the part is published.
Feed(part) ==
    /\ relay' = part.relay
    /\ held' = part.held
    /\ events' = events \o part.out
    /\ lost' = lost

\* Publishing the part's event number k fails: feed raises, and what is held is still flushed.
\* That publish may fail too.
FeedFails(part) ==
    /\ \E k \in DOMAIN part.out, flushed \in BOOLEAN :
         events' = events \o SubSeq(part.out, 1, k - 1)
                          \o (IF flushed THEN Flush(part.held) ELSE <<>>)
    /\ relay' = part.relay
    /\ held' = <<>>
    /\ lost' = TRUE
    /\ node' = "failed"

\* A part is relayed, and the graph goes on, unless a publish failed.
Relay(part, next) == (Feed(part) /\ node' = next) \/ FeedFails(part)

-----------------------------------------------------------------------------
(* The chat graph's nodes *)

Attempt == [call EXCEPT !.attempt = @ + 1, !.id = @ + 1, !.said = <<>>, !.mused = FALSE]

\* The model node starts: it says so, then calls the model.
Ask ==
    /\ node = "context"
    /\ call.number < MaxCalls
    /\ call' = [Attempt EXCEPT !.number = @ + 1, !.attempt = 1]
    /\ Relay(Custom("progress", FALSE), "agent")
    /\ UNCHANGED <<clock, heard>>

Stream(said, mused) ==
    /\ node = "agent"
    /\ clock < MaxFragments
    /\ clock' = clock + 1
    /\ call' = [call EXCEPT !.said = @ \o said, !.mused = @ \/ mused]

\* A chunk of the answer.
Say ==
    /\ Stream(<<clock>>, FALSE)
    /\ Relay(Token([of |-> call.id, at |-> clock]), "agent")
    /\ UNCHANGED heard

\* A chunk of reasoning.
Think ==
    LET stamp == [of |-> call.id, at |-> clock] IN
    /\ Stream(<<>>, TRUE)
    /\ relay.reasoning
    /\ \E n \in 0..Len(held) + 1 : Relay(Reasoning(stamp, n), "agent")
    /\ heard' = Append(heard, stamp)

\* A chunk of reasoning when it is not to be streamed.
ThinkUnheard ==
    /\ Stream(<<>>, TRUE)
    /\ ~relay.reasoning
    /\ UNCHANGED <<node, relay, held, events, heard, lost>>

\* Backoff: the call failed in a way that may pass, and is made again.
Retry ==
    /\ node = "agent"
    /\ call.attempt < RETRY_ATTEMPTS
    /\ call' = Attempt
    /\ Relay(Custom("retry", FALSE), "agent")
    /\ UNCHANGED <<clock, heard>>

\* The reply is whole: its text is what was streamed, with tool calls or none.  One that only
\* reasoned is refused (EmptyReply), one cut off too (ReplyTruncated): both are Raise.
Reply ==
    /\ node = "agent"
    /\ \E calls \in 0..MaxTools :
         /\ call.mused /\ call.said = <<>> => calls > 0
         /\ Relay(AgentUpdate(call.said, calls), IF calls > 0 THEN "tools" ELSE "notice")
    /\ UNCHANGED <<call, clock, heard>>

\* A graph that runs inside a tool: its progress is relayed, its retries, texts and updates are not.
Nested ==
    /\ node = "tools"
    /\ clock < MaxFragments + MaxNested
    /\ clock' = clock + 1
    /\ \E event \in {"progress", "retry"} : Relay(Custom(event, TRUE), "tools")
    /\ UNCHANGED <<call, heard>>

Tools ==
    /\ node = "tools"
    /\ \E results \in 1..MaxTools : Relay(ToolsUpdate(results), "context")
    /\ UNCHANGED <<call, clock, heard>>

\* A decision and a proposal each add a notice.
Notice ==
    /\ node = "notice"
    /\ relay.notices < MaxNotices
    /\ Relay(Custom("notice", FALSE), "notice")
    /\ UNCHANGED <<call, clock, heard>>

\* run_chat's finally: the reasoning held back is sent before the outcome.
Flushed(outcome) ==
    /\ held' = <<>>
    /\ \/ events' = events \o Flush(held) /\ lost' = lost /\ node' = outcome
       \/ held # <<>> /\ lost' = TRUE /\ node' = "failed" /\ UNCHANGED events
    /\ UNCHANGED <<call, relay, clock, heard>>

Return == node = "notice" /\ Flushed("done")

\* Mutant: a turn that fails drops what is held back.
RaiseAtOnce ==
    /\ node \in {"context", "agent", "tools", "notice"}
    /\ node' = "failed"
    /\ held' = <<>>
    /\ UNCHANGED <<call, relay, events, clock, heard, lost>>

\* A node raises, or the turn is cancelled when its thread lock is lost.
Raise == node \in {"context", "agent", "tools", "notice"} /\ Flushed("failed")

Next ==
    \/ Ask \/ Say \/ Think \/ ThinkUnheard \/ Retry \/ Reply \/ Nested \/ Tools \/ Notice
    \/ Return \/ Raise

Spec == Init /\ [][Next]_vars

-----------------------------------------------------------------------------
(* Properties *)

TypeOK ==
    /\ node \in Nodes
    /\ call \in Call
    /\ relay \in [streamed : BOOLEAN, thought : BOOLEAN, reply : Seq(Nat), notices : 0..MaxNotices,
                  reasoning : BOOLEAN]
    /\ held \in Seq(Stamp)
    /\ events \in Seq(Event)
    /\ clock \in 0..MaxFragments + MaxNested
    /\ heard \in Seq(Stamp)
    /\ lost \in BOOLEAN

Texts(type) == FlattenSeq([i \in DOMAIN events |->
                             IF events[i].type = type THEN events[i].text ELSE <<>>])

\* stream.py 57-58 and 132-133: all reasoning is published, in the order it came and before any later
\* event, and none is held back when the turn is over, however it ended.
AllThinkingShown ==
    ~lost =>
        /\ Texts("reasoning") \o held = heard
        /\ node \in {"done", "failed"} => held = <<>>

\* The last fragment each event shows came after all that earlier events show.
ShownInOrder ==
    \A i, j \in DOMAIN events : i < j =>
        \A s \in ToSet(events[i].text), t \in ToSet(events[j].text) : s.at < t.at

\* What a client that follows the events shows as the message in progress: the tokens since the
\* last reset or finished message.
Partial ==
    LET ends == {i \in DOMAIN events : events[i].type \in {"reset", "message_end"}}
        since == {i \in DOMAIN events : \A j \in ends : i > j}
    IN FlattenSeq([i \in DOMAIN events |->
         IF i \in since /\ events[i].type = "token" THEN <<events[i].text[1].at>> ELSE <<>>])

\* queue/models.py 95-103: what the client shows is always one attempt's text alone, the one in
\* progress, and in the end the reply the `done` event carries.
ClientShowsTheReply ==
    ~lost =>
        /\ node = "agent" => Partial = call.said
        /\ node \in {"notice", "done"} => Partial = relay.reply
        /\ node \in {"context", "tools"} => Partial = <<>>

\* stream.py 7-9: a reset voids something, since there were tokens after the last one.
ResetVoids ==
    \A i \in DOMAIN events : events[i].type = "reset" =>
        \E j \in 1..i - 1 :
            /\ events[j].type = "token"
            /\ \A k \in j..i - 1 : events[k].type \notin {"reset", "message_end"}

\* stream.py 8-9: text or reasoning of an abandoned attempt never runs into that of the next: an
\* event that says so is between them.
AttemptsAreParted ==
    \A i \in DOMAIN events : i + 1 \in DOMAIN events =>
        \A s \in ToSet(events[i].text), t \in ToSet(events[i + 1].text) : s.of = t.of

=============================================================================
