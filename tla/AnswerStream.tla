---------------------------- MODULE AnswerStream ----------------------------
(***************************************************************************)
(* Streamed answers and the history they leave.  A stream either relays    *)
(* the events of the graph, which a thread runs under the session's turn   *)
(* (settings.streaming_rag_parity), or talks to a model from the event     *)
(* loop and falls back on the graph.  A thread records the turn under the  *)
(* session's lock; the event loop records it with neither turn nor lock:   *)
(* after a stream, for a cached answer, and for an ask that raised.        *)
(*                                                                         *)
(* api/routers/conversation.py (ask_stream), agent/graph_stream.py, and    *)
(* iter_ask_events and _append_history of agent/graph.py.  The turn is     *)
(* what ConversationSession models; here it is who holds it.               *)
(***************************************************************************)
EXTENDS Naturals, Sequences, FiniteSets

CONSTANTS
    Streams,        \* requests to /api/ask/stream, all on one session
    Replies,        \* requests to /api/ask that the loop records: cached or raised
    MaxHistory,     \* ConversationSession._max_history, in turns
    MaxEvents,      \* bound: events of one run of the graph before its result
    MaxClears       \* bound: clearings of the session

ASSUME StreamAssumption ==
    /\ MaxHistory \in Nat \ {0}
    /\ MaxEvents \in Nat
    /\ MaxClears \in Nat
    /\ IsFiniteSet(Streams \cup Replies)
    /\ Streams \cap Replies = {}
    /\ {"earlier", "no stream"} \cap (Streams \cup Replies) = {}

VARIABLES
    parity,     \* settings.streaming_rag_parity
    history,    \* ConversationSession._history
    writing,    \* how far the loop, and the thread with the turn, are with their append
    at,         \* where the generator, or the handler, of a request is
    thread,     \* the work of a stream on the request executor
    holder,     \* the stream whose thread has the session's turn
    events,     \* the event queue of a stream
    preLen,     \* history_pre_len
    grown,      \* graph_appended_history
    text,       \* terminal_answer, as far as it is known
    shown,      \* whose tokens the client has seen
    saved,      \* the answer in the database
    sent,       \* the terminal event
    clears, clearedBy, overlapped   \* history variables

streamVars == <<parity, history, writing, at, thread, holder, events, preLen, grown, text,
                shown, saved, sent, clears, clearedBy, overlapped>>

NoStream == "no stream"
NoText == "none"

\* What an answer can be: of the graph, of the streaming model, empty, the words that stand
\* for an empty one, a cached answer or the message of an escalation.
Texts == {"graph", "model", "blank", "apology", "reply"}

Earlier == [who |-> "earlier", role |-> "user", text |-> "question"]

Pair(r, t) == <<[who |-> r, role |-> "user", text |-> "question"],
                [who |-> r, role |-> "assistant", text |-> t]>>

EarlierPair == <<Earlier, [Earlier EXCEPT !.role = "assistant"]>>

Resting == [step |-> "rest", pair |-> <<>>, trims |-> TRUE, kept |-> <<>>]

\* A new session, or one that was restored with all the turns it holds.
StreamInit ==
    /\ parity \in BOOLEAN
    /\ history \in {<<>>, [i \in 1..(2 * MaxHistory) |-> EarlierPair[2 - (i % 2)]]}
    /\ writing = [w \in {"loop", "thread"} |-> Resting]
    /\ at = [r \in Streams \cup Replies |-> "new"]
    /\ thread = [r \in Streams |-> "none"]
    /\ holder = NoStream
    /\ events = [r \in Streams |-> <<>>]
    /\ preLen = [r \in Streams |-> 0]
    /\ grown = [r \in Streams |-> FALSE]
    /\ text = [r \in Streams |-> NoText]
    /\ shown = [r \in Streams |-> {}]
    /\ saved = [r \in Streams |-> NoText]
    /\ sent = [r \in Streams |-> NoText]
    /\ clears = 0
    /\ clearedBy = {}
    /\ overlapped = FALSE

----------------------------------------------------------------------------
(* Recording a turn: two appends, then the cut to the newest turns.  The   *)
(* loop and a thread may alternate between any two of these steps; a cut   *)
(* assigns a list that was copied before.                                  *)

LoopIsFree == writing["loop"].step = "rest"

StartWriting(w, r, t, trims) ==
    writing' = [writing EXCEPT ![w] =
        [step |-> "user", pair |-> Pair(r, t), trims |-> trims, kept |-> <<>>]]

\* Mutant: the cut drops one message more than it should.
Newest_OneMessageLess(h) == SubSeq(h, Len(h) - 2 * MaxHistory + 2, Len(h))

\* The newest turns that the session keeps.
Newest(h) == SubSeq(h, Len(h) - 2 * MaxHistory + 1, Len(h))

AppendMessage(w) ==
    LET step == writing[w].step IN
    /\ step \in {"user", "assistant"}
    /\ history' = Append(history, writing[w].pair[IF step = "user" THEN 1 ELSE 2])
    /\ writing' =
        [writing EXCEPT ![w] =
            IF step = "user" THEN [@ EXCEPT !.step = "assistant"]
            ELSE IF @.trims THEN [@ EXCEPT !.step = "measure"]
            ELSE Resting]
    /\ overlapped' = (overlapped \/ \A v \in DOMAIN writing : writing[v].step # "rest")

Measure(w) ==
    /\ writing[w].step = "measure"
    /\ writing' = [writing EXCEPT ![w] =
            IF Len(history) > 2 * MaxHistory
            THEN [@ EXCEPT !.step = "cut", !.kept = Newest(history)]
            ELSE Resting]
    /\ overlapped' = (overlapped \/ \A v \in DOMAIN writing : writing[v].step # "rest")
    /\ UNCHANGED history

CutHistory(w) ==
    /\ writing[w].step = "cut"
    /\ history' = writing[w].kept
    /\ writing' = [writing EXCEPT ![w] = Resting]
    /\ UNCHANGED overlapped

WriteHistory(w) ==
    /\ AppendMessage(w) \/ Measure(w) \/ CutHistory(w)
    /\ UNCHANGED <<parity, at, thread, holder, events, preLen, grown, text, shown, saved, sent,
                   clears, clearedBy>>

\* DELETE of the session waits for the turn and empties the history; the requests of the
\* session that are not over are those it clears under.
ClearHistory ==
    /\ LoopIsFree
    /\ holder = NoStream
    /\ clears < MaxClears
    /\ clears' = clears + 1
    /\ history' = <<>>
    /\ clearedBy' = clearedBy \cup {r \in Streams : at[r] \notin {"new", "done"}}
    /\ UNCHANGED <<parity, writing, at, thread, holder, events, preLen, grown, text, shown,
                   saved, sent, overlapped>>

----------------------------------------------------------------------------
(* The thread of a stream: the graph's events, or a plain ask.             *)

TakeTurn(r) ==
    /\ thread[r] = "submitted"
    /\ holder = NoStream
    /\ holder' = r
    /\ thread' = [thread EXCEPT ![r] = "running"]
    /\ UNCHANGED <<parity, history, writing, at, events, preLen, grown, text, shown, saved,
                   sent, clears, clearedBy, overlapped>>

Relays(r) == parity /\ at[r] # "fallback"

\* The status of a node that ended, or a token of the provider.
EmitEvent(r, e) ==
    /\ thread[r] = "running"
    /\ Relays(r)
    /\ Len(events[r]) < MaxEvents
    /\ events' = [events EXCEPT ![r] = Append(@, e)]
    /\ UNCHANGED <<parity, history, writing, at, thread, holder, preLen, grown, text, shown,
                   saved, sent, clears, clearedBy, overlapped>>

\* The graph ends; the turn is recorded before its result is published.
EndGraph(r, t) ==
    /\ thread[r] = "running"
    /\ thread' = [thread EXCEPT ![r] = t]
    /\ StartWriting("thread", r, t, TRUE)
    /\ UNCHANGED <<parity, history, at, holder, events, preLen, grown, text, shown, saved, sent,
                   clears, clearedBy, overlapped>>

\* A plain ask that returned its answer.
Returned(t) == IF t = "graph" THEN "over_graph" ELSE "over_blank"

\* The result, the release of the turn in the generator's finally, and the end of the run.
PublishResult(r) ==
    /\ thread[r] \in {"graph", "blank"}
    /\ writing["thread"].step = "rest"
    /\ holder' = NoStream
    /\ events' = [events EXCEPT ![r] = IF Relays(r) THEN @ \o <<thread[r], "done">> ELSE @]
    /\ thread' = [thread EXCEPT ![r] = IF Relays(r) THEN "over" ELSE Returned(@)]
    /\ UNCHANGED <<parity, history, writing, at, preLen, grown, text, shown, saved, sent,
                   clears, clearedBy, overlapped>>

GraphRaises(r) ==
    /\ thread[r] = "running"
    /\ holder' = NoStream
    /\ events' = [events EXCEPT ![r] = IF Relays(r) THEN Append(@, "error") ELSE @]
    /\ thread' = [thread EXCEPT ![r] = "raised"]
    /\ UNCHANGED <<parity, history, writing, at, preLen, grown, text, shown, saved, sent,
                   clears, clearedBy, overlapped>>

----------------------------------------------------------------------------
(* The generator of a stream, on the event loop.                           *)

\* The client has the terminal event.
EndStream(r, t) ==
    /\ at' = [at EXCEPT ![r] = "done"]
    /\ sent' = [sent EXCEPT ![r] = t]

BeginStream(r) ==
    /\ LoopIsFree
    /\ at[r] = "new"
    /\ preLen' = [preLen EXCEPT ![r] = Len(history)]
    /\ at' = [at EXCEPT ![r] = IF parity THEN "relaying" ELSE "streaming"]
    /\ thread' = [thread EXCEPT ![r] = IF parity THEN "submitted" ELSE "none"]
    /\ UNCHANGED <<parity, history, writing, holder, events, grown, text, shown, saved, sent,
                   clears, clearedBy, overlapped>>

\* An event that does not end the run.
RelayEvent(r) ==
    /\ LoopIsFree
    /\ at[r] = "relaying"
    /\ events[r] # <<>>
    /\ Head(events[r]) \in {"status", "token", "graph", "blank"}
    /\ events' = [events EXCEPT ![r] = Tail(@)]
    /\ shown' = [shown EXCEPT ![r] = IF Head(events[r]) = "token" THEN @ \cup {"provider"} ELSE @]
    /\ text' = [text EXCEPT ![r] =
                    IF Head(events[r]) \in {"graph", "blank"} THEN Head(events[r]) ELSE @]
    /\ UNCHANGED <<parity, history, writing, at, thread, holder, preLen, grown, saved, sent,
                   clears, clearedBy, overlapped>>

\* Whether the graph has recorded the turn, by the length of the history.
HasGrown(r) == Len(history) > preLen[r]

EndOfRun(r) ==
    /\ LoopIsFree
    /\ at[r] = "relaying"
    /\ events[r] # <<>>
    /\ events' = [events EXCEPT ![r] = Tail(@)]
    /\ \/ /\ Head(events[r]) = "done"
          /\ grown' = [grown EXCEPT ![r] = HasGrown(r)]
          /\ at' = [at EXCEPT ![r] = "showing"]
          /\ UNCHANGED sent
       \/ /\ Head(events[r]) = "error"
          /\ EndStream(r, "error")
          /\ UNCHANGED grown
    /\ UNCHANGED <<parity, history, writing, thread, holder, preLen, text, shown, saved,
                   clears, clearedBy, overlapped>>

\* No event came in time: the stream ends, its thread does not.
GiveUpWaiting(r) ==
    /\ LoopIsFree
    /\ at[r] = "relaying"
    /\ events[r] = <<>>
    /\ EndStream(r, "error")
    /\ UNCHANGED <<parity, history, writing, thread, holder, events, preLen, grown, text, shown,
                   saved, clears, clearedBy, overlapped>>

\* The answer in chunks, unless its tokens went out as they were made; then the loop records
\* the turn if it believes that the graph did not.
ShowAnswer(r) ==
    /\ LoopIsFree
    /\ at[r] = "showing"
    /\ shown' = [shown EXCEPT ![r] = IF "provider" \in @ \/ text[r] = "blank" THEN @
                                     ELSE @ \cup {"chunks"}]
    /\ at' = [at EXCEPT ![r] = "recording"]
    /\ IF grown[r] THEN UNCHANGED writing ELSE StartWriting("loop", r, text[r], TRUE)
    /\ UNCHANGED <<parity, history, thread, holder, events, preLen, grown, text, saved, sent,
                   clears, clearedBy, overlapped>>

\* Tokens of the model; the time budget may cut them, an exception after a token ends them.
StreamTokens(r) ==
    /\ LoopIsFree
    /\ at[r] = "streaming"
    /\ shown' = [shown EXCEPT ![r] = {"model"}]
    /\ text' = [text EXCEPT ![r] = "model"]
    /\ at' = [at EXCEPT ![r] = "rating"]
    /\ UNCHANGED <<parity, history, writing, thread, holder, events, preLen, grown, saved, sent,
                   clears, clearedBy, overlapped>>

\* The deadline has passed before the search.
RefuseRetrieval(r) ==
    /\ LoopIsFree
    /\ at[r] = "streaming"
    /\ EndStream(r, "error")
    /\ UNCHANGED <<parity, history, writing, thread, holder, events, preLen, grown, text, shown,
                   saved, clears, clearedBy, overlapped>>

\* The answer is rated and questions are suggested, in threads; then the turn is recorded.
RecordStream(r) ==
    /\ LoopIsFree
    /\ at[r] = "rating"
    /\ at' = [at EXCEPT ![r] = "recording"]
    /\ StartWriting("loop", r, text[r], TRUE)
    /\ UNCHANGED <<parity, history, thread, holder, events, preLen, grown, text, shown, saved,
                   sent, clears, clearedBy, overlapped>>

\* Any exception before the first token: the graph answers instead.
FallBack(r) ==
    /\ LoopIsFree
    /\ at[r] = "streaming"
    /\ at' = [at EXCEPT ![r] = "fallback"]
    /\ thread' = [thread EXCEPT ![r] = "submitted"]
    /\ UNCHANGED <<parity, history, writing, holder, events, preLen, grown, text, shown, saved,
                   sent, clears, clearedBy, overlapped>>

FallbackAnswers(r) ==
    /\ LoopIsFree
    /\ at[r] = "fallback"
    /\ thread[r] \in {"over_graph", "over_blank"}
    /\ text' = [text EXCEPT ![r] = IF thread[r] = "over_blank" THEN "apology" ELSE "graph"]
    /\ at' = [at EXCEPT ![r] = "recording"]
    /\ UNCHANGED <<parity, history, writing, thread, holder, events, preLen, grown, shown, saved,
                   sent, clears, clearedBy, overlapped>>

FallbackFails(r) ==
    /\ LoopIsFree
    /\ at[r] = "fallback"
    /\ thread[r] = "raised"
    /\ EndStream(r, "failed")
    /\ UNCHANGED <<parity, history, writing, thread, holder, events, preLen, grown, text, shown,
                   saved, clears, clearedBy, overlapped>>

\* The text that goes to the database.
SavedText(r) == text[r]

\* The answer is persisted, or is not: the database may refuse it silently.
PersistAnswer(r, stored) ==
    /\ LoopIsFree
    /\ at[r] = "recording"
    /\ saved' = [saved EXCEPT ![r] = IF stored THEN SavedText(r) ELSE @]
    /\ EndStream(r, text[r])
    /\ UNCHANGED <<parity, history, writing, thread, holder, events, preLen, grown, text, shown,
                   clears, clearedBy, overlapped>>

\* The client goes away at a yield or an await of the generator.
LeaveStream(r) ==
    /\ LoopIsFree
    /\ at[r] \notin {"new", "done"}
    /\ at' = [at EXCEPT ![r] = "done"]
    /\ UNCHANGED <<parity, history, writing, thread, holder, events, preLen, grown, text, shown,
                   saved, sent, clears, clearedBy, overlapped>>

\* A cached answer, or an ask whose pipeline raised (its message is not followed by a cut).
RecordReply(a, cached) ==
    /\ LoopIsFree
    /\ at[a] = "new"
    /\ at' = [at EXCEPT ![a] = "done"]
    /\ StartWriting("loop", a, "reply", cached)
    /\ UNCHANGED <<parity, history, thread, holder, events, preLen, grown, text, shown, saved,
                   sent, clears, clearedBy, overlapped>>

----------------------------------------------------------------------------
ThreadStep(r) ==
    \/ TakeTurn(r)
    \/ \E e \in {"status", "token"} : EmitEvent(r, e)
    \/ \E t \in {"graph", "blank"} : EndGraph(r, t)
    \/ PublishResult(r)
    \/ GraphRaises(r)

GeneratorStep(r) ==
    \/ BeginStream(r)
    \/ RelayEvent(r) \/ EndOfRun(r) \/ GiveUpWaiting(r) \/ ShowAnswer(r)
    \/ StreamTokens(r) \/ RefuseRetrieval(r) \/ RecordStream(r)
    \/ FallBack(r) \/ FallbackAnswers(r) \/ FallbackFails(r)
    \/ \E stored \in BOOLEAN : PersistAnswer(r, stored)
    \/ LeaveStream(r)

StreamNext ==
    \/ \E w \in {"loop", "thread"} : WriteHistory(w)
    \/ ClearHistory
    \/ \E r \in Streams : ThreadStep(r) \/ GeneratorStep(r)
    \/ \E a \in Replies, cached \in BOOLEAN : RecordReply(a, cached)

StreamSpec == StreamInit /\ [][StreamNext]_streamVars

----------------------------------------------------------------------------
MessageOf == [who : Streams \cup Replies \cup {"earlier"}, role : {"user", "assistant"},
              text : Texts \cup {"question"}]

\* Type invariant of the streams: every variable holds a value the handlers can produce, and
\* a thread writes to the history only with the session's turn.
StreamTypeOK ==
    /\ parity \in BOOLEAN
    /\ \A i \in DOMAIN history : history[i] \in MessageOf
    /\ \A w \in DOMAIN writing :
            writing[w].step \in {"rest", "user", "assistant", "measure", "cut"}
    /\ writing["thread"].step # "rest" => holder \in Streams
    /\ \A r \in Streams \cup Replies :
            at[r] \in {"new", "relaying", "showing", "streaming", "rating", "fallback",
                       "recording", "done"}
    /\ \A r \in Streams :
            /\ thread[r] \in {"none", "submitted", "running", "graph", "blank", "raised", "over",
                              "over_graph", "over_blank"}
            /\ (thread[r] \in {"running", "graph", "blank"}) = (holder = r)
            /\ Len(events[r]) <= MaxEvents + 2
            /\ text[r] \in Texts \cup {NoText}
            /\ saved[r] \in Texts \cup {NoText}
            /\ sent[r] \in Texts \cup {NoText, "error", "failed"}
            /\ shown[r] \subseteq {"provider", "chunks", "model"}
    /\ clears \in 0..MaxClears

Copies(r) ==
    Cardinality({i \in DOMAIN history : history[i].who = r /\ history[i].role = "user"})

\* "Exactly one user+assistant pair on the in-memory session history"
\* (api/routers/conversation.py, _append_stream_history): no streamed turn is in the history
\* twice.
OneHistoryPair == \A r \in Streams : Copies(r) <= 1

\* A streamed turn is recorded a second time only when the length of the history cannot tell
\* that it has been recorded: the history was full when the stream began, the session was
\* cleared under it, or an append of the loop overlapped one of a thread.
TwiceOnlyUnseen ==
    \A r \in Streams :
        Copies(r) > 1 => preLen[r] >= 2 * MaxHistory \/ r \in clearedBy \/ overlapped

\* The history stays a sequence of questions each followed by its answer, whatever is cut from
\* it, unless an append of the loop overlapped one of a thread.
TurnsStayWhole ==
    (~overlapped /\ \A w \in DOMAIN writing : writing[w].step = "rest") =>
        /\ Len(history) % 2 = 0
        /\ \A i \in 1..(Len(history) \div 2) :
                /\ history[2 * i - 1].role = "user"
                /\ history[2 * i].role = "assistant"
                /\ history[2 * i].who = history[2 * i - 1].who

\* The database, the client and the session agree on the answer of a streamed turn; only the
\* words that stand for an empty answer of the fallback are not what the session remembers.
RememberedAsSaved ==
    \A r \in Streams : saved[r] # NoText =>
        /\ sent[r] = saved[r]
        /\ \A i \in DOMAIN history :
                (history[i].who = r /\ history[i].role = "assistant") =>
                    \/ history[i].text = saved[r]
                    \/ history[i].text = "blank" /\ saved[r] = "apology"

\* A streamed turn is in the history once unless the code cannot see it, whole, and with the
\* text that was sent and saved (event_generator, _append_stream_history).
StreamSafety ==
    /\ StreamTypeOK
    /\ TwiceOnlyUnseen
    /\ TurnsStayWhole
    /\ RememberedAsSaved
=============================================================================
