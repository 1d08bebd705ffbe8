# bx-caller: specifications, model checking and proofs

bx-caller is a FastAPI application (`app/`) around the Bolna voice runtime
(`bolna/`), with a Next.js front end (`frontend/`). The application keeps agents,
contacts and campaigns in Redis and launches calls; the runtime holds one
conversation per call: it transcribes the caller, generates answers with an LLM,
synthesizes them and decides, word by word, which of the agent's audio the caller
may still hear. This directory specifies the parts of it whose correctness
depends on the order of events.

## 1. Inventory

| component | state | operations | modules |
|---|---|---|---|
| turn taking (`task_manager.py`, `interruption_manager.py`) | valid sequence ids, caller-speaking flag, grace period, `llm_task`, `eager_llm_task`, `response_in_pipeline`, staged replies | transcriber events, DTMF, silence watcher, LLM tasks, output loop, interruption | `TurnTaking` |
| end of call (`task_manager.py`, `voicemail_handler.py`) | `conversation_ended`, `_end_of_conversation_in_progress`, `hangup_triggered`, farewell | hang-up, completion watcher, voicemail, component errors, shutdown | `CallEnd`, `CallPhases` |
| playback and mark events (`mark_event_meta_data.py`, input and output handlers) | marks by id, cleared marks, heard text, playing flag; queues and generation of `sip_trunk.py` | send, echo, clear, synchronize the history, XOFF/XON, drain, finish | `Playback` |
| conversation history (`conversation_history.py`) | messages | append, merge, cut to what was heard | `TurnTaking`, `Playback` |
| transcribers (`transcriber/`) | connection, turn state, timers | connect, send, receive, time out, close | `Transcribers` |
| synthesizers (`synthesizer/`) | text queue, sender tasks, current meta information, contexts, connection | push, send, receive, interrupt, reconnect | `Synthesizers` |
| pools and language switching (`*_pool.py`, `switch_language`) | active labels, generator task, prompt | switch by tool or detector, close | `Languages` |
| language detection (`lid/`) | pending language, count, cooldown | signal | `Languages`, in part |
| LLM clients (`llms/`) | stream buffers, tool-call accumulators, response chain, websocket and lock | stream, tool calls, chain, cancel, fall back | `LlmStreams` |
| launch API (`app/main.py`, `launch.py`, `storage.py`) | Redis records of agents, contacts, campaigns, sessions, audit | CRUD, launch | `Campaigns` |
| conversation events, interruption statistics, agents, assistant manager | event queue, times, graph node | | none, see section 5 |
| portal authentication, telephony REST client, front end, quickstart servers | none of their own | | none, see section 5 |

Within a call every component is an asyncio task (Google's and Azure's SDKs add threads,
which hand over to the loop); they share the attributes of one `TaskManager` and are
interleaved at each `await`. The transcriber puts packets on a queue; the listener
takes them, starts or cancels LLM tasks; their text goes to the synthesizer, its audio
to the output loop, the output handler and the provider; the provider's mark echoes
come back through the input handler and say what was heard. An interruption goes the
other way, through all of them. What is hard to test:

* an utterance in the middle of the answer to the previous one, and the cleanup of the
  interruption, which suspends while the output loop and the mark echoes go on;
* speculative answers that are confirmed or withdrawn after they started to speak;
* the end of the call, which eight causes may start from tasks that the end itself, or an
  interruption of the farewell, cancels;
* results matched by position or by whatever state is current when they arrive: the audio
  of a text, the events of a websocket shared by successive requests, a late final
  transcript, the packet of a transcriber that is no longer active;
* two switches of language at once, each waiting for a task the other cancelled;
* in the API, a launch: a long sequence of Redis commands and provider calls with no
  transaction, beside edits and deletions.

## 2. Modules

Each component's module has its constants, variables, one action per operation and its
properties; theorems are in a module of their own (`...Proofs`). `MCTurnTaking` and
`MCCampaigns` add what only TLC needs (a symmetry, a history variable, claims that do not hold); the other
modules are checked as they are, their `.cfg` files give the constants.

### TurnTaking

A step is what one asyncio task does between two suspension points.

* *Handlers.* `"asr"` is `_listen_transcriber`, `"dtmf"` is
  `inject_digits_to_conversation`. Both end in `_handle_transcriber_output`
  (`TurnArrives`): the turn gets a sequence id, is dropped (during the welcome
  message, or as a duplicate), is answered at once, or first preempts what is under
  way. `pc[h]` is where a handler is suspended: `"clear"` before the output handler
  has cleared the marks, `"synth"` while the synthesizer handles the interruption;
  `CleanupFinish` is the rest, to the creation of the new LLM task.
* *InterruptionManager.* `sequence_ids` with `Registered`, `Invalidated`,
  `Revalidated`, `Retired`, and the gate `AudioSendStatus`. Time is abstract: `grace`
  says whether the delay after the caller's last word is still running.
* *LLM tasks.* `task[i]`, named by the first id of its turn, goes from generating over
  tool calls to the completion check; `at[i]` is the id it now speaks under
  (`LlmFollowup` takes a new one). `llm_task` and `eager_llm_task` are the references
  that TaskManager keeps.
* *Audio.* `synthQ`, `outQ` and the chunk the output loop holds (`out`). `OutputSend`
  commits the staged reply to the history, `OutputBlock` discards.
* *Marks.* in the order of their echoes; `MarkAck` is
  `process_mark_message` on the playing flag and the welcome state.
* `revoked` and `root` are history variables that only properties read; `MCTurnTaking` adds `heard`, `offered` and
  `confirmed`.

External, and taken as what the code relies on: the provider echoes the marks it was
sent in their order; the synthesizer returns the audio in the order of the texts.

### CallEnd

A step is again what one task does between two suspension points.

* *Parties* are the tasks that may end the call: the LLM task, the voicemail check, the
  completion watcher (`__check_for_completion`), the task that the farewell's mark creates
  (`agent_hangup_observer`), and the synthesizer's and transcriber's listeners, which
  end the call when their component fails. `"asr"` and `"dtmf"` are also the handlers
  whose cleanup interrupts the others.
* *`pc[t]`* is where a task is suspended: at its own work (`"on"`), in a cleanup, in
  `process_call_hangup` before it speaks the farewell (`"hangup"`), in
  `__process_end_of_conversation` before it sets `conversation_ended` (`"wait"`), in
  `stop_handler` (`"stop"`), in its last pause (`"rest"`), or it is no more (`"off"`).
* *The two guards.* `process_call_hangup` tests `hangup_triggered` and
  `conversation_ended`; `__process_end_of_conversation` tests the end in progress and
  `conversation_ended` (`Busy`). Every cause goes through one of them or both.
* *The farewell* has a text or not, is on its way until its mark comes back, and is
  waited for in a poll of `hangup_sent`, which the watcher sets when
  `hangup_mark_event_timeout` has passed (`ForceEnd`).
* *The line*: the provider's stream, the transcriber, and the `gather` of `run()`, which
  returns with the transcriber's listener and cancels what is left.

Time is abstract: a pause, a time limit or the bounded wait for the current message ends
at any moment. Left out are the recorded reason (`hangup_detail`), the farewell's entry in
the transcript, the time limit of the first message, the transfer of a call, speculative LLM tasks,
silence that is injected while the watcher waits, the second `stop_handler` of a web call, standby
transcribers, and which marks the wait looks at. Turns that start LLM tasks
are `TurnTaking`'s; here a turn is only what starts or cancels a task.

*Refinement.* `CallEnd` has `Phases == INSTANCE CallPhases WITH phase <- Phase`, where
`Phase` reads `run`, `conversation_ended` and the end in progress. `CallPhases!Closes`, its promise of
liveness, is checked under the same mapping (`EndCloses`, a part of `CallCloses`).

### Campaigns

A step is one Redis command, or one `place_outbound_call`. `req[r]` is a request:
idle, between the read and the write of an update (`"save"`, `"edit"`, with the
record it will write), or at a stage of `launch_campaign`
(`"agent"`, `"contact"`, `"dial"`, `"record"`, `"note"`, `"finish"`, `"audit"`) with
the campaign record it read and the place `k` of its loop. `Fail` ends a request
anywhere: a Redis error, an exception of the provider, the end of the process.
A payload may name any record that existed once. `memory://local` is the same with
larger steps, since its commands do not suspend. Compliance, provider name and
readiness are checks of settings and of the request only; they refuse before
anything is written.

### Playback

From the queue of synthesized chunks to the caller's ear and back. `loop` is where the output
loop is in `handle()` of its chunk: before the audio (`"pre"`), before the second mark
(`"media"`), in the SIP trunk's `"buffering"` or between its frames (`"sending"`). `marks` and
`cleared` are the two dictionaries of `MarkEventMetaData`, oldest first; `line` is what the
provider has not played, `echoes` what it has not yet reported. `Interrupt`, `ClearData`,
`Sync` and `Restart` are the four parts of `__cleanup_downstream_tasks` between its
suspensions, `Sync` with `sync_history`: the target turn and response by the marks, the
heard text, the cut of the history. `handler` is chosen in `Init`: web (marks echoed one
by one by the client), telephone (its provider echoes cleared marks at once), and the SIP trunk, whose
`trunk` record has the local queue, the flush generation, the drain tasks of `MEDIA_XON` and the pending
finish; its marks are settled by a timer (`Settle`). The provider (external) plays in order.

### Transcribers

One call with one of eleven clients. `Speak` and `Falls` are the caller; each `...Receiver` takes a
message of its provider (start of speech, partial and final texts, end of utterance, in whatever
forms it has) and does to `turn` what its receiver does; `Interim`, `Transcript`,
`EagerEnd`, `TurnResumed`, `Closed` are the packets, as `_listen_transcriber` takes
them. `...Timeout` are the monitors, `...Run` and `...Sender` connecting and the
sender tasks, `SessionEnds`, `ReceiverEnds`, `Finish` the ways out of `transcribe()`. A word is
a number: the texts are the sequences of the words said.
The listener's part is what it does to `heard`, `speaking` and `asked` on each packet. Its branches are decided by playing audio, the
reply in the pipeline and the number of words, which are `TurnTaking`'s, so each outcome is possible: a partial text may be ignored, or cancel the
speculative answer with its cleanup, and a transcript may be a false interruption (`Ignored`), whose confirmation leaves the answer `"stale"`.

### Synthesizers

`Push` is `push()` and the start of a sender task; `SenderStarts`, `SenderWakes` and
`SendFails` are the sender with its wait for the websocket, `...Reply` what the provider makes
of a text, `...Yields` what the receiver makes of a message, `YieldItem` the loop of
`_generate_ws_loop` with its `popleft`. `Connect`, `ConnectFails`, `Drop` and `Monitor` are the
connection; `...Records` and `...Failures` say which failures each provider records as
`connection_error`. `Take`, `Fetched`, `FetchFails` are the HTTP loops; `AzureCallback`,
`AzureChunk` and `AzureNext` the SDK's thread and its reader. `disturbed` is a
history variable: the kinds of upset so far, of which a behaviour has at most `MaxUpsets`.

### Languages

The two pools, `switch_language` and the detector's `Signal`. `BeginSwitch` runs to the
`await` of the cancelled generator, `EndSwitch` from there; both the LLM's tool and the
detector have a worker of their own. `Alive` is `is_active_transcriber_alive` by the
class of the transcriber: a websocket client, google, whose task outlives its stream, and azure,
which has none. `out` is the output queue with the sentinel that makes the listener come back.

### LlmStreams

One LLM task after the other makes requests of one client. The provider's responses are
`made`, with what they will still send; `OpenaiChat`, `AzureChat`, `LitellmChat`, `GeminiChat`, `ResponsesStream` and
`WebsocketStream` take an event as the clients' loops do, with the buffer that is cut at words,
the tool call accumulator, the tool call written as text, the message that bridges a call,
the final chunk. `Acquire`, `SendRequest`, `ReadEvent`, `Drain`, `Collect` are the websocket transport with its lock: a
cancelled generator holds it until it is closed, `cancel_response` reads the socket meanwhile.
`chain` and `pending` are `previous_response_id` and `_pending_call_ids`. A text is a sequence of pieces, each
named by its response.

## 3. Runs

| run | bounds | shows |
|---|---|---|
| `Turns` | 3 ids, one answer of 2 texts, barge-in, fairness | `AnswerIsValid`, `RepliesInOrder`, `WelcomeMarkOutstanding`; `PipelineDrains`, `Answered` |
| `Keypad` | 3 ids, two handlers, tool calls, empty LLM endings | `NoOrphan`, `OneChain`, `ChainStaysRevoked` with overlapping cleanups |
| `Speculation` | 3 ids, eager turns, silence watcher, no barge-in | `RevokedStaysRevoked` |
| `CallEnds` | every cause, farewell, interruptions, provider closes the stream | `OneCloser`, `FarewellSettled`, `ImplementsPhases` |
| `Closes` | three causes, farewell, interruptions, provider does nothing; fairness | `EndIsHeld`, `CallCloses` |
| `Playback` | three handlers, responses of 2 chunks and 1, 2 frames, one interruption, one drain, one XOFF | `HeardWasPlayed`, `HistoryInOrder`, `PlayingKnown`, `FlushedSilent` |
| `Transcription` | eleven clients, 3 segments, fairness | `WordsHeard`, `EagerSettled`, `UtteranceSettles` |
| `Synthesis` | nine kinds, 2 answers of 2 texts, 2 messages each, one lost connection, one kind of upset, fairness | `AudioOfItsAnswer`, `FinalIsLast`, `StreamSettles` |
| `LanguageSwitch` | 3 languages (one without voice), a voice without transcriber, 3 switches, 1 dead transcriber; fairness | `PoolsAgree`, `VoiceIsActive`, `DeathEndsCall`, `SwitchCompletes` |
| `Streams` | six clients, tools, 2 requests, 2 deltas (1 on the websocket), 1 lost connection; fairness | `OwnAnswer`, `ContinuesWhole`, `AnswerSaid`, `RequestEnds` |
| `Launches` | 2 requests, 2 launches, audiences up to 2, faults | `LaunchedHasSessions`, `OneUnrecordedCall`, `AuditCountsSessions`, `NoGhostCalls` |
| `FluxResumed` | 3 ids, eager turns | a violation of `HeardHasQuestion` |

`Playback`, `Transcription`, `Synthesis` and `Streams` also check their `TypeOK`. The longest runs, `Speculation` and `Turns`, take one to three
minutes with two workers, by the machine; the others less.

*Bounds.* `MaxSeq = 3` is an answer, the turn or follow-up that interrupts it, and the
answer after that one; the properties relate two answers, and a third id lets the
second be interrupted in turn. `MaxTexts` adds chunks before the last of an answer, in `MaxLong` answers:
one is enough to stage, send and commit in different orders. In `Launches` two places of
an audience are enough for the loop to break off between them, and two requests
with two launches for every pair of launch, edit and deletion to overlap; the audience may list
its one contact twice. `Launches` identifies the requests by symmetry; it checks no liveness.
`CallEnd` has no bound: there is one task of each kind, as the code keeps one reference
of each, and all else is flags. `Closes` leaves out the causes with which its properties
do not hold; each of these is in the list below. With the three that stay, the end is started
by the LLM task through the farewell, and by either listener in the midst of it.

In `Playback` one interruption meets two responses, of the same turn or of two, at every point of
sending, playing and echoing; two chunks of the first, the one that the next follows or replaces, are the least for a mark of a chunk to be apart from the end's, two
frames the least for XOFF, a drain and an interruption to come inside a chunk. In `Transcription` three segments allow a
forced end, its late final and a new utterance. In `Synthesis` two answers of two texts are what
matching by position can confuse; `MaxUpsets = 1` keeps the causes of a confusion apart, and each property names those
it does not withstand. (Cartesia was also checked with three answers.) In `LanguageSwitch` three switches give an overlap and one after it. In
`Streams` the second request meets what the first has left; the websocket's
responses have one delta since its connection multiplies the states.

*Conditions.* Several properties hold only as long as a history variable is clear: `ghost` of `Languages`
(switches overlapped, or one pool lacked the language) and of `LlmStreams` (a request was abandoned, cut off, or fell back
to HTTP), `disturbed` of `Synthesizers`, `late` and `skipped` of `Playback`. The actions that set them are part of
the runs; what goes wrong under them is in the list below. `valid`, `heard` and the like are compared
in all states, also those. So `PlayingKnown` does not speak of an echo that comes late, `AudioOfItsAnswer` of an interruption
only with cartesia, `StreamSettles` of a lost connection only when it is recorded as an error, `OwnAnswer` and `ContinuesWhole` of no call with an abandoned or
cut-off response, and `RequestEnds` excuses the request that waits for itself. `AnswerSaid` says nothing of the order of the texts,
`EagerSettled` nothing of an answer that a false interruption has left, and `LaunchedHasSessions` nothing of a launched campaign that an edit makes a draft again.

*Deadlock.* `CHECK_DEADLOCK FALSE` in every configuration but `Launches`: a
caller who stays silent stops everything and ids are bounded; a call that is over
stops. `Launches` checks deadlock.

*Fairness.* It is stated in each module as `LiveSpec`, and only of what the event loop,
a timer or an answering provider does; no caller must speak, hang up or use the keypad, and no LLM must stream another text.

* `TurnTaking`: weak fairness of the steps the event loop runs as soon as their
  task is ready (cleanup, LLM progress, synthesizer, output loop), of the provider's
  echoes, of the clock, and of the end of the caller's utterance. Sending is strongly
  fair: the output loop polls a held chunk every 50 ms
  (`__process_output_loop`), and a caller whose pauses recur is met in one of them.
* `CallEnd`: weak fairness of what the event loop runs when it is ready (the
  farewell, the shutdown of each task, the rest of a cleanup, the observer, the return of
  `run()`), of the time limit of a hang-up and of the watcher that acts on it, which
  polls in a loop. The listener takes `transcriber_connection_closed` under strong
  fairness: the queue in front of it is finite, but it may be in a cleanup meanwhile, again
  and again. Nothing is assumed of the provider, which need not return the farewell's mark
  nor send a stop event.
* `Transcribers`: connecting, the monitors' time limits, the way out of the receiver. The
  provider may be silent for ever.
* `Synthesizers`: sender tasks, the generator, the connection monitor, the provider's answer to a text, which the
  code waits for without a time limit.
* `Languages`: a cancelled generator ends, and who waits for it goes on.
* `LlmStreams`: the provider creates and ends responses, what it sends is read, abandoned generators are
  closed (asyncio's hook for asynchronous generators does it).

### Claims that do not hold

What a comment, log line, docstring or document says and the code contradicts, and what one would
expect and the code does not give. `FluxResumed` is a run; the rest is seen with the properties and constants named here, or
by dropping the condition on a history variable.

In `TurnTaking` and `MCTurnTaking`:

* `FluxResumed` (`HeardHasQuestion`): when the caller resumes, the speculative task is cancelled and its
  question removed, but its id stays valid and its queued audio is spoken. Without speculation the property
  fails as well: the question is taken back before the cleanup suspends.
* `ConfirmsOwn` with the constants of `FluxResumed` ("EndOfTurn follows EagerEndOfTurn", `:3770`): the end of a turn that counts as a false interruption leaves its speculative
  answer pending (`:3751`), so its audio may be playing already. If the next turn's eager end then starts none, as audio plays, that turn's
  transcript is answered by the old one and its words are in no message (`:3769`).
* `WelcomeMarkOutstanding` with `DiscardPreWelcome = FALSE` (the default): the first transcript during
  the welcome message clears the marks and with them the one that ends the welcome
  state; every later transcript is dropped (`task_manager.py:3394`; the hazard is named at `:929`).
* An LLM response with no text leaves `response_in_pipeline`
  set (`:4252`, `:4269`; `PipelineDrains` with `EmptyTail`). With `Flux`, `NoOrphan` fails (a finished speculative task clears
  `llm_task`, which names another task); with `Flux` and `Tools`,
  `AnswerIsValid` fails (the confirmed answer is revalidated under its first id only);
  with `RepeatAfterSilence`, `NoOrphan`, `OneChain` and the order of replies fail (the
  silence watcher starts a turn with no cleanup); with the keypad, or with `Flux`, the order of replies fails.
* With `Tools` and `MaxTexts > 0`, `RepliesInOrder` fails: the text before a call is committed with the first chunk that is
  sent and then staged again under the same id (`:3068`, `:2803`), so the reply enters the history twice; `append_assistant()` refuses only a copy of the
  last entry (`conversation_history.py:33`).

In `CallEnd`:

* `EndCloses` with `llm_error`, `end_call`, or `llm_hangup` without a farewell: the LLM task ends the call and cancels itself
  as the current `llm_task`, so it never gets to `stop_handler`; the transcriber stays on and `run()` does not return
  until the caller hangs up (`:2258`; `:3513` promises a graceful shutdown).
* `EndIsPursued` with `voicemail`, or `llm_hangup` without a farewell, and interruptions: the cleanup cancels the task that waits in
  `__process_end_of_conversation`, `_end_of_conversation_in_progress` stays set, and
  every later end returns at the guard (`:1840`; `:3216` says interruptions cannot cancel the hangup).
* `HangupCloses` with `inactivity` and a farewell: the watcher leaves its loop when it hangs up, so
  a lost mark is never given up (`:4424`); with `web_limit` and `llm_hangup` the watcher itself polls. The reason of a
  web call's limit is stored after the end (`:4364`), so `run()` may report none.

In `Campaigns` and `MCCampaigns`:

* `EveryCallHasSession`: a call was placed and the launch fails before its session record
  (`main.py:435`, against the launch design document). A contact that is deleted after its check is called.

In `Transcribers` (drop `ghost.forced` from `RepeatOnlyIfForced`, `watch` or `Armed` from `UtteranceSettles`):

* A forced end of an utterance followed by the late final delivers its words twice (nova, flux).
* The monitor never finds its clock in pixa (`pixa_transcriber.py:358`) and smallest (`:613`), and in nova until a partial text came; that of openai
  promises to force an end (`openai_transcriber.py:215`) and pushes nothing.
* gladia, smallest, elevenlabs, assemblyai and pixa do not record a failure to connect, which the listener reports
  (`task_manager.py:3548`); the receivers of sarvam, pixa and openai swallow a dropped connection; gladia, smallest,
  sarvam and assemblyai may push the closed packet twice. The listener knows nothing of Sarvam's `speech_ended`.

In `Languages` (`ghost`):

* Overlapping switches leave ear and voice in different languages, or two generators speaking; a language that only one pool has
  switches half (`task_manager.py:982`). A switch swallows its own cancellation (`synthesizer_pool.py:152`).
* The end of a standby transcriber ends a call whose active one is azure's, and google's may be dead unnoticed.

In `Synthesizers` (`disturbed`):

* An interruption does not clear `text_queue`: the next answer's first audio is dropped, or old audio is spoken under
  the new id; with three answers, a follow-up's audio goes out under the id of the answer before it. Senders that wait for the websocket wake in any order. After a failed send and a reconnection the error stays recorded.
* Providers that end every text send the final packet before the audio is over. `EndIsStamped`
  (`base_synthesizer.py:90`) fails for azure, whose chunk callbacks may run ahead of its completion. An HTTP response with no audio ends the call.

In `LlmStreams` (`ghost`):

* `OneInFlight` with the websocket alone and two requests (docstring at `openai_llm.py:42`): a cancelled request's response goes on while the next is sent, and its events are
  read as the next one's. What is cancelled is the last completed response, if there is one (`:682`).
* `previous_response_not_found` on the websocket repeats the request inside the stream that holds the lock, which is not reentrant:
  the request waits for itself (`:525`; `Deadlocked`).
* After a fall-back to HTTP what the abandoned response left on the websocket ends a later request, and a call
  nobody answered is continued (`ContinuesWhole` without its condition; the websocket with four requests).
* A websocket that closes normally truncates the answer and leaves the chain at a response that was not finished; the fall-back to HTTP repeats what was spoken.
* gemini stores the text before a call and does not speak it; gemini and litellm send no final chunk when the buffer is empty; text
  that is buffered before a call written as text enters the stored answer twice (`:361`; it is spoken once), and a call that
  cannot be rescued is spoken after the text that followed it (`:400`); of several calls the first is executed; the flushed buffer and
  the bridging message are each marked as the end of the stream.

In `Playback` (`late`, `skipped`):

* The playing flag is reset before the marks are cleared; an echo in between sets it again, against the comment at `task_manager.py:4259`. The
  loop goes on sending while the cleanup suspends, so stale audio follows the clear and the flag sticks. A mark sent after the clear counts as heard.
* The question whether the caller is there clears audio and forgets its marks: what they covered is missing from the text a later interruption
  keeps, although later chunks are in it.
* Marks of web and SIP trunk carry neither turn nor response, so an interruption never cuts the history there; two
  responses of one turn (a filler and an answer) can put the one's text into the other's message.
* A drain of the SIP trunk that outlives an interruption empties the new generation's queue and pending finish (`sip_trunk.py:231`). `InOrder`
  fails: a chunk that is sent while a drain works at the last one overtakes it, against the comment at `:355`.

These properties are claimed only where the runs check them.

## 4. Proofs

The proofs are in modules of their own, one per component, and hold for every value
of the constants that meets the assumptions the components state: in `TurnTaking`,
`MaxSeq` a positive natural, `MaxTexts` a natural, `"asr"` among the `Handlers` and
the switches Boolean; in `CallEnd`, causes that are among the eight and Boolean switches; in `Campaigns`, `MaxLaunches` and `MaxAudience` naturals and no
agent with the id of a contact; in `Languages`, a first language that both pools have; in `Playback`, handlers among the three and bounds that are naturals,
those of responses, chunks, frames and the queue positive; in `Transcribers`, `LlmStreams` and `Synthesizers`, providers among those each module names, at least one, and bounds that are naturals,
positive where nothing would happen with zero. The bounds remain as guards, but no proof uses how
large they are. Nothing is assumed of the number of requests, records, ids or texts.

`TurnTakingProofs`:

| theorem | statement | the inductive invariant and why it is needed |
|---|---|---|
| `TypeCorrect` | `Spec => []TypeOK` | `TypeInv` adds `Opening`: two entries that are not the caller's stay at the history's head and a speculative snapshot cuts behind them, so that taking the last entry, merging the caller's texts and reverting a speculation all work on a history long enough; and `Holding`: past the queue, the output loop holds a real chunk. |
| `RevokedNeverValid` | `Spec => []RevokedStaysRevoked` | The property says that no cancelled id is valid. It is kept only if what validates an id later never names a cancelled one: `HandedOut` (valid, cancelled and pending ids were all handed out, so a new id is fresh) and `PendingNotRevoked` (the id of a turn being set up and, while the listener is not in a cleanup, the id of the speculative answer are not cancelled). |
| `NoTaskOrphaned`, `OneTurnValid`, `ChainNeverRevived` | `Sequential` implies `Spec => []NoOrphan`, `[]OneChain`, `[]ChainStaysRevoked` | `BookInv`: a task's ids were handed out, a pending turn has no task yet, nobody speaks under its id, and no two handlers have the same, and a new id is the root of its own chain. `ChainInv` adds `RunningChain`: when no cleanup is under way, a running task speaks for the turn of the valid ids and for no turn that was cancelled. The three properties follow from one another across a cleanup and are proved together. |
| `WelcomeIsEnded` | `DiscardPreWelcome` implies `Spec => []WelcomeMarkOutstanding` | `WelcomeInv`: no cleanup begins before the welcome has been played. |
| `AnswerStaysValid` | `~(Flux /\ Tools)` implies `Spec => []AnswerIsValid` | `ToolInv`: without tools a task keeps its first id. `AnswerInv`: no two tasks speak under one id (`TasksDistinct`), every chunk is of an id handed out and of no pending turn (`ChunksKnown`), and a task that still generates has no last chunk on its way (`EndsSilent`), whose sending would retire its id. |
| `RepliesEnterOnce` | `~Tools` implies `Spec => []NoDuplicateReply` | `OnceInv`: only a task that generates no more has a reply staged (`StagedDone`) or in the history, and never both (`RepliesDone`). |
| `RepliesFollowTurns`, `HistoryKeepsOrder` | `OneHandler`, `Sequential` (and `~Tools` for the second) imply `Spec => []OrderedReplies`, `[]RepliesInOrder` | `OrderInv`: the history holds no question later than the turn of a valid id or of a running task. The second is the conjunction with `RepliesEnterOnce`. |

`Sequential` is neither `Flux` nor `RepeatAfterSilence`, `OneHandler` is a call without the keypad. The list
above shows each condition to be needed.

`CallEndProofs`:

| theorem | statement | the inductive invariant and why it is needed |
|---|---|---|
| `TypeCorrect` | `Spec => []TypeOK` | `TypeOK` is inductive. `PcStep` shows, action by action, that a step takes one task from a stage to another of its own and turns others only off; the later proofs cite it. |
| `AtMostOneCloser` | `Spec => []OneCloser` | `CloserInv`: a task past a guard has its flag set (`Flagged`), so no second one passes it; the flags are never reset. |
| `FarewellIsSettled` | `Spec => []FarewellSettled` | `CloserInv`, whose `Caused` keeps the farewell from being queued after the end: the guard of `process_call_hangup` reads `conversation_ended`, and the poll reads the flags again each time. |
| `CallKeepsPhases` | `Spec => ImplementsPhases` | From `CloserInv`: `conversation_ended` is set only by a task whose end is in progress, or with `run()`'s return. |
| `EndGoesOn`, `EndIsTornDown` | `EndersSurvive` implies `Spec => []EndIsPursued`, `Spec => []EndTearsDown` | `SurvivalInv`: the tasks that a cleanup cancels never end the call (`OnlySurvivors`), the farewell is spoken and observed once (`OnceHungUp`), and the end keeps its task until the transcriber has been stopped. |
| `WatcherOfPoll` | `WatcherStays` implies `Spec => []PollIsWatched` | `WatchInv`: the watcher leaves only by forcing the end or on seeing it (`Watched`), and no task waits after the end (`Over`). |
| `EndHoldsOn` | `EndersSurvive` and `WatcherStays` imply `Spec => []EndIsHeld` | The three before it: `EndIsHeld`, which the run `Closes` checks, is their conjunction. |

`EndersSurvive` excludes the causes `llm_error`, `end_call` and `voicemail`, and a hang-up by the LLM without a farewell;
`WatcherStays` excludes `inactivity` and `web_limit`. The claims above that do not hold show that
the conditions are not idle.

`CampaignsProofs`:

| theorem | statement | the inductive invariant and why it is needed |
|---|---|---|
| `TypeCorrect` | `Spec => []TypeOK` | `TypeOK` is inductive: a live launch's place is within its audience because every stage that advances it tests `IsLast` first. |
| `OneCallUnrecorded` | `Spec => []OneUnrecordedCall` | `LaunchInv`: launch numbers are not shared by live requests and not reused (`Numbered`), and each live launch has placed its calls exactly up to its place and recorded them up to there or one short (`Progress`, stage by stage). When a request fails, what it leaves is therefore at most the call in hand. |
| `AuditCounts` | `Spec => []AuditCountsSessions` | `AuditInv`: a launch with an audit record is over, so none of its sessions comes later; the count itself follows from `Progress` at the last place. |
| `LaunchedHasCalled` | `Spec => []LaunchedHasSessions` | `StatusInv`: an edit that will write back `launched` read it from a campaign that had sessions, and sessions are never deleted; a launch that is to store the status has recorded its whole audience, which is not empty. |
| `GhostsNotCalled` | `Spec => []NoGhostCalls` | `GhostInv`: the places a launch has checked hold no contact that has been missing since the request, because a contact counts as missing only until it is stored again, and what is missing is not stored. |

`LanguagesProofs`:

| theorem | statement | the inductive invariant and why it is needed |
|---|---|---|
| `TypeCorrect` | `Spec => []TypeOK` | `TypeInv` adds `Numbered`: every generator task is numbered by the switch that made it, so a new one takes no number in use; `Labelled`: a switch that waits carries a language both pools have. |
| `DeathIsTheEnd` | `Spec => DeathEndsCall` | The packet of a dead active transcriber stays in the queue until it is read, and the step that ends the call is examined for every kind of transcriber. |
| `PoolsStayAgreed` | `Spec => []PoolsAgree` | `Agreed` says what holds in the middle of a switch: voice and prompt are still the old ones, the ear and the one switch under way already name the new language. |
| `OneVoiceSpeaks` | `Spec => []VoiceIsActive` | `VoiceInv` adds that one switch at most is under way and that the task it waits for is the current one, cancelled or at its end (`Joined`), so that it starts the new one alone. |

`PlaybackProofs`:

| theorem | statement | the inductive invariant and why it is needed |
|---|---|---|
| `NothingFlushedIsSent` | `Spec => []FlushedSilent` | `FlushInv`: every frame on the line and every chunk of the local queue is of the trunk's generation now, the rest a drain has in hand is of the generation that drain began with, and the loop that sends has a frame to send (`GoodTrunk`, `GoodLine`, `TrunkLoop`). A chunk in the loop's or a drain's hands may be older; the step that puts it on the line or in the queue compares first. |
| `TypeCorrect` | `Spec => []TypeOK` | `TypeInv` adds the types of the wire off the trunk (`Wired`) and of what the loop has in hand (`Looping`). What a selection from a sequence contains, and that it keeps the order, is proved once for the recursive function `Those`, by induction with the least counterexample. |
| `NothingUnplayedIsHeard` | `Spec => []HeardWasPlayed` | `PlayedInv`: every mark after audio, on the line, on its way back or about to be sent, is of a chunk that has been played, cleared or is in front of it on the line. |
| `FlagFollowsAudio` | `Spec => []PlayingKnown` | `OrderInv`: what is queued, in hand, registered, on the line and on its way back was synthesized in one order, and nothing of a response follows its end. `Speaking`, before any interruption: a mark whose first one has come back is the first on the wire, and the flag is set. `Silence`, `TrunkSilence`: with the flag set something is still to come that resets it: the rest of a response, the mark that ends one and is registered, or a finish of the trunk that is pending and not stale; `More` says that a valid response is not queued without its end. |
| `HistoryStaysInOrder` | `Spec => []HistoryInOrder` | The text kept is what the input handler remembers of the response, else what the marks do, else a prefix of what was cleared; each must be ordered and without a gap. `HeardInv`: both memories rise, before all that is still on its way. `KeptInv`: of a response none of which was lost, everything before a chunk that is kept (heard, registered or cleared) is kept, and everything before one that is queued or in hand is kept or to come; `BeforeInv`: what was heard precedes what is registered. `LostInv`: a registered mark off the wire belongs to an interruption under way, and those left when the history is cut are `skipped`, so a gap in the cleared texts is a chunk that was heard. `ForgottenInv`: a question empties the first memory, and of a response it has forgotten nothing more is heard, since the question comes only while the agent is silent and `PreInv` has the flag set before each text is heard; `LoopInv`: an interrupted loop sends nothing more that would count. |

`TranscribersProofs`:

| theorem | statement | the inductive invariant and why it is needed |
|---|---|---|
| `TypeCorrect` | `Spec => []TypeOK` | `TypeInv` adds `CloseInv`: no closed packet before the receiver leaves the stream, and one at most before it is done; and `Said`: a caller who talks says a segment. |
| `WordsAreHeard` | `Spec => []WordsHeard` | The property says of what was heard that it is complete, ordered and repeated only if forced. `WordsInv` says the same of what is still to come: a final that openai owes (`OwedInv`), the text in hand that a monitor may force (`PendingFits`), both later than what was heard; `FinalInv` says per client when the text in hand has already been sent. |
| `EagerAnswersSettled` | `Spec => []EagerSettled` | `EagerInv` adds that only flux lets the listener start a speculative answer. No packet but the eager end makes one pending (`EagerNotStarted`); a confirmation consumes it or, ignored as a false interruption, leaves it stale. |

`LlmStreamsProofs`:

| theorem | statement | the inductive invariant and why it is needed |
|---|---|---|
| `TypeCorrect` | `Spec => []TypeOK` | `TypeInv`: whatever the chain, the requests, the pieces of text, the wire and the lock name has been made, and what is said, buffered or held back was received. |
| `AnswersAreOwn` | `Spec => []OwnAnswer` | `OwnInv`: while no request was abandoned, the provider has one response in hand at most, it and what is on the wire are of the request that reads, and an event that ends a response is the last one; `ModeInv` keeps requests of the websocket off HTTP until it falls back. |
| `ChainContinuesWhole` | `Spec => []ContinuesWhole` | `SettledInv`: what is or will be continued has been completed; `OneInv`: a request has one response; `CalledInv`: the calls of a response are read, on the wire, pending or answered, by the request's phase, so that the continued one has its results sent. |
| `AnswersAreSaid` | `Spec => []AnswerSaid` | `WireInv`: the text on the wire is new, distinct, and before its response's calls. `AnswerInv`: at every phase the pieces received are said, buffered or held back, each once, and the buffer is empty at the end. |

`SynthesizersProofs`:

| theorem | statement | the inductive invariant and why it is needed |
|---|---|---|
| `TypeCorrect` | `Spec => []TypeOK` | `TypeInv` says of every message and entry of `text_queue` what its fields can be. |
| `AudioSharesItsFate` | `Spec => []AudioOfItsAnswer` | Per kind of matching: `CalmInv`: unless upset, all that is in flight is of a valid answer; `LineInv`: it and `text_queue` are all of one answer, and there are no more entries than texts under way; `ContextInv`: the messages of a valid answer are in the current context, and the ignored contexts are not; `CutInv`: with cartesia, what an interruption left in `text_queue` is never newer than audio that may be heard. `ModeInv` and `KnownInv` support them. |
| `FinalPacketIsLast` | `Spec => []FinalIsLast` | `LastInv`: what is marked last is of an answer whose texts are complete; `EndInv`: the provider's end is its last message, with no sender left; `DirectInv`: one text at a time is fetched, and its last chunk comes last. `StreamEnds` and `DirectEnds` say of a final packet that nothing of its answer is in flight or queued. |

The steps of each proof follow the actions of `Next`. In `CampaignsProofs` most
actions are first shown to be of one of two kinds, steps that leave calls and launches
alone (`Quiet`) and steps that take one launch from a stage to another (`Moves`), and
the invariants are shown to survive each kind once.

Only model-checked: the properties of `TurnTaking` outside the conditions of their theorems, as in
`Keypad`, where two handlers meet. For these the runs of section 3 speak within their bounds. Liveness under
fairness (`PipelineDrains`, `Answered`, `CallCloses`, `UtteranceSettles`, `StreamSettles`, `SwitchCompletes`, `RequestEnds`)
is outside what the prover can show and stays with TLC.

## 5. Not modelled

`PROJECT.json` says per component what is left out. What these modules leave aside on purpose:

* *Conversation events*: the graph agent's event queue. The turn it starts overwrites `llm_task` as the silence
  watcher's does in `TurnTaking`; the wait for an idle pipeline before it gives up after 30 s.
* *Interruption statistics*: times that are reported and that no decision reads.
* *Agents*: routing asks an LLM; the state, a node name, is used by the one LLM task.
* *Assistant manager*: one task manager after the other.
* *Portal authentication, telephony REST client, front end, quickstart servers*: stateless, or examples.
* *Within the modelled components*: time and rates; the estimate of what was heard by duration when marks carry no text;
  the repair of tool messages in the history; the transfer of a call and the recorded reason of its end; the collection of DTMF digits before they
  become a turn; the confidence filter and connections of language detection, whose signals come one at a time as Sarvam's receiver gives them
  (Azure's callbacks could overlap after the cooldown); caching of audio; one-shot LLM calls; the provider's connection in `Playback`, which lasts.
* *Suspensions inside a send or a cleanup*: a synthesizer sends a text and its end marker in one step; `handle_interruption` of the
  synthesizer and the invalidation of the ids are one step of `CleanupFinish`, although a websocket under back-pressure may suspend between them
  (`task_manager.py:1820`). Sarvam's error message while its websocket stays up.
* *Composition*: the modules meet at the packets and references named in section 2; no module composes the whole call, whose
  state space is the product of five.
