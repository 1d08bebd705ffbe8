----------------------------- MODULE LlmStreams -----------------------------
(* The LLM clients of src/bolna/llms: how the stream of a response becomes the *)
(* chunks an LLM task speaks, and, for the Responses API, how requests are     *)
(* chained by previous_response_id over HTTP or over one persistent websocket  *)
(* that has one request after the other, under a lock. The task that consumes  *)
(* the stream may be cancelled at any point of it.                             *)
EXTENDS Naturals, Sequences, FiniteSets, SequencesExt

CONSTANTS Clients,      \* classes of client, one of which the call has
          Tools,        \* the agent has API tools
          MaxRequests,  \* bound: requests of the LLM tasks
          MaxPieces,    \* bound: deltas of one response over HTTP
          MaxFrames,    \* bound: deltas of one response of the websocket's client
          MaxDrops      \* bound: connections lost

AllClients == {"openai", "azure", "litellm", "gemini", "responses", "websocket"}
ASSUME ClientsAssumption == Clients \subseteq AllClients /\ Clients # {}
ASSUME ToolsAssumption == Tools \in BOOLEAN
ASSUME BoundsAssumption == MaxRequests \in Nat /\ MaxDrops \in Nat
                            /\ MaxPieces \in Nat /\ MaxFrames \in Nat

VARIABLES
  client,    \* class of the call's client
  req,       \* the request: its number, phase, transport, previous response, response
  made,      \* the responses the provider has been asked for, oldest first
  chain,     \* previous_response_id, 0: None
  pending,   \* _pending_call_ids, each named by the response that made the call
  results,   \* calls whose output is in the history
  said,      \* pieces of text yielded in this request, and the pre-call message
  buffer,    \* pieces received and not yielded
  tool,      \* text_tool_buffer and captured_tool_text
  calls,     \* function calls received
  ends,      \* chunks yielded that are marked as the end of the stream
  got,       \* ghost: pieces received in this request
  lock,      \* request that holds the websocket's lock, 0: free
  conn,      \* the websocket: open, or how it was closed
  known,     \* responses the provider remembers on this connection
  jobs,      \* responses it is making on it
  wire,      \* events it has sent that nobody has read
  draining,  \* a cancel_response() reads the websocket
  drops,     \* connections lost so far
  ghost      \* what disturbed the requests so far

chainVars == <<chain, pending>>
outVars == <<said, buffer, tool, calls, ends, got>>
wsVars == <<conn, known, jobs, wire, drops>>
vars == <<client, req, made, chainVars, results, outVars, lock, wsVars, draining, ghost>>

Chat == client \in {"openai", "azure", "litellm", "gemini"}
NoTool == [open |-> <<>>, captured |-> <<>>]
Deltas == IF client = "websocket" THEN MaxFrames ELSE MaxPieces
Pre == <<0, 0>>   \* the message that bridges a call

Init ==
  /\ client \in Clients
  /\ req = [n |-> 0, phase |-> "idle", via |-> "http", based |-> 0, on |-> 0]
  /\ made = <<>> /\ chain = 0 /\ pending = {} /\ results = {}
  /\ said = <<>> /\ buffer = <<>> /\ tool = NoTool /\ calls = {} /\ ends = 0 /\ got = <<>>
  /\ lock = 0 /\ conn = "none" /\ known = {} /\ jobs = <<>> /\ wire = <<>>
  /\ draining = FALSE /\ drops = 0 /\ ghost = {}

-----------------------------------------------------------------------------
(* The provider. A response is created, brings text, perhaps one call, and     *)
(* comes to an end; chat completions have no created event and no bad end. A   *)
(* model that writes its call as text does so once.                            *)
NewResponse == [for |-> req.n, state |-> IF Chat THEN "open" ELSE "new", n |-> 0,
                called |-> FALSE, opened |-> FALSE]

Event(kind, r) == [kind |-> kind, from |-> r, piece |-> <<r, made[r].n + 1>>]
Terminal(e) == e.kind \in {"completed", "incomplete", "failed", "stale"}

Events(r) ==
  LET m == made[r] IN
  IF m.state = "new" THEN {"created"}
  ELSE IF m.state # "open" THEN {}
  ELSE {"completed"}
       \union (IF Chat THEN {} ELSE {"incomplete", "failed"})
       \union (IF m.n < Deltas /\ ~m.called THEN {"text"} ELSE {})
       \union (IF m.n < Deltas /\ ~m.called /\ Tools THEN {"call"} ELSE {})
       \union (IF m.n < Deltas /\ ~m.opened /\ Tools /\ client \in {"openai", "azure"}
               THEN {"open"} ELSE {})

Brought(m, kind) ==
  [m EXCEPT !.n = IF kind \in {"text", "open", "call"} THEN @ + 1 ELSE @,
            !.called = @ \/ kind = "call",
            !.opened = @ \/ kind = "open",
            !.state = IF kind = "created" THEN "open"
                      ELSE IF kind \in {"completed", "incomplete", "failed"} THEN kind
                      ELSE @]
AfterEvent(r, kind) ==
  made' = [made EXCEPT ![r] = Brought(@, kind)]

-----------------------------------------------------------------------------
(* The chain of responses. *)

Reset == chain' = 0 /\ pending' = {}

(* invalidate_response_chain() of the websocket client: it also asks the       *)
(* provider to cancel the response, in a task of its own that reads the        *)
(* websocket until some response has ended.                                    *)
Invalidate ==
  /\ Reset
  /\ \/ client = "websocket" /\ chain # 0 /\ conn = "open" /\ draining' = TRUE
     \/ ~(client = "websocket" /\ chain # 0 /\ conn = "open") /\ UNCHANGED draining

(* _build_responses_input(): the request continues the chain unless a call of  *)
(* it has no output in the history.                                            *)
AnyAnswered == FALSE   \* mutant
Unanswered == ~(pending \subseteq results)

Based == IF chain # 0 /\ ~Unanswered THEN chain ELSE 0

(* The variables of a generator. *)
AfreshButBuffer ==   \* mutant
  said' = <<>> /\ UNCHANGED buffer /\ tool' = NoTool /\ calls' = {} /\ ends' = 0 /\ got' = <<>>

Afresh ==
  said' = <<>> /\ buffer' = <<>> /\ tool' = NoTool /\ calls' = {} /\ ends' = 0 /\ got' = <<>>

Ask ==
  /\ req.phase \in {"idle", "done", "called"} /\ req.n < MaxRequests
  /\ req' = [n |-> req.n + 1, phase |-> IF client = "websocket" THEN "lock" ELSE "create",
             via |-> IF client = "websocket" THEN "ws" ELSE "http", based |-> Based, on |-> 0]
  /\ chain' = Based
  /\ Afresh
  /\ UNCHANGED <<client, made, pending, results, lock, wsVars, draining, ghost>>

-----------------------------------------------------------------------------
(* Chunks. *)

Goes(phase) == req' = [req EXCEPT !.phase = phase]

(* A delta of text: it is yielded when the buffer is full, without its last    *)
(* word if it has others.                                                      *)
BeginsWithAll(e) == Append(buffer, e.piece)   \* mutant
BeginsWith(e) == <<e.piece>>

TakeText(e) ==
  /\ got' = Append(got, e.piece)
  /\ \/ buffer' = Append(buffer, e.piece) /\ said' = said
     \/ buffer' = <<>> /\ said' = Append(said \o buffer, e.piece)
     \/ buffer # <<>> /\ buffer' = BeginsWith(e) /\ said' = said \o buffer
  /\ UNCHANGED <<req, tool, calls, ends, results, chainVars, draining>>

(* The first delta of a call: the buffer is yielded, then a message to bridge  *)
(* the call, if no text came before; each is marked as an end of the stream.   *)
Mark(text) == IF text = <<>> THEN 0 ELSE 1
Flushed == said \o buffer

TakeCall(e) ==
  /\ calls' = calls \union {e.from}
  /\ buffer' = <<>>
  /\ \/ said' = Flushed /\ ends' = ends + Mark(buffer)
     \/ got = <<>> /\ calls = {} /\ said' = Append(Flushed, Pre)
          /\ ends' = ends + Mark(buffer) + 1
  /\ UNCHANGED <<req, tool, got, results, chainVars, draining>>

(* The last chunk, marked as the end of the stream. *)
FinalChunk ==
  /\ said' = said \o buffer /\ buffer' = <<>>
  /\ ends' = ends + 1
  /\ Goes("done")
  /\ UNCHANGED <<results, calls, got>>

(* A call is handed to the task, which runs it and asks no more of the stream; *)
(* its output is in the history unless the task was cancelled meanwhile.       *)
HandCall(c) ==
  /\ Goes("called")
  /\ results' \in {results, results \union c}
  /\ UNCHANGED <<said, buffer, ends, calls, got>>

(* A tool the agent does not have is not called. *)
Settle == FinalChunk \/ (calls # {} /\ HandCall(calls))

-----------------------------------------------------------------------------
(* Chat completions. *)

(* "functions.name" in the text begins a call the model wrote as text: it is   *)
(* kept apart until its brackets are closed. What came before it is yielded.   *)
TakeOpening(e) ==
  /\ got' = Append(got, e.piece)
  /\ said' = said \o buffer /\ buffer' = <<>>
  /\ tool' \in {[tool EXCEPT !.captured = <<e.piece>>], [tool EXCEPT !.open = <<e.piece>>]}
  /\ UNCHANGED <<req, calls, ends, results, chainVars, draining>>

TakeToolText(e) ==
  /\ got' = Append(got, e.piece)
  /\ tool' \in {[tool EXCEPT !.open = Append(@, e.piece)],
                [open |-> <<>>, captured |-> Append(tool.open, e.piece)]}
  /\ UNCHANGED <<req, said, buffer, calls, ends, results, chainVars, draining>>

(* _try_rescue_text_tool_call(): the text is run as a call if it can be parsed *)
(* and names a tool, and spoken otherwise; a real call makes it void.          *)
Captured == tool.captured \o tool.open

Rescue ==
  \/ HandCall({})
  \/ /\ said' = said \o buffer \o Captured /\ buffer' = <<>>
     /\ ends' = ends + 1
     /\ Goes("done")
     /\ UNCHANGED <<results, calls, got>>

OpenaiChat(e) ==
  \/ e.kind = "call" /\ TakeCall(e)
  \/ e.kind = "open" /\ TakeOpening(e)
  \/ e.kind = "text" /\ tool.open = <<>> /\ TakeText(e)
  \/ e.kind = "text" /\ tool.open # <<>> /\ TakeToolText(e)

OpenaiChatEnds ==
  /\ IF Captured # <<>> /\ calls = {} THEN Rescue ELSE Settle
  /\ UNCHANGED <<tool, chainVars, draining>>

AzureChat(e) == OpenaiChat(e)
AzureChatEnds == OpenaiChatEnds

LitellmChat(e) ==
  \/ e.kind = "call" /\ TakeCall(e)
  \/ e.kind = "text" /\ TakeText(e)

(* No final chunk without text. *)
FinalText ==
  IF buffer # <<>> THEN FinalChunk
  ELSE Goes("done") /\ UNCHANGED <<said, buffer, ends, results, calls, got>>

LitellmChatEnds ==
  /\ FinalText \/ (calls # {} /\ HandCall(calls))
  /\ UNCHANGED <<tool, chainVars, draining>>

(* Gemini: a call is handed over at once and the buffer is left behind; one    *)
(* that lacks an argument is passed over, the bridging message is not.         *)
GeminiChat(e) ==
  \/ e.kind = "text" /\ TakeText(e)
  \/ /\ e.kind = "call"
     /\ calls' = calls \union {e.from}
     /\ said' = Append(said, Pre) /\ ends' = ends + 1
     /\ \/ Goes("called") /\ results' \in {results, results \union calls'}
        \/ UNCHANGED <<req, results>>
     /\ UNCHANGED <<buffer, tool, got, chainVars, draining>>

GeminiChatEnds == FinalText /\ UNCHANGED <<tool, chainVars, draining>>

-----------------------------------------------------------------------------
(* The Responses API. *)

Fails == Goes("failed") /\ Afresh /\ UNCHANGED results

TakesId(e) ==
  /\ chain' = e.from
  /\ UNCHANGED <<req, outVars, results, pending, draining>>

Completes(e) ==
  /\ chain' = e.from /\ pending' = calls
  /\ Settle
  /\ UNCHANGED <<tool, draining>>

IncompleteKept ==   \* mutant
  Settle /\ UNCHANGED <<tool, chainVars, draining>>

Incomplete == Invalidate /\ Settle /\ UNCHANGED tool

ResponsesStream(e) ==
  \/ e.kind = "created" /\ TakesId(e)
  \/ e.kind = "text" /\ TakeText(e)
  \/ e.kind = "call" /\ TakeCall(e)
  \/ e.kind = "completed" /\ Completes(e)
  \/ e.kind = "incomplete" /\ Incomplete
  \/ e.kind = "failed" /\ Invalidate /\ Fails

(* The provider does not know previous_response_id: the request is made again  *)
(* within the stream of the first, whose lock is still held.                   *)
Stale ==
  /\ chain' = 0
  /\ IF chain # 0
     THEN req' = [req EXCEPT !.phase = "lock", !.based = 0]
     ELSE Goes("failed")
  /\ buffer' = <<>> /\ tool' = NoTool /\ calls' = {}
  /\ UNCHANGED <<said, ends, got, results, pending, draining>>

WebsocketStream(e) ==
  \/ e.kind = "created" /\ TakesId(e)
  \/ e.kind = "text" /\ TakeText(e)
  \/ e.kind = "call" /\ TakeCall(e)
  \/ e.kind = "completed" /\ Completes(e)
  \/ e.kind = "incomplete" /\ Incomplete
  \/ e.kind = "failed" /\ Invalidate /\ Fails
  \/ e.kind = "stale" /\ Stale

(* Any other exception: the request is made again over HTTP. *)
FallsBack ==
  /\ Invalidate
  /\ req' = [req EXCEPT !.phase = "create", !.via = "http", !.based = 0]
  /\ ghost' = ghost \union {"fallback"}
  /\ buffer' = <<>> /\ tool' = NoTool /\ calls' = {}
  /\ UNCHANGED <<said, ends, got, results>>

-----------------------------------------------------------------------------
(* HTTP requests. *)

Create ==
  /\ req.phase = "create"
  /\ made' = Append(made, NewResponse)
  /\ req' = [req EXCEPT !.phase = "stream", !.on = Len(made) + 1]
  /\ UNCHANGED <<client, chainVars, results, outVars, lock, wsVars, draining, ghost>>

(* A bad request that continued a chain is made once more without it. *)
Refused ==
  /\ req.phase = "create" /\ ~Chat /\ req.based # 0 /\ chain # 0
  /\ chain' = 0 /\ req' = [req EXCEPT !.based = 0]
  /\ UNCHANGED <<client, made, pending, results, outVars, lock, wsVars, draining, ghost>>

(* Any other error ends the request, and the call. LiteLLM takes a refusal by  *)
(* the content policy for an empty answer.                                     *)
CreateFails ==
  /\ req.phase = "create"
  /\ \/ Goes("failed")
     \/ client = "litellm" /\ Goes("done")
  /\ UNCHANGED <<client, made, chainVars, results, outVars, lock, wsVars, draining, ghost>>

Receive ==
  /\ req.phase = "stream" /\ req.via = "http"
  /\ \E kind \in Events(req.on) :
       /\ AfterEvent(req.on, kind)
       /\ LET e == Event(kind, req.on) IN
          \/ ~Chat /\ ResponsesStream(e)
          \/ client = "openai" /\ OpenaiChat(e)
          \/ client = "azure" /\ AzureChat(e)
          \/ client = "litellm" /\ LitellmChat(e)
          \/ client = "gemini" /\ GeminiChat(e)
          \/ client = "openai" /\ kind = "completed" /\ OpenaiChatEnds
          \/ client = "azure" /\ kind = "completed" /\ AzureChatEnds
          \/ client = "litellm" /\ kind = "completed" /\ LitellmChatEnds
          \/ client = "gemini" /\ kind = "completed" /\ GeminiChatEnds
  /\ UNCHANGED <<client, lock, wsVars, ghost>>

-----------------------------------------------------------------------------
(* The websocket. *)

(* stream_response(), up to the request it sends: ensure_connected() opens a   *)
(* connection that is not open, on which no earlier response is known.         *)
Connects == conn # "open"

AcquireNothing == UNCHANGED lock   \* mutant
Acquire == lock = 0 /\ lock' = req.n

SendRequest ==
  /\ req.phase = "lock" /\ Acquire
  /\ conn' = "open"
  /\ known' = IF Connects THEN {} ELSE known
  /\ LET sent == IF Connects THEN <<>> ELSE wire
         r == Len(made) + 1
     IN IF req.based \in known' \union {0}
        THEN /\ made' = Append(made, NewResponse)
             /\ jobs' = Append(jobs, r) /\ wire' = sent
             /\ req' = [req EXCEPT !.phase = "stream", !.on = r]
        ELSE /\ wire' = Append(sent, [kind |-> "stale", from |-> 0, piece |-> <<0, 0>>])
             /\ UNCHANGED <<made, jobs>>
             /\ Goes("stream")
  /\ UNCHANGED <<client, chainVars, results, outVars, draining, drops, ghost>>

ConnectFails ==
  /\ req.phase = "lock" /\ lock = 0 /\ Connects /\ drops < MaxDrops
  /\ drops' = drops + 1
  /\ FallsBack
  /\ UNCHANGED <<client, made, lock, conn, known, jobs, wire>>

(* The provider works at one response after the other. *)
Work ==
  /\ conn = "open" /\ jobs # <<>>
  /\ \E kind \in Events(Head(jobs)) :
       LET e == Event(kind, Head(jobs)) IN
       /\ AfterEvent(Head(jobs), kind)
       /\ wire' = Append(wire, e)
       /\ jobs' = IF Terminal(e) THEN Tail(jobs) ELSE jobs
       /\ known' = IF kind = "completed" THEN known \union {e.from} ELSE known
  /\ UNCHANGED <<client, req, chainVars, results, outVars, lock, conn, draining, drops, ghost>>

(* A connection is lost, by a close frame of the provider or without one. *)
Drop ==
  /\ conn = "open" /\ drops < MaxDrops
  /\ conn' \in {"closed", "broken"} /\ drops' = drops + 1 /\ jobs' = <<>>
  /\ UNCHANGED <<client, req, made, chainVars, results, outVars, lock, known, wire, draining, ghost>>

Reading == req.phase = "stream" /\ req.via = "ws"

ReadEvent ==
  /\ Reading /\ wire # <<>>
  /\ wire' = Tail(wire)
  /\ WebsocketStream(Head(wire))
  /\ UNCHANGED <<client, made, lock, conn, known, jobs, drops, ghost>>

(* The loop over the events of a closed connection just ends; a broken one, or *)
(* another task that waits for its next event, raises.                         *)
ReadEnd ==
  /\ Reading /\ wire = <<>> /\ conn = "closed"
  /\ ghost' = ghost \union {"cut"}
  /\ Settle
  /\ UNCHANGED <<client, made, chainVars, tool, lock, wsVars, draining>>

ReadRaises ==
  /\ Reading
  /\ (wire = <<>> /\ conn = "broken") \/ draining
  /\ FallsBack
  /\ UNCHANGED <<client, made, lock, wsVars>>

(* cancel_response() reads on until a response has ended; it gives up if it     *)
(* finds another task waiting for the next event.                              *)
Drain ==
  /\ draining
  /\ \/ /\ ~Reading /\ wire # <<>> /\ wire' = Tail(wire)
        /\ draining' = ~Terminal(Head(wire))
     \/ wire = <<>> /\ conn # "open" /\ draining' = FALSE /\ UNCHANGED wire
     \/ Reading /\ draining' = FALSE /\ UNCHANGED wire
  /\ UNCHANGED <<client, req, made, chainVars, results, outVars, lock, conn, known, jobs, drops,
                 ghost>>

(* The generator of a request that has ended or was abandoned is collected,    *)
(* and with it the lock.                                                       *)
HeldForGood == lock # 0   \* mutant
HoldsLock == lock = req.n /\ req.via = "ws" /\ req.phase \in {"lock", "stream"}

Collect ==
  /\ lock # 0 /\ ~HoldsLock
  /\ lock' = 0
  /\ UNCHANGED <<client, req, made, chainVars, results, outVars, wsVars, draining, ghost>>

-----------------------------------------------------------------------------
(* The caller interrupts: the LLM task is cancelled, and the chain is given up *)
(* if the history is changed or the answer was still to be heard.              *)
Interrupt ==
  /\ req.phase \in {"lock", "create", "stream"}
  /\ Goes("idle")
  /\ ghost' = ghost \union {"interrupted"}
  /\ Invalidate \/ UNCHANGED <<chainVars, draining>>
  /\ Afresh
  /\ UNCHANGED <<client, made, results, lock, wsVars>>

ChangeHistory ==
  /\ req.phase \in {"idle", "done", "called"} /\ chain # 0
  /\ Invalidate
  /\ UNCHANGED <<client, req, made, results, outVars, lock, wsVars, ghost>>

Next ==
  \/ Ask \/ Create \/ Refused \/ CreateFails \/ Receive
  \/ SendRequest \/ ConnectFails \/ Work \/ Drop \/ ReadEvent \/ ReadEnd \/ ReadRaises
  \/ Drain \/ Collect \/ Interrupt \/ ChangeHistory

Spec == Init /\ [][Next]_vars

(* The provider answers, what it sends is read, generators are collected. *)
LiveSpec ==
  /\ Spec
  /\ WF_vars(Create) /\ WF_vars(Receive) /\ WF_vars(SendRequest) /\ WF_vars(Work)
  /\ WF_vars(ReadEvent) /\ WF_vars(ReadEnd) /\ WF_vars(ReadRaises) /\ WF_vars(Drain)
  /\ WF_vars(Collect)

-----------------------------------------------------------------------------
Pieces == {<<r, n>> : r \in 1..Len(made), n \in 1..(Deltas + 1)}

(* Every variable has its type, a chain leads to a response that was made, and *)
(* what reads the websocket has its lock.                                      *)
TypeOK ==
  /\ client \in AllClients
  /\ req.n \in 0..MaxRequests /\ req.based \in 0..Len(made) /\ req.on \in 0..Len(made)
  /\ req.phase \in {"idle", "lock", "create", "stream", "done", "called", "failed"}
  /\ \A r \in DOMAIN made : /\ made[r].for \in 1..MaxRequests /\ made[r].n \in 0..Deltas
                            /\ made[r].state \in {"new", "open", "completed", "incomplete",
                                                  "failed"}
  /\ chain \in 0..Len(made) /\ pending \subseteq 1..Len(made) /\ results \subseteq 1..Len(made)
  /\ Range(said) \subseteq Pieces \union {Pre} /\ Range(buffer \o Captured) \subseteq Pieces
  /\ lock \in 0..MaxRequests /\ (Reading => lock = req.n) /\ draining \in BOOLEAN
  /\ conn \in {"none", "open", "closed", "broken"}
  /\ known \subseteq 1..Len(made) /\ Range(jobs) \subseteq 1..Len(made)

(* As long as no request was abandoned in the middle of a response, by the task *)
(* or for HTTP, what a request says is of a response made for it: nothing an   *)
(* earlier one left behind is taken for its answer.                            *)
OwnAnswer ==
  ghost \subseteq {"cut"} =>
    \A p \in (Range(said) \ {Pre}) \union Range(buffer) : made[p[1]].for = req.n

(* A request continues a response that is complete, unless one was interrupted *)
(* or cut off by the end of the connection.                                    *)
Sent == req.phase \in {"lock", "create", "stream"}
ChainSettled ==
  Sent /\ req.based # 0 /\ ghost \subseteq {"fallback"} => made[req.based].state = "completed"

(* A request that continues a response with a call brings the call's output,   *)
(* as long as nothing was disturbed: after a request was made again over HTTP, *)
(* what it had left on the websocket may end a later one, and is continued.    *)
CallsAnswered ==
  Sent /\ req.based # 0 /\ ghost = {} /\ made[req.based].called => req.based \in results

(* A request continues what is complete, its calls answered. *)
ContinuesWhole == ChainSettled /\ CallsAnswered

(* Nothing is spoken twice, the bridging message included, unless the request  *)
(* was made again over HTTP after it had begun to speak.                       *)
SaidOnce == "fallback" \notin ghost => \A i, j \in DOMAIN said : said[i] = said[j] => i = j

(* When a stream has ended with an answer, all the text it brought was spoken; *)
(* when it has ended with a call, all the text before the call, unless the     *)
(* stream also brought what an abandoned request had left on the websocket.    *)
Spoken == Range(said) \ {Pre}
OwnStream == /\ \A p \in Range(got) : made[p[1]].for = req.n
             /\ \A c \in calls : made[c].for = req.n
WholeAnswer ==
  /\ req.phase = "done" /\ calls = {} /\ "fallback" \notin ghost => Spoken = Range(got)
  /\ req.phase = "called" /\ calls # {} /\ client # "gemini" /\ Captured = <<>> /\ OwnStream
       /\ "fallback" \notin ghost => Spoken = Range(got)

(* Only the last chunk of an answer is marked as the end of the stream, in the *)
(* clients that mark it whatever is left to say, as long as it has no call.    *)
EndMarked ==
  /\ req.phase = "stream" /\ "fallback" \notin ghost /\ calls = {} => ends = 0
  /\ req.phase = "done" /\ "fallback" \notin ghost /\ calls = {} /\ client \notin {"litellm", "gemini"}
       => ends = 1

(* What the stream brings is spoken: once, to its end, and the end is marked.  *)
AnswerSaid == SaidOnce /\ WholeAnswer /\ EndMarked

(* The API has one response in flight at a time on a connection. *)
OneInFlight == Len(jobs) <= 1

(* A request comes to an end, unless the provider has forgotten the response   *)
(* it continues: it then waits for the lock it holds itself.                   *)
Deadlocked == req.phase = "lock" /\ lock = req.n
RequestEnds == Sent ~> (~Sent \/ Deadlocked)

=============================================================================
