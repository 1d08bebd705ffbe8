------------------------- MODULE LlmStreamsProofs -------------------------
(* Theorems about LlmStreams, for any clients, with and without tools, and any *)
(* number of requests, deltas and lost connections.                            *)
EXTENDS LlmStreams, TLAPS

-----------------------------------------------------------------------------
(* Types. *)
Phases == {"idle", "lock", "create", "stream", "done", "called", "failed"}
States == {"new", "open", "completed", "incomplete", "failed"}
Kinds == {"created", "text", "open", "call", "completed", "incomplete", "failed", "stale"}
PieceType == Nat \X Nat
ReqType == [n : 0..MaxRequests, phase : Phases, via : {"http", "ws"}, based : Nat, on : Nat]
ResponseType == [for : 1..MaxRequests, state : States, n : Nat, called : BOOLEAN,
                 opened : BOOLEAN]
ToolType == [open : Seq(PieceType), captured : Seq(PieceType)]
EventType == [kind : Kinds, from : Nat, piece : PieceType]

Made == 1..Len(made)
MadeInv == made \in Seq(ResponseType) /\ \A r \in Made : made[r].n <= Deltas

(* The transport goes with the phase; what is named is a response that was made. *)
ReqInv ==
  /\ client \in AllClients /\ req \in ReqType
  /\ req.based \in Made \union {0} /\ req.on \in Made \union {0}
  /\ req.phase \in {"lock", "create", "stream"} => req.n # 0
  /\ req.phase = "lock" => req.via = "ws"
  /\ req.phase = "create" => req.via = "http"
  /\ req.phase = "stream" /\ req.via = "http" => req.on # 0
  /\ client # "websocket" => req.via = "http"

ChainInv == /\ chain \in Made \union {0} /\ pending \subseteq Made /\ results \subseteq Made
            /\ draining \in BOOLEAN

(* A piece is one its response has brought; what is said was received. *)
Counted(p) == p[1] \in Made /\ p[2] \in 1..made[p[1]].n
OutInv ==
  /\ said \in Seq(PieceType) /\ buffer \in Seq(PieceType) /\ got \in Seq(PieceType)
  /\ tool \in ToolType /\ ends \in Nat
  /\ \A p \in Range(got) : Counted(p)
  /\ Range(said) \subseteq Range(got) \union {Pre} /\ Range(buffer) \subseteq Range(got)
  /\ Range(tool.open) \subseteq Range(got) /\ Range(tool.captured) \subseteq Range(got)
  /\ \A c \in calls : c \in Made /\ made[c].called

EventFits(e) ==
  /\ e.kind = "stale" \/ e.from \in Made
  /\ e.kind = "text" => Counted(e.piece) /\ e.piece[1] = e.from
  /\ e.kind = "call" => made[e.from].called
  /\ e.kind = "completed" => made[e.from].state = "completed"
  /\ e.kind # "open"
WsInv ==
  /\ conn \in {"none", "open", "closed", "broken"}
  /\ known \subseteq Made
  /\ wire \in Seq(EventType) /\ \A e \in Range(wire) : EventFits(e)
  /\ jobs \in Seq(Nat) /\ Range(jobs) \subseteq Made
  /\ client # "websocket" => wire = <<>> /\ jobs = <<>>

LockInv == lock \in 0..MaxRequests /\ (Reading => lock = req.n)

TypeInv == MadeInv /\ ReqInv /\ ChainInv /\ OutInv /\ WsInv /\ LockInv

-----------------------------------------------------------------------------
(* Sequences. *)
LEMMA RangeAppended ==
  ASSUME NEW S, NEW s \in Seq(S), NEW x \in S
  PROVE  Append(s, x) \in Seq(S) /\ Range(Append(s, x)) = Range(s) \union {x}
<1>1. /\ Append(s, x) \in Seq(S) /\ DOMAIN Append(s, x) = 1..(Len(s) + 1)
      /\ DOMAIN s = 1..Len(s) /\ Len(s) \in Nat
      /\ \A i \in 1..Len(s) : Append(s, x)[i] = s[i]
      /\ Append(s, x)[Len(s) + 1] = x
  OBVIOUS
<1>. QED
  BY <1>1 DEF Range

LEMMA RangeJoined ==
  ASSUME NEW S, NEW s \in Seq(S), NEW t \in Seq(S)
  PROVE  s \o t \in Seq(S) /\ Range(s \o t) = Range(s) \union Range(t)
<1>1. /\ s \o t \in Seq(S) /\ DOMAIN (s \o t) = 1..(Len(s) + Len(t))
      /\ DOMAIN s = 1..Len(s) /\ DOMAIN t = 1..Len(t) /\ Len(s) \in Nat /\ Len(t) \in Nat
      /\ \A i \in 1..Len(s) : (s \o t)[i] = s[i]
      /\ \A i \in 1..Len(t) : (s \o t)[Len(s) + i] = t[i]
  OBVIOUS
<1>2. ASSUME NEW k \in DOMAIN (s \o t) PROVE (s \o t)[k] \in Range(s) \union Range(t)
  <2>1. CASE k <= Len(s)
    BY <1>1, <2>1 DEF Range
  <2>2. CASE ~(k <= Len(s))
    <3>1. k - Len(s) \in 1..Len(t) /\ (s \o t)[k] = t[k - Len(s)]
      BY <1>1, <2>2
    <3>. QED
      BY <1>1, <3>1 DEF Range
  <2>. QED
    BY <2>1, <2>2
<1>3. \A i \in 1..Len(s) : s[i] \in Range(s \o t)
  BY <1>1 DEF Range
<1>4. \A i \in 1..Len(t) : t[i] \in Range(s \o t)
  BY <1>1 DEF Range
<1>5. Range(s) \union Range(t) \subseteq Range(s \o t)
  BY <1>1, <1>3, <1>4 DEF Range
<1>. QED
  BY <1>1, <1>2, <1>5 DEF Range

LEMMA RangeShortened ==
  ASSUME NEW S, NEW s \in Seq(S), s # <<>>
  PROVE  /\ Tail(s) \in Seq(S) /\ Head(s) \in S
         /\ Range(s) = Range(Tail(s)) \union {Head(s)}
         /\ Len(s) \in Nat \ {0} /\ Head(s) = s[1]
         /\ DOMAIN s = 1..Len(s) /\ DOMAIN Tail(s) = 1..(Len(s) - 1)
         /\ \A i \in DOMAIN Tail(s) : i + 1 \in DOMAIN s /\ Tail(s)[i] = s[i + 1]
<1>1. /\ Tail(s) \in Seq(S) /\ Head(s) \in S /\ Len(s) \in Nat \ {0} /\ Head(s) = s[1]
      /\ DOMAIN s = 1..Len(s) /\ DOMAIN Tail(s) = 1..(Len(s) - 1)
      /\ \A i \in 1..(Len(s) - 1) : Tail(s)[i] = s[i + 1]
  OBVIOUS
<1>2. ASSUME NEW k \in 1..Len(s) PROVE s[k] \in Range(Tail(s)) \union {Head(s)}
  <2>1. CASE k = 1
    BY <1>1, <2>1
  <2>2. CASE k # 1
    <3>1. k - 1 \in 1..(Len(s) - 1) /\ s[k] = Tail(s)[k - 1]
      BY <1>1, <2>2
    <3>. QED
      BY <1>1, <3>1 DEF Range
  <2>. QED
    BY <2>1, <2>2
<1>3. ASSUME NEW i \in 1..(Len(s) - 1) PROVE i + 1 \in 1..Len(s)
  BY <1>1
<1>4. Range(s) \subseteq Range(Tail(s)) \union {Head(s)}
  BY <1>1, <1>2 DEF Range
<1>5. Range(Tail(s)) \union {Head(s)} \subseteq Range(s)
  <2>1. 1 \in DOMAIN s
    BY <1>1
  <2>. QED
    BY <1>1, <1>3, <2>1 DEF Range
<1>. QED
  BY <1>1, <1>3, <1>4, <1>5

LEMMA EmptyRange == ASSUME NEW s, s = <<>> PROVE Range(s) = {}
  BY DEF Range

LEMMA RangeOfOne == ASSUME NEW x PROVE Range(<<x>>) = {x}
  BY DEF Range

LEMMA LastOfOne == ASSUME NEW S, NEW s \in Seq(S), Len(s) = 1 PROVE Tail(s) = <<>>
<1>1. Tail(s) \in Seq(S) /\ Len(Tail(s)) = 0
  OBVIOUS
<1>2. \A t \in Seq(S) : t # <<>> => Len(t) # 0
  OBVIOUS
<1>. QED
  BY <1>1, <1>2

LEMMA RangeTyped == ASSUME NEW S, NEW s \in Seq(S) PROVE Range(s) \subseteq S
  BY DEF Range

-----------------------------------------------------------------------------
(* The responses only grow. *)
Grown ==
  /\ made' \in Seq(ResponseType) /\ Len(made) \in Nat /\ Len(made') \in Nat
  /\ Len(made) <= Len(made')
  /\ \A r \in Made : /\ made'[r].n >= made[r].n /\ made'[r].for = made[r].for
                     /\ made[r].called => made'[r].called
                     /\ made[r].state = "completed" => made'[r].state = "completed"
  /\ \A r \in 1..Len(made') : made'[r].n <= Deltas

LEMMA DeltasTyped == Deltas \in Nat
  BY BoundsAssumption DEF Deltas

LEMMA SameGrown == ASSUME TypeInv, made' = made PROVE Grown
<1>1. made \in Seq(ResponseType) /\ Len(made) \in Nat /\ \A r \in Made : made[r].n <= Deltas
  BY DEF TypeInv, MadeInv
<1>2. \A r \in Made : made[r] \in ResponseType
  BY <1>1 DEF Made
<1>3. \A r \in Made : made[r].n >= made[r].n
  BY <1>2 DEF ResponseType
<1>. QED
  BY <1>1, <1>3 DEF Grown, Made

LEMMA NewGrown ==
  ASSUME TypeInv, req.n # 0, made' = Append(made, NewResponse)
  PROVE  /\ Grown /\ Len(made') = Len(made) + 1 /\ Len(made') \in 1..Len(made')
         /\ made'[Len(made')] = NewResponse
         /\ \A r \in Made : made'[r] = made[r]
<1>1. /\ made \in Seq(ResponseType) /\ req.n \in 1..MaxRequests /\ Len(made) \in Nat
      /\ \A r \in Made : made[r].n <= Deltas /\ made[r].n \in Nat /\ made[r] \in ResponseType
  <2>1. req.n \in 1..MaxRequests
    BY BoundsAssumption DEF TypeInv, ReqInv, ReqType
  <2>2. made \in Seq(ResponseType) /\ Len(made) \in Nat
        /\ \A r \in Made : made[r] \in ResponseType
    BY DEF TypeInv, MadeInv, Made
  <2>. QED
    BY <2>1, <2>2 DEF TypeInv, MadeInv, ResponseType
<1>2. NewResponse \in ResponseType /\ NewResponse.n = 0
  BY <1>1 DEF NewResponse, ResponseType, States
<1>3. /\ made' \in Seq(ResponseType) /\ Len(made') = Len(made) + 1
      /\ \A r \in Made : made'[r] = made[r]
      /\ made'[Len(made) + 1] = NewResponse
  BY <1>1, <1>2 DEF Made
<1>4. ASSUME NEW r \in 1..Len(made') PROVE made'[r].n <= Deltas
  <2>1. r \in Made \/ r = Len(made) + 1
    BY <1>1, <1>3 DEF Made
  <2>. QED
    BY <1>1, <1>2, <1>3, <2>1, DeltasTyped
<1>. QED
  BY <1>1, <1>3, <1>4 DEF Grown, Made

LEMMA EventGrown ==
  ASSUME TypeInv, NEW r \in Made, NEW kind \in Events(r), AfterEvent(r, kind)
  PROVE  /\ Grown /\ Len(made') = Len(made) /\ made[r].state \in {"new", "open"}
         /\ kind \in Kinds \ {"stale"}
         /\ Event(kind, r) \in EventType
         /\ Event(kind, r).kind = kind /\ Event(kind, r).from = r
         /\ Event(kind, r).piece = <<r, made[r].n + 1>>
         /\ kind \in {"text", "open", "call"} => made'[r].n = made[r].n + 1
         /\ kind \in {"text", "call"} => ~made[r].called
         /\ made'[r].called = (made[r].called \/ kind = "call")
         /\ made'[r].opened = (made[r].opened \/ kind = "open")
         /\ kind \in {"completed", "incomplete", "failed"} => made'[r].state = kind
         /\ kind = "created" => made[r].state = "new"
         /\ kind = "open" => ~made[r].opened
         /\ \A q \in Made : q # r => made'[q] = made[q]
<1>1. /\ made \in Seq(ResponseType) /\ Len(made) \in Nat /\ DOMAIN made = Made
      /\ \A q \in Made : made[q].n <= Deltas /\ made[q] \in ResponseType
  BY DEF TypeInv, MadeInv, Made
<1>2. /\ made[r].state \in {"new", "open"} /\ kind \in Kinds \ {"stale"}
      /\ kind = "created" => made[r].state = "new"
      /\ kind = "open" => ~made[r].opened
      /\ kind \in {"text", "open", "call"} => made[r].n < Deltas
      /\ kind \in {"text", "call"} => ~made[r].called
  <2>1. CASE made[r].state = "new"
    <3>1. kind = "created"
      BY <2>1 DEF Events
    <3>. QED
      BY <2>1, <3>1 DEF Kinds
  <2>2. CASE made[r].state # "new"
    <3>1. made[r].state = "open"
      BY <2>2 DEF Events
    <3>2. \/ kind \in {"completed", "incomplete", "failed"}
          \/ kind = "text" /\ made[r].n < Deltas /\ ~made[r].called
          \/ kind = "call" /\ made[r].n < Deltas /\ ~made[r].called
          \/ kind = "open" /\ made[r].n < Deltas /\ ~made[r].opened
      BY <3>1 DEF Events
    <3>. QED
      BY <3>1, <3>2 DEF Kinds
  <2>. QED
    BY <2>1, <2>2
<1>3. /\ made[r] \in ResponseType /\ made[r].n \in Nat /\ made[r].called \in BOOLEAN
      /\ made[r].opened \in BOOLEAN /\ r \in Nat
  BY <1>1 DEF ResponseType, Made
<1>. DEFINE next == Brought(made[r], kind)
<1>4. made' = [made EXCEPT ![r] = next]
  BY DEF AfterEvent
<1>5. /\ next \in ResponseType /\ next.for = made[r].for
      /\ next.n = IF kind \in {"text", "open", "call"} THEN made[r].n + 1 ELSE made[r].n
      /\ next.called = (made[r].called \/ kind = "call")
      /\ next.opened = (made[r].opened \/ kind = "open")
      /\ kind \in {"completed", "incomplete", "failed"} => next.state = kind
  <2>1. /\ next.for = made[r].for
        /\ next.n = IF kind \in {"text", "open", "call"} THEN made[r].n + 1 ELSE made[r].n
    BY <1>3 DEF ResponseType, Brought
  <2>2. /\ next.called = (made[r].called \/ kind = "call")
        /\ next.opened = (made[r].opened \/ kind = "open")
    BY <1>3 DEF ResponseType, Brought
  <2>3. next.state = IF kind = "created" THEN "open"
                     ELSE IF kind \in {"completed", "incomplete", "failed"} THEN kind
                     ELSE made[r].state
    BY <1>3 DEF ResponseType, Brought
  <2>4. next.n \in Nat /\ next.state \in States
    BY <1>3, <2>1, <2>3 DEF ResponseType, States
  <2>5. next \in ResponseType
    BY <1>3, <2>4 DEF ResponseType, Brought
  <2>. QED
    BY <2>1, <2>2, <2>3, <2>5
<1>. HIDE DEF next
<1>6. /\ made' \in Seq(ResponseType) /\ Len(made') = Len(made) /\ made'[r] = next
      /\ \A q \in Made : q # r => made'[q] = made[q]
  BY <1>1, <1>4, <1>5
<1>7. Grown
  <2>1. next.n >= made[r].n /\ next.n <= Deltas
    BY <1>1, <1>2, <1>3, <1>5, DeltasTyped
  <2>2. ASSUME NEW q \in Made
        PROVE /\ made'[q].n >= made[q].n /\ made'[q].for = made[q].for
              /\ made[q].called => made'[q].called
              /\ made[q].state = "completed" => made'[q].state = "completed"
              /\ made'[q].n <= Deltas
    <3>1. CASE q = r
      BY <1>2, <1>5, <1>6, <2>1, <3>1
    <3>2. CASE q # r
      <4>1. made'[q] = made[q] /\ made[q].n \in Nat /\ made[q].n <= Deltas
        BY <1>1, <1>6, <3>2 DEF ResponseType
      <4>. QED
        BY <4>1
    <3>. QED
      BY <3>1, <3>2
  <2>. QED
    BY <1>1, <1>6, <2>2 DEF Grown, Made
<1>8. /\ Event(kind, r) \in EventType /\ Event(kind, r).kind = kind /\ Event(kind, r).from = r
      /\ Event(kind, r).piece = <<r, made[r].n + 1>>
  BY <1>2, <1>3 DEF Event, EventType, PieceType
<1>. QED
  BY <1>2, <1>5, <1>6, <1>7, <1>8

-----------------------------------------------------------------------------
(* What a request puts out stays typed and counted. *)
LEMMA CountedGrown == ASSUME MadeInv, Grown, NEW p, Counted(p) PROVE Counted(p)'
<1>1. /\ p[1] \in 1..Len(made) /\ p[2] \in 1..made[p[1]].n /\ made[p[1]] \in ResponseType
      /\ made'[p[1]] \in ResponseType
      /\ Len(made) \in Nat /\ Len(made') \in Nat /\ Len(made) <= Len(made')
  BY DEF Counted, Made, MadeInv, Grown
<1>2. made[p[1]].n \in Nat /\ made'[p[1]].n \in Nat /\ made'[p[1]].n >= made[p[1]].n
  BY <1>1 DEF Grown, Made, ResponseType
<1>3. p[2] \in 1..made'[p[1]].n /\ p[1] \in 1..Len(made')
  BY <1>1, <1>2
<1>. QED
  BY <1>3 DEF Counted, Made

LEMMA CallsGrown ==
  ASSUME MadeInv, Grown, NEW c \in Made
  PROVE  c \in Made' /\ (made[c].called => made'[c].called)
<1>1. c \in 1..Len(made')
  BY DEF Grown, Made
<1>. QED
  BY <1>1 DEF Grown, Made

LEMMA OutKept == ASSUME MadeInv, OutInv, Grown, UNCHANGED outVars PROVE OutInv'
  BY CountedGrown, CallsGrown DEF OutInv, outVars

LEMMA EmptyTool == NoTool \in ToolType /\ NoTool.open = <<>> /\ NoTool.captured = <<>>
  BY DEF NoTool, ToolType

LEMMA OutAfresh == Afresh => OutInv'
<1>. SUFFICES ASSUME Afresh PROVE OutInv'
  OBVIOUS
<1>1. /\ said' = <<>> /\ buffer' = <<>> /\ got' = <<>> /\ tool' = NoTool /\ calls' = {} /\ ends' = 0
  BY DEF Afresh
<1>2. Range(<<>>) = {}
  BY EmptyRange
<1>. QED
  BY <1>1, <1>2, EmptyTool DEF OutInv

(* What is left of a request that is made again. *)
LEMMA OutAgain ==
  ASSUME MadeInv, OutInv, Grown, buffer' = <<>>, tool' = NoTool, calls' = {},
         UNCHANGED <<said, ends, got>>
  PROVE  OutInv'
<1>1. Range(<<>>) = {}
  BY EmptyRange
<1>. QED
  BY <1>1, EmptyTool, CountedGrown DEF OutInv

LEMMA PreTyped == Pre \in PieceType
  BY DEF Pre, PieceType

LEMMA OutText ==
  ASSUME MadeInv, OutInv, Grown, NEW e \in EventType, Counted(e.piece)', TakeText(e)
  PROVE  OutInv'
<1>1. e.piece \in PieceType
  BY DEF EventType
<1>2. got' \in Seq(PieceType) /\ Range(got') = Range(got) \union {e.piece}
  BY <1>1, RangeAppended DEF OutInv, TakeText
<1>3. /\ said \o buffer \in Seq(PieceType) /\ Range(said \o buffer) = Range(said) \union Range(buffer)
      /\ Append(buffer, e.piece) \in Seq(PieceType)
      /\ Range(Append(buffer, e.piece)) = Range(buffer) \union {e.piece}
      /\ Range(<<>>) = {} /\ <<e.piece>> \in Seq(PieceType) /\ Range(<<e.piece>>) = {e.piece}
  BY <1>1, RangeAppended, RangeJoined, EmptyRange, RangeOfOne DEF OutInv
<1>4. /\ Append(said \o buffer, e.piece) \in Seq(PieceType)
      /\ Range(Append(said \o buffer, e.piece)) = Range(said) \union Range(buffer) \union {e.piece}
  <2>. DEFINE t == said \o buffer
  <2>1. t \in Seq(PieceType)
    BY <1>3
  <2>. HIDE DEF t
  <2>2. /\ Append(t, e.piece) \in Seq(PieceType)
        /\ Range(Append(t, e.piece)) = Range(t) \union {e.piece}
    BY <1>1, <2>1, RangeAppended
  <2>. QED
    BY <1>3, <2>2 DEF t
<1>5. /\ said' \in Seq(PieceType) /\ buffer' \in Seq(PieceType)
      /\ Range(said') \subseteq Range(got') \union {Pre} /\ Range(buffer') \subseteq Range(got')
  <2>0. /\ said \in Seq(PieceType) /\ buffer \in Seq(PieceType)
        /\ Range(said) \subseteq Range(got) \union {Pre} /\ Range(buffer) \subseteq Range(got)
    BY DEF OutInv
  <2>1. CASE buffer' = Append(buffer, e.piece) /\ said' = said
    BY <1>2, <1>3, <2>0, <2>1
  <2>2. CASE buffer' = <<>> /\ said' = Append(said \o buffer, e.piece)
    BY <1>2, <1>3, <1>4, <2>0, <2>2
  <2>3. CASE buffer' = <<e.piece>> /\ said' = said \o buffer
    BY <1>2, <1>3, <2>0, <2>3
  <2>. QED
    BY <2>1, <2>2, <2>3 DEF TakeText, BeginsWith
<1>6. \A q \in Range(got') : Counted(q)'
  BY <1>2, CountedGrown DEF OutInv
<1>7. UNCHANGED <<tool, calls, ends>>
  BY DEF TakeText
<1>8. \A c \in calls' : c \in Made' /\ made'[c].called
  BY <1>7, CallsGrown DEF OutInv
<1>. QED
  BY <1>2, <1>5, <1>6, <1>7, <1>8 DEF OutInv

LEMMA OutCall ==
  ASSUME MadeInv, OutInv, Grown, NEW e \in EventType, e.from \in Made', made'[e.from].called,
         TakeCall(e)
  PROVE  OutInv'
<1>1. /\ Flushed \in Seq(PieceType) /\ Range(Flushed) = Range(said) \union Range(buffer)
      /\ Range(<<>>) = {}
  BY RangeJoined, EmptyRange DEF OutInv, Flushed
<1>2. Append(Flushed, Pre) \in Seq(PieceType) /\ Range(Append(Flushed, Pre)) = Range(Flushed) \union {Pre}
  BY <1>1, PreTyped, RangeAppended
<1>3. /\ said' \in Seq(PieceType) /\ Range(said') \subseteq Range(got) \union {Pre}
      /\ buffer' = <<>> /\ UNCHANGED <<tool, got>>
      /\ calls' = calls \union {e.from}
  BY <1>1, <1>2 DEF OutInv, TakeCall
<1>4. ends' \in Nat
  <2>1. Mark(buffer) \in Nat /\ ends \in Nat
    BY DEF Mark, OutInv
  <2>. QED
    BY <2>1 DEF TakeCall
<1>5. \A c \in calls' : c \in Made' /\ made'[c].called
  BY <1>3, CallsGrown DEF OutInv
<1>6. \A q \in Range(got') : Counted(q)'
  BY <1>3, CountedGrown DEF OutInv
<1>. QED
  BY <1>1, <1>3, <1>4, <1>5, <1>6 DEF OutInv

LEMMA OutOpening ==
  ASSUME MadeInv, OutInv, Grown, NEW e \in EventType, Counted(e.piece)', TakeOpening(e)
  PROVE  OutInv'
<1>1. e.piece \in PieceType
  BY DEF EventType
<1>2. got' \in Seq(PieceType) /\ Range(got') = Range(got) \union {e.piece}
  BY <1>1, RangeAppended DEF OutInv, TakeOpening
<1>3. /\ said' \in Seq(PieceType) /\ Range(said') = Range(said) \union Range(buffer)
      /\ Range(<<>>) = {} /\ <<e.piece>> \in Seq(PieceType) /\ Range(<<e.piece>>) = {e.piece}
      /\ buffer' = <<>>
  BY <1>1, RangeJoined, EmptyRange, RangeOfOne DEF OutInv, TakeOpening
<1>4. /\ tool' \in ToolType /\ Range(tool'.open) \subseteq Range(got')
      /\ Range(tool'.captured) \subseteq Range(got')
  BY <1>2, <1>3 DEF OutInv, TakeOpening, ToolType
<1>5. \A q \in Range(got') : Counted(q)'
  BY <1>2, CountedGrown DEF OutInv
<1>6. UNCHANGED <<calls, ends>>
  BY DEF TakeOpening
<1>7. \A c \in calls' : c \in Made' /\ made'[c].called
  BY <1>6, CallsGrown DEF OutInv
<1>. QED
  BY <1>2, <1>3, <1>4, <1>5, <1>6, <1>7 DEF OutInv

LEMMA OutToolText ==
  ASSUME MadeInv, OutInv, Grown, NEW e \in EventType, Counted(e.piece)', TakeToolText(e)
  PROVE  OutInv'
<1>1. e.piece \in PieceType
  BY DEF EventType
<1>2. got' \in Seq(PieceType) /\ Range(got') = Range(got) \union {e.piece}
  BY <1>1, RangeAppended DEF OutInv, TakeToolText
<1>3. /\ Append(tool.open, e.piece) \in Seq(PieceType)
      /\ Range(Append(tool.open, e.piece)) = Range(tool.open) \union {e.piece}
      /\ Range(<<>>) = {}
  BY <1>1, RangeAppended, EmptyRange DEF OutInv, ToolType
<1>4. /\ tool' \in ToolType /\ Range(tool'.open) \subseteq Range(got')
      /\ Range(tool'.captured) \subseteq Range(got')
  <2>. DEFINE t == Append(tool.open, e.piece)
  <2>1. /\ tool \in ToolType /\ t \in Seq(PieceType) /\ Range(t) \subseteq Range(got')
        /\ Range(tool.captured) \subseteq Range(got')
    BY <1>2, <1>3 DEF OutInv
  <2>2. tool' = [tool EXCEPT !.open = t] \/ tool' = [open |-> <<>>, captured |-> t]
    BY DEF TakeToolText
  <2>. HIDE DEF t
  <2>3. CASE tool' = [tool EXCEPT !.open = t]
    BY <2>1, <2>3 DEF ToolType
  <2>4. CASE tool' = [open |-> <<>>, captured |-> t]
    <3>1. <<>> \in Seq(PieceType) /\ tool'.open = <<>> /\ tool'.captured = t
      BY <2>4
    <3>2. tool' \in ToolType
      BY <2>1, <2>4, <3>1 DEF ToolType
    <3>. QED
      BY <1>3, <2>1, <3>1, <3>2
  <2>. QED
    BY <2>2, <2>3, <2>4
<1>5. \A q \in Range(got') : Counted(q)'
  BY <1>2, CountedGrown DEF OutInv
<1>6. UNCHANGED <<said, buffer, calls, ends>>
  BY DEF TakeToolText
<1>7. \A c \in calls' : c \in Made' /\ made'[c].called
  BY <1>6, CallsGrown DEF OutInv
<1>. QED
  BY <1>2, <1>4, <1>5, <1>6, <1>7 DEF OutInv

(* The end of a stream says what is left. *)
Concludes ==
  FinalChunk \/ FinalText \/ Rescue \/ HandCall(calls)

LEMMA OutEnd ==
  ASSUME MadeInv, OutInv, Grown, UNCHANGED tool, Concludes
  PROVE  OutInv'
<1>1. tool.captured \in Seq(PieceType) /\ tool.open \in Seq(PieceType)
  BY DEF OutInv, ToolType
<1>2. /\ said \o buffer \in Seq(PieceType) /\ Range(said \o buffer) = Range(said) \union Range(buffer)
      /\ Captured \in Seq(PieceType)
      /\ Range(Captured) = Range(tool.captured) \union Range(tool.open)
      /\ Range(<<>>) = {}
  BY <1>1, RangeJoined, EmptyRange DEF OutInv, Captured
<1>3. /\ (said \o buffer) \o Captured \in Seq(PieceType)
      /\ Range((said \o buffer) \o Captured) = Range(said \o buffer) \union Range(Captured)
  <2>. DEFINE t == said \o buffer
  <2>1. t \in Seq(PieceType)
    BY <1>2
  <2>. HIDE DEF t
  <2>2. t \o Captured \in Seq(PieceType) /\ Range(t \o Captured) = Range(t) \union Range(Captured)
    BY <1>2, <2>1, RangeJoined
  <2>. QED
    BY <2>2 DEF t
<1>4. UNCHANGED <<calls, got>>
  BY DEF Concludes, FinalChunk, FinalText, Rescue, HandCall
<1>5. /\ said' \in Seq(PieceType) /\ Range(said') \subseteq Range(got) \union {Pre}
      /\ buffer' \in Seq(PieceType) /\ Range(buffer') \subseteq Range(got)
  <2>1. \/ UNCHANGED <<said, buffer>>
        \/ said' = said \o buffer /\ buffer' = <<>>
        \/ said' = said \o buffer \o Captured /\ buffer' = <<>>
    BY DEF Concludes, FinalChunk, FinalText, Rescue, HandCall
  <2>2. /\ said \in Seq(PieceType) /\ buffer \in Seq(PieceType) /\ <<>> \in Seq(PieceType)
        /\ Range(said) \subseteq Range(got) \union {Pre} /\ Range(buffer) \subseteq Range(got)
        /\ Range(Captured) \subseteq Range(got)
    BY <1>2 DEF OutInv
  <2>3. CASE UNCHANGED <<said, buffer>>
    BY <2>2, <2>3
  <2>4. CASE said' = said \o buffer /\ buffer' = <<>>
    BY <1>2, <2>2, <2>4
  <2>5. CASE said' = said \o buffer \o Captured /\ buffer' = <<>>
    BY <1>2, <1>3, <2>2, <2>5
  <2>. QED
    BY <2>1, <2>3, <2>4, <2>5
<1>6. ends' \in Nat
  BY DEF OutInv, Concludes, FinalChunk, FinalText, Rescue, HandCall
<1>7. \A c \in calls' : c \in Made' /\ made'[c].called
  BY <1>4, CallsGrown DEF OutInv
<1>8. \A q \in Range(got') : Counted(q)'
  BY <1>4, CountedGrown DEF OutInv
<1>. QED
  BY <1>4, <1>5, <1>6, <1>7, <1>8 DEF OutInv

-----------------------------------------------------------------------------
(* What the task does with an event, by client. *)
GeminiCall(e) ==
  /\ e.kind = "call"
  /\ calls' = calls \union {e.from}
  /\ said' = Append(said, Pre) /\ ends' = ends + 1
  /\ \/ Goes("called") /\ results' \in {results, results \union calls'}
     \/ UNCHANGED <<req, results>>
  /\ UNCHANGED <<buffer, tool, got, chainVars, draining>>

OpenaiHandles(e) ==
  /\ client \in {"openai", "azure"}
  /\ \/ e.kind = "call" /\ TakeCall(e)
     \/ e.kind = "open" /\ TakeOpening(e)
     \/ e.kind = "text" /\ tool.open = <<>> /\ TakeText(e)
     \/ e.kind = "text" /\ tool.open # <<>> /\ TakeToolText(e)
     \/ e.kind = "completed" /\ OpenaiChatEnds
LitellmHandles(e) ==
  /\ client = "litellm"
  /\ \/ e.kind = "call" /\ TakeCall(e)
     \/ e.kind = "text" /\ TakeText(e)
     \/ e.kind = "completed" /\ LitellmChatEnds
GeminiHandles(e) ==
  /\ client = "gemini"
  /\ \/ e.kind = "text" /\ TakeText(e)
     \/ GeminiCall(e)
     \/ e.kind = "completed" /\ GeminiChatEnds
ChainHandles(e) ==
  /\ client \in {"responses", "websocket"}
  /\ \/ e.kind = "created" /\ TakesId(e)
     \/ e.kind = "text" /\ TakeText(e)
     \/ e.kind = "call" /\ TakeCall(e)
     \/ e.kind = "completed" /\ Completes(e)
     \/ e.kind = "incomplete" /\ Incomplete
     \/ e.kind = "failed" /\ Invalidate /\ Fails
     \/ e.kind = "stale" /\ client = "websocket" /\ Stale
Handles(e) == OpenaiHandles(e) \/ LitellmHandles(e) \/ GeminiHandles(e) \/ ChainHandles(e)

(* An event that comes with made', whose response is one of it. *)
Comes(e) ==
  /\ e \in EventType
  /\ e.kind = "stale" \/ e.from \in Made
  /\ e.kind \in {"text", "open"} => Counted(e.piece)
  /\ e.kind = "call" => made[e.from].called
  /\ e.kind = "completed" => made[e.from].state = "completed"

(* How a request goes on. *)
Ended == req' \in {[req EXCEPT !.phase = "done"], [req EXCEPT !.phase = "called"],
                   [req EXCEPT !.phase = "failed"]}

LEMMA HandledOut ==
  ASSUME MadeInv, OutInv, ChainInv, Grown, NEW e, e \in EventType, Comes(e)', Handles(e)
  PROVE  OutInv'
<1>1. ASSUME e.kind = "text" PROVE Counted(e.piece)'
  BY <1>1 DEF Comes
<1>2. ASSUME e.kind = "open" PROVE Counted(e.piece)'
  BY <1>2 DEF Comes
<1>3. ASSUME e.kind = "call" PROVE e.from \in Made' /\ made'[e.from].called
  BY <1>3 DEF Comes
<1>4. CASE OpenaiHandles(e)
  <2>1. CASE e.kind = "completed" /\ OpenaiChatEnds
    BY <2>1, OutEnd DEF OpenaiChatEnds, Settle, Concludes
  <2>. QED
    BY <1>1, <1>2, <1>3, <1>4, <2>1, OutText, OutCall, OutOpening, OutToolText DEF OpenaiHandles
<1>5. CASE LitellmHandles(e)
  <2>1. CASE e.kind = "completed" /\ LitellmChatEnds
    BY <2>1, OutEnd DEF LitellmChatEnds, Concludes
  <2>. QED
    BY <1>1, <1>3, <1>5, <2>1, OutText, OutCall DEF LitellmHandles
<1>6. CASE GeminiHandles(e)
  <2>1. CASE e.kind = "completed" /\ GeminiChatEnds
    BY <2>1, OutEnd DEF GeminiChatEnds, Concludes
  <2>2. CASE GeminiCall(e)
    <3>1. said' \in Seq(PieceType) /\ Range(said') = Range(said) \union {Pre}
      BY <2>2, RangeAppended, PreTyped DEF GeminiCall, OutInv
    <3>2. calls' = calls \union {e.from} /\ UNCHANGED <<buffer, tool, got>> /\ ends' = ends + 1
          /\ e.kind = "call"
      BY <2>2 DEF GeminiCall
    <3>3. \A c \in calls' : c \in Made' /\ made'[c].called
      BY <1>3, <3>2, CallsGrown DEF OutInv
    <3>. QED
      BY <3>1, <3>2, <3>3, CountedGrown DEF OutInv
  <2>. QED
    BY <1>1, <1>6, <2>1, <2>2, OutText DEF GeminiHandles
<1>7. CASE ChainHandles(e)
  <2>1. CASE TakesId(e)
    BY <2>1, OutKept DEF TakesId
  <2>2. CASE Completes(e) \/ Incomplete
    BY <2>2, OutEnd DEF Completes, Incomplete, Settle, Concludes
  <2>3. CASE Fails
    BY <2>3, OutAfresh DEF Fails
  <2>4. CASE Stale
    BY <2>4, OutAgain DEF Stale
  <2>. QED
    BY <1>1, <1>3, <1>7, <2>1, <2>2, <2>3, <2>4, OutText, OutCall DEF ChainHandles
<1>. QED
  BY <1>4, <1>5, <1>6, <1>7 DEF Handles

LEMMA InvalidateTyped ==
  ASSUME draining \in BOOLEAN, Invalidate
  PROVE  chain' = 0 /\ pending' = {} /\ draining' \in BOOLEAN
  BY DEF Invalidate, Reset

LEMMA MadeGrown == ASSUME Grown PROVE Made \subseteq Made'
  BY DEF Grown, Made

LEMMA HandledChain ==
  ASSUME MadeInv, OutInv, ChainInv, Grown, NEW e, e \in EventType, Comes(e)', Handles(e)
  PROVE  ChainInv'
<1>1. Made \subseteq Made' /\ calls \subseteq Made
  BY MadeGrown DEF OutInv
<1>2. calls' \subseteq Made'
  BY HandledOut DEF OutInv
<1>3. e.kind # "stale" => e.from \in Made'
  BY DEF Comes
<1>4. CASE UNCHANGED <<chainVars, results, draining>>
  BY <1>1, <1>4 DEF ChainInv, chainVars
<1>5. ASSUME results' \in {results, results \union calls, results \union calls'}
      PROVE  results' \subseteq Made'
  BY <1>1, <1>2, <1>5 DEF ChainInv
<1>6. ASSUME Concludes PROVE results' \subseteq Made'
  <2>1. \/ results' = results \/ HandCall({}) \/ HandCall(calls)
    BY <1>6 DEF Concludes, FinalChunk, FinalText, Rescue
  <2>. QED
    BY <1>5, <2>1 DEF HandCall
<1>7. CASE \/ TakeText(e) \/ TakeCall(e) \/ TakeOpening(e) \/ TakeToolText(e)
  BY <1>4, <1>7 DEF TakeText, TakeCall, TakeOpening, TakeToolText
<1>8. CASE \/ OpenaiChatEnds \/ LitellmChatEnds \/ GeminiChatEnds
  <2>1. Concludes /\ UNCHANGED <<chainVars, draining>>
    BY <1>8 DEF OpenaiChatEnds, LitellmChatEnds, GeminiChatEnds, Settle, Concludes
  <2>. QED
    BY <1>1, <1>6, <2>1 DEF ChainInv, chainVars
<1>9. CASE GeminiCall(e)
  <2>1. UNCHANGED <<chainVars, draining>> /\ results' \in {results, results \union calls'}
    BY <1>9 DEF GeminiCall
  <2>. QED
    BY <1>1, <1>5, <2>1 DEF ChainInv, chainVars
<1>10. CASE TakesId(e) /\ e.kind = "created"
  BY <1>1, <1>3, <1>10 DEF TakesId, ChainInv
<1>11. CASE Completes(e) /\ e.kind = "completed"
  <2>1. chain' = e.from /\ pending' = calls /\ UNCHANGED draining /\ Concludes
    BY <1>11 DEF Completes, Settle, Concludes
  <2>. QED
    BY <1>1, <1>3, <1>6, <1>11, <2>1 DEF ChainInv
<1>12. CASE Incomplete \/ (Invalidate /\ Fails)
  <2>1. Invalidate /\ (Concludes \/ results' = results)
    BY <1>12 DEF Incomplete, Settle, Concludes, Fails
  <2>2. chain' = 0 /\ pending' = {} /\ draining' \in BOOLEAN
    BY <2>1, InvalidateTyped DEF ChainInv
  <2>. QED
    BY <1>5, <1>6, <2>1, <2>2 DEF ChainInv
<1>13. CASE Stale
  BY <1>1, <1>13 DEF Stale, ChainInv
<1>. QED
  BY <1>7, <1>8, <1>9, <1>10, <1>11, <1>12, <1>13
     DEF Handles, OpenaiHandles, LitellmHandles, GeminiHandles, ChainHandles

(* A request goes on as it is, is over, or is made once more. *)
LEMMA HandledReq ==
  ASSUME NEW e, Handles(e)
  PROVE  \/ req' = req \/ Ended
         \/ client = "websocket" /\ e.kind = "stale" /\ req' = [req EXCEPT !.phase = "lock", !.based = 0]
<1>1. CASE \/ TakeText(e) \/ TakeCall(e) \/ TakeOpening(e) \/ TakeToolText(e) \/ TakesId(e)
           \/ GeminiCall(e)
  BY <1>1 DEF TakeText, TakeCall, TakeOpening, TakeToolText, TakesId, GeminiCall, Goes, Ended
<1>2. CASE \/ OpenaiChatEnds \/ LitellmChatEnds \/ GeminiChatEnds \/ Completes(e) \/ Incomplete
  BY <1>2 DEF OpenaiChatEnds, LitellmChatEnds, GeminiChatEnds, Completes, Incomplete, Settle,
              Rescue, FinalChunk, FinalText, HandCall, Goes, Ended
<1>3. CASE Fails
  BY <1>3 DEF Fails, Goes, Ended
<1>4. CASE client = "websocket" /\ e.kind = "stale" /\ Stale
  BY <1>4 DEF Stale, Goes, Ended
<1>. QED
  BY <1>1, <1>2, <1>3, <1>4
     DEF Handles, OpenaiHandles, LitellmHandles, GeminiHandles, ChainHandles

LEMMA ReqKept ==
  ASSUME ReqInv, MadeInv, Grown, UNCHANGED client, req' = req \/ Ended
  PROVE  ReqInv'
<1>1. Made \subseteq Made'
  BY MadeGrown
<1>2. CASE req' = req
  BY <1>1, <1>2 DEF ReqInv
<1>3. CASE Ended
  <2>1. /\ req' \in ReqType /\ req'.phase \in {"done", "called", "failed"}
        /\ req'.n = req.n /\ req'.via = req.via /\ req'.based = req.based /\ req'.on = req.on
    BY <1>3 DEF Ended, ReqInv, ReqType, Phases
  <2>. QED
    BY <1>1, <2>1 DEF ReqInv
<1>. QED
  BY <1>2, <1>3

LEMMA ReqAgain ==
  ASSUME ReqInv, MadeInv, Grown, UNCHANGED client, Reading,
         req' = [req EXCEPT !.phase = "lock", !.based = 0]
  PROVE  ReqInv'
<1>1. Made \subseteq Made'
  BY MadeGrown
<1>2. /\ req' \in ReqType /\ req'.phase = "lock" /\ req'.based = 0
      /\ req'.n = req.n /\ req'.via = "ws" /\ req'.on = req.on
  BY DEF ReqInv, ReqType, Phases, Reading
<1>. QED
  BY <1>1, <1>2 DEF ReqInv, Reading

LEMMA LockKept ==
  ASSUME ReqInv, Ended \/ req' = req, LockInv, UNCHANGED lock
  PROVE  LockInv'
<1>1. req'.n = req.n /\ (Reading' => Reading)
  BY DEF Ended, ReqInv, ReqType, Reading
<1>. QED
  BY <1>1 DEF LockInv

LEMMA FitsGrown == ASSUME MadeInv, Grown, NEW e, EventFits(e) PROVE EventFits(e)'
<1>1. /\ e.kind = "stale" \/ e.from \in Made
      /\ e.kind = "text" => Counted(e.piece) /\ e.piece[1] = e.from
      /\ e.kind = "call" => made[e.from].called
      /\ e.kind = "completed" => made[e.from].state = "completed"
      /\ e.kind # "open"
  BY DEF EventFits
<1>2. e.from \in Made => e.from \in Made'
  BY MadeGrown
<1>3. e.kind = "text" => Counted(e.piece)'
  BY <1>1, CountedGrown
<1>4. e.kind = "call" => made'[e.from].called
  BY <1>1 DEF Grown
<1>5. e.kind = "completed" => made'[e.from].state = "completed"
  BY <1>1 DEF Grown
<1>. QED
  BY <1>1, <1>2, <1>3, <1>4, <1>5 DEF EventFits

LEMMA WsKept ==
  ASSUME MadeInv, WsInv, Grown, UNCHANGED <<client, known, jobs>>,
         conn' \in {conn, "open", "closed", "broken"},
         wire' = wire \/ (wire # <<>> /\ wire' = Tail(wire))
  PROVE  WsInv'
<1>1. Made \subseteq Made'
  BY MadeGrown
<1>2. wire' \in Seq(EventType) /\ Range(wire') \subseteq Range(wire)
  <2>1. wire \in Seq(EventType)
    BY DEF WsInv
  <2>2. wire # <<>> => Tail(wire) \in Seq(EventType) /\ Range(Tail(wire)) \subseteq Range(wire)
    BY <2>1, RangeShortened
  <2>3. CASE wire' = wire
    BY <2>1, <2>3
  <2>4. CASE wire # <<>> /\ wire' = Tail(wire)
    BY <2>2, <2>4
  <2>. QED
    BY <2>3, <2>4
<1>3. client # "websocket" => wire' = <<>>
  BY DEF WsInv
<1>. QED
  BY <1>1, <1>2, <1>3, FitsGrown DEF WsInv

(* Over HTTP an event is taken in the step that brings it. *)
LEMMA HttpEvent ==
  ASSUME TypeInv, Receive
  PROVE  /\ Grown /\ UNCHANGED <<client, lock, wsVars, ghost>>
         /\ Len(made') = Len(made) /\ req.phase = "stream" /\ req.via = "http" /\ req.on \in Made
         /\ \E kind \in Events(req.on), e \in EventType :
              /\ AfterEvent(req.on, kind) /\ kind # "stale" /\ e = Event(kind, req.on)
              /\ Comes(e)' /\ Handles(e)
<1>1. req.phase = "stream" /\ req.via = "http" /\ req.on \in Made /\ client \in AllClients
  BY DEF Receive, TypeInv, ReqInv
<1>2. PICK kind \in Events(req.on) :
        /\ AfterEvent(req.on, kind)
        /\ LET e == Event(kind, req.on) IN
            \/ ~Chat /\ ResponsesStream(e)
            \/ client = "openai" /\ OpenaiChat(e)
            \/ client = "azure" /\ AzureChat(e)
            \/ client = "litellm" /\ LitellmChat(e)
            \/ client = "gemini" /\ GeminiChat(e)
            \/ client = "openai" /\ kind = "completed" /\ OpenaiChatEnds
            \/ client = "azure" /\ kind = "completed" /\ AzureChatEnds
            \/ client = "litellm" /\ kind = "completed" /\ LitellmChatEnds
            \/ client = "gemini" /\ kind = "completed" /\ GeminiChatEnds
  BY DEF Receive
<1>0. PICK r \in Made : r = req.on
  BY <1>1
<1>a. Event(kind, r) \in EventType
  BY <1>0, <1>1, <1>2, EventGrown
<1>b. PICK e \in EventType : e = Event(kind, r)
  BY <1>a
<1>3. /\ Grown /\ Len(made') = Len(made) /\ kind \in Kinds \ {"stale"}
      /\ e \in EventType /\ e.kind = kind /\ e.from = r /\ e.piece = <<r, made[r].n + 1>>
      /\ kind \in {"text", "open", "call"} => made'[r].n = made[r].n + 1
      /\ made'[r].called = (made[r].called \/ kind = "call")
      /\ kind = "completed" => made'[r].state = kind
  BY <1>0, <1>1, <1>2, <1>b, EventGrown
<1>4. Comes(e)'
  <2>1. e.from \in Made'
    BY <1>3, MadeGrown
  <2>2. made[r].n \in Nat
    <3>1. made[r] \in ResponseType
      BY DEF TypeInv, MadeInv, Made
    <3>. QED
      BY <3>1 DEF ResponseType
  <2>3. ASSUME e.kind \in {"text", "open"} PROVE Counted(e.piece)'
    <3>1. e.piece[1] = r /\ e.piece[2] = made'[r].n /\ made'[r].n \in Nat \ {0}
      BY <1>3, <2>2, <2>3
    <3>2. e.piece[2] \in 1..made'[r].n
      BY <3>1
    <3>. QED
      BY <1>3, <2>1, <3>1, <3>2 DEF Counted
  <2>4. e.kind = "call" => made'[e.from].called
    BY <1>3
  <2>5. e.kind = "completed" => made'[e.from].state = "completed"
    BY <1>3
  <2>. QED
    BY <1>3, <2>1, <2>3, <2>4, <2>5 DEF Comes
<1>5. Handles(e)
  <2>1. CASE ~Chat /\ ResponsesStream(e)
    <3>1. client \in {"responses", "websocket"}
      BY <1>1, <2>1 DEF Chat, AllClients
    <3>. QED
      BY <2>1, <3>1 DEF ResponsesStream, Handles, ChainHandles
  <2>2. CASE client \in {"openai", "azure"} /\ OpenaiChat(e)
    BY <2>2 DEF OpenaiChat, Handles, OpenaiHandles
  <2>3. CASE client = "litellm" /\ LitellmChat(e)
    BY <2>3 DEF LitellmChat, Handles, LitellmHandles
  <2>4. CASE client = "gemini" /\ GeminiChat(e)
    BY <2>4 DEF GeminiChat, GeminiCall, Handles, GeminiHandles
  <2>5. CASE client \in {"openai", "azure"} /\ kind = "completed" /\ OpenaiChatEnds
    BY <1>3, <2>5 DEF Handles, OpenaiHandles
  <2>6. CASE client = "litellm" /\ kind = "completed" /\ LitellmChatEnds
    BY <1>3, <2>6 DEF Handles, LitellmHandles
  <2>7. CASE client = "gemini" /\ kind = "completed" /\ GeminiChatEnds
    BY <1>3, <2>7 DEF Handles, GeminiHandles
  <2>. QED
    BY <1>2, <2>1, <2>2, <2>3, <2>4, <2>5, <2>6, <2>7, <1>0, <1>b DEF AzureChat, AzureChatEnds
<1>. QED
  BY <1>0, <1>b, <1>1, <1>2, <1>3, <1>4, <1>5 DEF Receive

(* On the websocket it was sent before. *)
LEMMA WsEvent ==
  ASSUME TypeInv, ReadEvent
  PROVE  /\ Grown /\ UNCHANGED <<client, made, lock, conn, known, jobs, drops, ghost>>
         /\ Reading /\ wire # <<>> /\ wire' = Tail(wire) /\ client = "websocket"
         /\ \E e \in EventType : /\ e = Head(wire) /\ e \in Range(wire) /\ EventFits(e)
                                /\ Comes(e)' /\ Handles(e)
<1>1. /\ Reading /\ wire # <<>> /\ wire' = Tail(wire) /\ WebsocketStream(Head(wire))
      /\ UNCHANGED <<client, made, lock, conn, known, jobs, drops, ghost>>
  BY DEF ReadEvent
<1>2. client = "websocket"
  BY <1>1 DEF Reading, TypeInv, ReqInv
<1>3. Head(wire) \in EventType /\ Head(wire) \in Range(wire) /\ EventFits(Head(wire))
  BY <1>1, RangeShortened DEF TypeInv, WsInv
<1>4. Grown
  BY <1>1, SameGrown
<1>5. PICK e \in EventType : e = Head(wire) /\ EventFits(e) /\ WebsocketStream(e)
  BY <1>1, <1>3
<1>6. Handles(e)
  BY <1>2, <1>5 DEF WebsocketStream, Handles, ChainHandles
<1>7. Comes(e)'
  BY <1>1, <1>5 DEF EventFits, Comes, Made, Counted
<1>. QED
  BY <1>1, <1>2, <1>3, <1>4, <1>5, <1>6, <1>7

-----------------------------------------------------------------------------
(* Every step keeps the types. *)
LEMMA AskTyped == ASSUME TypeInv, Ask PROVE TypeInv'
<1>1. Grown
  BY SameGrown DEF Ask
<1>2. Based \in Made \union {0}
  BY DEF Based, TypeInv, ChainInv
<1>3. /\ req' = [n |-> req.n + 1, phase |-> IF client = "websocket" THEN "lock" ELSE "create",
                 via |-> IF client = "websocket" THEN "ws" ELSE "http", based |-> Based, on |-> 0]
      /\ chain' = Based /\ Afresh
      /\ UNCHANGED <<client, made, pending, results, lock, wsVars, draining, ghost>>
      /\ req.n \in 0..MaxRequests /\ req.n < MaxRequests
  BY DEF Ask, TypeInv, ReqInv, ReqType
<1>4. /\ req'.n \in 0..MaxRequests /\ req'.n # 0 /\ req'.on = 0 /\ req'.based = Based
      /\ req'.phase \in {"lock", "create"}
      /\ req'.phase = "lock" => req'.via = "ws"
      /\ req'.phase = "create" => req'.via = "http"
      /\ client # "websocket" => req'.via = "http"
  BY <1>3, BoundsAssumption
<1>5. req' \in ReqType
  <2>1. Based \in Nat
    BY <1>2 DEF Made
  <2>. QED
    BY <1>3, <1>4, <2>1 DEF ReqType, Phases
<1>6. ReqInv'
  BY <1>2, <1>3, <1>4, <1>5 DEF TypeInv, ReqInv, Made
<1>7. MadeInv' /\ WsInv'
  BY <1>1, <1>3, WsKept DEF TypeInv, MadeInv, Made, wsVars, Deltas
<1>8. ChainInv' /\ OutInv' /\ LockInv'
  BY <1>2, <1>3, <1>4, OutAfresh DEF TypeInv, ChainInv, Made, LockInv, Reading
<1>. QED
  BY <1>6, <1>7, <1>8 DEF TypeInv

(* A step that leaves what was made. *)
LEMMA SameMade == ASSUME TypeInv, UNCHANGED <<client, made>> PROVE Grown /\ MadeInv'
  BY SameGrown DEF TypeInv, MadeInv, Made, Deltas

LEMMA GrownMade == ASSUME Grown, UNCHANGED client PROVE MadeInv'
  BY DEF Grown, MadeInv, Made, Deltas

LEMMA CreateTyped == ASSUME TypeInv, Create PROVE TypeInv'
<1>1. /\ req.phase = "create" /\ req.n # 0 /\ made' = Append(made, NewResponse)
      /\ req' = [req EXCEPT !.phase = "stream", !.on = Len(made) + 1]
      /\ UNCHANGED <<client, chainVars, results, outVars, lock, wsVars, draining, ghost>>
      /\ req.via = "http" /\ req \in ReqType
  BY DEF Create, TypeInv, ReqInv
<1>2. /\ Grown /\ Len(made') = Len(made) + 1 /\ Len(made') \in Made' /\ Made \subseteq Made'
  BY <1>1, NewGrown, MadeGrown DEF Made
<1>3. /\ req' \in ReqType /\ req'.phase = "stream" /\ req'.on = Len(made') /\ req'.n = req.n
      /\ req'.via = "http" /\ req'.based = req.based /\ Len(made') # 0
  <2>1. Len(made') \in Nat \ {0}
    BY <1>2 DEF Grown, Made
  <2>. QED
    BY <1>1, <1>2, <2>1 DEF ReqType, Phases
<1>4. ReqInv'
  BY <1>1, <1>2, <1>3 DEF TypeInv, ReqInv
<1>5. MadeInv' /\ OutInv' /\ WsInv'
  BY <1>1, <1>2, GrownMade, OutKept, WsKept DEF TypeInv, wsVars
<1>6. ChainInv' /\ LockInv'
  BY <1>1, <1>2, <1>3 DEF TypeInv, ChainInv, LockInv, Reading, chainVars
<1>. QED
  BY <1>4, <1>5, <1>6 DEF TypeInv

LEMMA RefusedTyped == ASSUME TypeInv, Refused PROVE TypeInv'
<1>1. /\ req.phase = "create" /\ req' = [req EXCEPT !.based = 0] /\ chain' = 0
      /\ UNCHANGED <<client, made, pending, results, outVars, lock, wsVars, draining, ghost>>
      /\ req \in ReqType
  BY DEF Refused, TypeInv, ReqInv
<1>2. Grown /\ MadeInv' /\ Made' = Made
  BY <1>1, SameMade DEF Made
<1>3. /\ req' \in ReqType /\ req'.phase = "create" /\ req'.based = 0
      /\ req'.n = req.n /\ req'.via = req.via /\ req'.on = req.on
  BY <1>1 DEF ReqType
<1>4. ReqInv' /\ LockInv' /\ ChainInv'
  BY <1>1, <1>2, <1>3 DEF TypeInv, ReqInv, LockInv, Reading, ChainInv
<1>5. OutInv' /\ WsInv'
  BY <1>1, <1>2, OutKept, WsKept DEF TypeInv, wsVars
<1>. QED
  BY <1>2, <1>4, <1>5 DEF TypeInv

LEMMA CreateFailsTyped == ASSUME TypeInv, CreateFails PROVE TypeInv'
<1>1. /\ Ended /\ UNCHANGED <<client, made, chainVars, results, outVars, lock, wsVars, draining, ghost>>
  BY DEF CreateFails, Ended, Goes
<1>2. Grown /\ MadeInv' /\ Made' = Made
  BY <1>1, SameMade DEF Made
<1>3. ReqInv' /\ LockInv'
  BY <1>1, <1>2, ReqKept, LockKept DEF TypeInv
<1>4. OutInv' /\ WsInv' /\ ChainInv'
  BY <1>1, <1>2, OutKept, WsKept DEF TypeInv, wsVars, ChainInv, chainVars
<1>. QED
  BY <1>2, <1>3, <1>4 DEF TypeInv

LEMMA ReceiveTyped == ASSUME TypeInv, Receive PROVE TypeInv'
<1>1. /\ Grown /\ UNCHANGED <<client, lock, wsVars, ghost>>
      /\ req.phase = "stream" /\ req.via = "http"
  BY HttpEvent
<1>2. PICK e \in EventType : e.kind # "stale" /\ Comes(e)' /\ Handles(e)
  <2>1. PICK kind \in Events(req.on), e \in EventType :
              /\ AfterEvent(req.on, kind) /\ kind # "stale" /\ e = Event(kind, req.on)
              /\ Comes(e)' /\ Handles(e)
    BY HttpEvent
  <2>. QED
    BY <2>1 DEF Event
<1>3. OutInv' /\ ChainInv' /\ (req' = req \/ Ended)
  BY <1>1, <1>2, HandledOut, HandledChain, HandledReq DEF TypeInv
<1>4. MadeInv' /\ ReqInv' /\ LockInv' /\ WsInv'
  BY <1>1, <1>3, GrownMade, ReqKept, LockKept, WsKept DEF TypeInv, wsVars
<1>. QED
  BY <1>3, <1>4 DEF TypeInv

LEMMA ReadEventTyped == ASSUME TypeInv, ReadEvent PROVE TypeInv'
<1>1. /\ Grown /\ UNCHANGED <<client, made, lock, conn, known, jobs, drops, ghost>>
      /\ Reading /\ wire # <<>> /\ wire' = Tail(wire)
  BY WsEvent
<1>2. PICK e \in EventType : Comes(e)' /\ Handles(e)
  BY WsEvent
<1>3. OutInv' /\ ChainInv'
  BY <1>1, <1>2, HandledOut, HandledChain DEF TypeInv
<1>4. MadeInv' /\ WsInv'
  BY <1>1, GrownMade, WsKept DEF TypeInv
<1>5. ReqInv' /\ LockInv'
  <2>1. CASE req' = req \/ Ended
    BY <1>1, <2>1, ReqKept, LockKept DEF TypeInv
  <2>2. CASE req' = [req EXCEPT !.phase = "lock", !.based = 0]
    <3>1. ReqInv'
      BY <1>1, <2>2, ReqAgain DEF TypeInv
    <3>2. req'.phase = "lock"
      BY <2>2 DEF TypeInv, ReqInv, ReqType
    <3>. QED
      BY <1>1, <3>1, <3>2 DEF TypeInv, LockInv, Reading
  <2>. QED
    BY <1>2, <2>1, <2>2, HandledReq
<1>. QED
  BY <1>3, <1>4, <1>5 DEF TypeInv

LEMMA FallsBackTyped ==
  ASSUME TypeInv, FallsBack, UNCHANGED <<client, made>>, req.phase \in {"lock", "create", "stream"},
         client = "websocket"
  PROVE  /\ ReqInv' /\ ChainInv' /\ OutInv' /\ ~Reading'
<1>1. Grown /\ Made' = Made
  BY SameMade DEF Made
<1>2. /\ req' = [req EXCEPT !.phase = "create", !.via = "http", !.based = 0]
      /\ buffer' = <<>> /\ tool' = NoTool /\ calls' = {} /\ Invalidate
      /\ UNCHANGED <<said, ends, got, results>>
  BY DEF FallsBack
<1>3. /\ req' \in ReqType /\ req'.phase = "create" /\ req'.via = "http" /\ req'.based = 0
      /\ req'.n = req.n /\ req'.on = req.on
  BY <1>2 DEF TypeInv, ReqInv, ReqType, Phases
<1>4. ReqInv' /\ ~Reading'
  BY <1>1, <1>3 DEF TypeInv, ReqInv, Reading
<1>5. OutInv'
  BY <1>1, <1>2, OutAgain DEF TypeInv
<1>6. ChainInv'
  BY <1>1, <1>2, InvalidateTyped DEF TypeInv, ChainInv
<1>. QED
  BY <1>4, <1>5, <1>6

LEMMA OfWebsocket ==
  ASSUME ReqInv PROVE req.phase = "lock" \/ Reading => client = "websocket"
  BY DEF ReqInv, Reading

LEMMA ConnectFailsTyped == ASSUME TypeInv, ConnectFails PROVE TypeInv'
<1>1. /\ req.phase = "lock" /\ FallsBack /\ UNCHANGED <<client, made, lock, conn, known, jobs, wire>>
  BY DEF ConnectFails
<1>2. Grown /\ MadeInv' /\ client = "websocket"
  BY <1>1, SameMade, OfWebsocket DEF TypeInv
<1>3. ReqInv' /\ ChainInv' /\ OutInv' /\ ~Reading'
  BY <1>1, <1>2, FallsBackTyped
<1>4. WsInv' /\ LockInv'
  BY <1>1, <1>2, <1>3, WsKept DEF TypeInv, LockInv
<1>. QED
  BY <1>2, <1>3, <1>4 DEF TypeInv

LEMMA ReadRaisesTyped == ASSUME TypeInv, ReadRaises PROVE TypeInv'
<1>1. /\ Reading /\ FallsBack /\ UNCHANGED <<client, made, lock, wsVars>>
  BY DEF ReadRaises
<1>2. Grown /\ MadeInv' /\ client = "websocket" /\ req.phase = "stream"
  BY <1>1, SameMade, OfWebsocket DEF TypeInv, Reading
<1>3. ReqInv' /\ ChainInv' /\ OutInv' /\ ~Reading'
  BY <1>1, <1>2, FallsBackTyped
<1>4. WsInv' /\ LockInv'
  BY <1>1, <1>2, <1>3, WsKept DEF TypeInv, LockInv, wsVars
<1>. QED
  BY <1>2, <1>3, <1>4 DEF TypeInv

LEMMA SendTyped == ASSUME TypeInv, SendRequest PROVE TypeInv'
<1>. DEFINE sent == IF Connects THEN <<>> ELSE wire
            r == Len(made) + 1
            stale == [kind |-> "stale", from |-> 0, piece |-> <<0, 0>>]
<1>1. /\ req.phase = "lock" /\ req.n # 0 /\ req.via = "ws" /\ client = "websocket"
      /\ lock' = req.n /\ conn' = "open" /\ known' \in {{}, known}
      /\ UNCHANGED <<client, chainVars, results, outVars, draining, drops, ghost>>
      /\ req \in ReqType /\ req.n \in 0..MaxRequests
  BY DEF SendRequest, Acquire, TypeInv, ReqInv, ReqType
<1>2. \/ /\ made' = Append(made, NewResponse)
         /\ jobs' = Append(jobs, r) /\ wire' = sent
         /\ req' = [req EXCEPT !.phase = "stream", !.on = r]
      \/ /\ wire' = Append(sent, stale) /\ UNCHANGED <<made, jobs>>
         /\ req' = [req EXCEPT !.phase = "stream"]
  BY DEF SendRequest, Goes
<1>3. sent \in Seq(EventType) /\ Range(sent) \subseteq Range(wire)
  BY EmptyRange DEF TypeInv, WsInv
<1>4. stale \in EventType
  BY DEF EventType, Kinds, PieceType
<1>. HIDE DEF sent
<1>5. CASE /\ made' = Append(made, NewResponse)
           /\ jobs' = Append(jobs, r) /\ wire' = sent
           /\ req' = [req EXCEPT !.phase = "stream", !.on = r]
  <2>1. Grown /\ Made \subseteq Made' /\ r \in Made' /\ r \in Nat
    BY <1>1, <1>5, NewGrown, MadeGrown DEF Made, TypeInv, MadeInv
  <2>2. /\ req' \in ReqType /\ req'.phase = "stream" /\ req'.on = r /\ req'.n = req.n
        /\ req'.via = "ws" /\ req'.based = req.based
    BY <1>1, <1>5, <2>1 DEF ReqType, Phases
  <2>3. jobs' \in Seq(Nat) /\ Range(jobs') = Range(jobs) \union {r}
    BY <1>5, <2>1, RangeAppended DEF TypeInv, WsInv
  <2>4. WsInv'
    BY <1>1, <1>3, <1>5, <2>1, <2>3, FitsGrown DEF TypeInv, WsInv
  <2>5. ReqInv' /\ LockInv' /\ ChainInv'
    BY <1>1, <2>1, <2>2 DEF TypeInv, ReqInv, LockInv, Reading, ChainInv, chainVars
  <2>6. MadeInv' /\ OutInv'
    BY <1>1, <2>1, GrownMade, OutKept DEF TypeInv
  <2>. QED
    BY <2>4, <2>5, <2>6 DEF TypeInv
<1>6. CASE /\ wire' = Append(sent, stale) /\ UNCHANGED <<made, jobs>>
           /\ req' = [req EXCEPT !.phase = "stream"]
  <2>1. Grown /\ MadeInv' /\ Made' = Made
    BY <1>1, <1>6, SameMade DEF Made
  <2>2. /\ req' \in ReqType /\ req'.phase = "stream" /\ req'.on = req.on /\ req'.n = req.n
        /\ req'.via = "ws" /\ req'.based = req.based
    BY <1>1, <1>6 DEF ReqType, Phases
  <2>3. wire' \in Seq(EventType) /\ Range(wire') = Range(sent) \union {stale}
    BY <1>3, <1>4, <1>6, RangeAppended
  <2>4. EventFits(stale)'
    BY DEF EventFits
  <2>5. WsInv'
    BY <1>1, <1>3, <1>6, <2>1, <2>3, <2>4, FitsGrown DEF TypeInv, WsInv
  <2>6. ReqInv' /\ LockInv' /\ ChainInv'
    BY <1>1, <2>1, <2>2 DEF TypeInv, ReqInv, LockInv, Reading, ChainInv, chainVars
  <2>7. OutInv'
    BY <1>1, <2>1, OutKept DEF TypeInv
  <2>. QED
    BY <2>1, <2>5, <2>6, <2>7 DEF TypeInv
<1>. QED
  BY <1>2, <1>5, <1>6

(* What the provider adds to the websocket. *)
LEMMA WorkEvent ==
  ASSUME TypeInv, Work
  PROVE  /\ Grown /\ Len(made') = Len(made) /\ jobs # <<>> /\ conn = "open"
         /\ \E r \in Made : \E kind \in Events(r), e \in EventType :
              /\ r = Head(jobs) /\ e = Event(kind, r) /\ e.kind = kind /\ e.from = r
              /\ AfterEvent(r, kind) /\ EventFits(e)'
              /\ wire' = Append(wire, e)
              /\ jobs' = IF Terminal(e) THEN Tail(jobs) ELSE jobs
              /\ known' = IF kind = "completed" THEN known \union {r} ELSE known
<1>1. PICK kind \in Events(Head(jobs)) :
       LET e == Event(kind, Head(jobs)) IN
       /\ AfterEvent(Head(jobs), kind)
       /\ wire' = Append(wire, e)
       /\ jobs' = IF Terminal(e) THEN Tail(jobs) ELSE jobs
       /\ known' = IF kind = "completed" THEN known \union {e.from} ELSE known
  BY DEF Work
<1>2. jobs # <<>> /\ conn = "open" /\ Head(jobs) \in Made /\ client = "websocket"
  <2>1. jobs # <<>> /\ conn = "open"
    BY DEF Work
  <2>2. Head(jobs) \in Range(jobs)
    BY <2>1, RangeShortened DEF TypeInv, WsInv
  <2>. QED
    BY <2>1, <2>2 DEF TypeInv, WsInv
<1>3. PICK r \in Made : r = Head(jobs)
  BY <1>2
<1>4. Event(kind, r) \in EventType
  BY <1>1, <1>3, EventGrown
<1>5. PICK e \in EventType : e = Event(kind, r)
  BY <1>4
<1>6. /\ Grown /\ Len(made') = Len(made) /\ kind \in Kinds \ {"stale"}
      /\ e.kind = kind /\ e.from = r /\ e.piece = <<r, made[r].n + 1>>
      /\ kind \in {"text", "open", "call"} => made'[r].n = made[r].n + 1
      /\ made'[r].called = (made[r].called \/ kind = "call")
      /\ kind \in {"completed", "incomplete", "failed"} => made'[r].state = kind
  BY <1>1, <1>3, <1>5, EventGrown
<1>7. EventFits(e)'
  <2>1. e.from \in Made'
    BY <1>6, MadeGrown
  <2>2. made[r].n \in Nat
    <3>1. made[r] \in ResponseType
      BY DEF TypeInv, MadeInv, Made
    <3>. QED
      BY <3>1 DEF ResponseType
  <2>3. ASSUME e.kind = "text" PROVE Counted(e.piece)' /\ e.piece[1] = e.from
    <3>1. e.piece[1] = r /\ e.piece[2] = made'[r].n /\ made'[r].n \in Nat \ {0}
      BY <1>6, <2>2, <2>3
    <3>2. e.piece[2] \in 1..made'[r].n
      BY <3>1
    <3>. QED
      BY <1>6, <2>1, <3>1, <3>2 DEF Counted
  <2>4. e.kind # "open"
    <3>1. kind # "open"
      BY <1>2 DEF Events, Chat
    <3>. QED
      BY <1>6, <3>1
  <2>. QED
    BY <1>6, <2>1, <2>3, <2>4 DEF EventFits
<1>. QED
  BY <1>1, <1>2, <1>3, <1>5, <1>6, <1>7

LEMMA WorkTyped == ASSUME TypeInv, Work PROVE TypeInv'
<1>1. /\ Grown /\ Len(made') = Len(made) /\ jobs # <<>>
      /\ UNCHANGED <<client, req, chainVars, results, outVars, lock, conn, draining, drops, ghost>>
  BY WorkEvent DEF Work
<1>2. PICK r \in Made, e \in EventType :
        /\ EventFits(e)' /\ wire' = Append(wire, e)
        /\ jobs' \in {jobs, Tail(jobs)} /\ known' \in {known, known \union {r}}
  BY WorkEvent
<1>3. Made' = Made
  BY <1>1 DEF Made
<1>4. wire' \in Seq(EventType) /\ Range(wire') = Range(wire) \union {e}
  BY <1>2, RangeAppended DEF TypeInv, WsInv
<1>5. jobs' \in Seq(Nat) /\ Range(jobs') \subseteq Range(jobs)
  <2>1. jobs \in Seq(Nat)
    BY DEF TypeInv, WsInv
  <2>2. Tail(jobs) \in Seq(Nat) /\ Range(Tail(jobs)) \subseteq Range(jobs)
    BY <1>1, <2>1, RangeShortened
  <2>. QED
    BY <1>2, <2>1, <2>2
<1>6. client = "websocket"
  BY <1>1 DEF TypeInv, WsInv
<1>7. WsInv'
  BY <1>1, <1>2, <1>3, <1>4, <1>5, <1>6, FitsGrown DEF TypeInv, WsInv
<1>8. ReqInv' /\ LockInv' /\ ChainInv'
  BY <1>1, <1>3 DEF TypeInv, ReqInv, LockInv, Reading, ChainInv, chainVars
<1>9. MadeInv' /\ OutInv'
  BY <1>1, GrownMade, OutKept DEF TypeInv
<1>. QED
  BY <1>7, <1>8, <1>9 DEF TypeInv

LEMMA TypeStep == TypeInv /\ [Next]_vars => TypeInv'
<1>. SUFFICES ASSUME TypeInv, [Next]_vars PROVE TypeInv'
  OBVIOUS
<1>1. CASE Drop
  <2>1. /\ conn' \in {"closed", "broken"} /\ jobs' = <<>>
        /\ UNCHANGED <<client, req, made, chainVars, results, outVars, lock, known, wire, draining, ghost>>
    BY <1>1 DEF Drop
  <2>2. Grown /\ MadeInv' /\ Made' = Made
    BY <2>1, SameMade DEF Made
  <2>3. WsInv'
    BY <2>1, <2>2, EmptyRange, FitsGrown DEF TypeInv, WsInv
  <2>4. ReqInv' /\ LockInv' /\ ChainInv'
    BY <2>1, <2>2 DEF TypeInv, ReqInv, LockInv, Reading, ChainInv, chainVars
  <2>5. OutInv'
    BY <2>1, <2>2, OutKept DEF TypeInv
  <2>. QED
    BY <2>2, <2>3, <2>4, <2>5 DEF TypeInv
<1>2. CASE ReadEnd
  <2>1. /\ Settle /\ UNCHANGED <<client, made, chainVars, tool, lock, wsVars, draining>>
    BY <1>2 DEF ReadEnd
  <2>2. Grown /\ MadeInv' /\ Made' = Made
    BY <2>1, SameMade DEF Made
  <2>3. Ended /\ Concludes /\ results' \in {results, results \union calls}
    BY <2>1 DEF Settle, FinalChunk, HandCall, Goes, Ended, Concludes
  <2>4. ReqInv' /\ LockInv' /\ OutInv' /\ WsInv'
    BY <2>1, <2>2, <2>3, ReqKept, LockKept, OutEnd, WsKept DEF TypeInv, wsVars
  <2>5. ChainInv'
    BY <2>1, <2>2, <2>3 DEF TypeInv, ChainInv, OutInv, chainVars
  <2>. QED
    BY <2>2, <2>4, <2>5 DEF TypeInv
<1>3. CASE Drain
  <2>1. /\ UNCHANGED <<client, req, made, chainVars, results, outVars, lock, conn, known, jobs, drops, ghost>>
        /\ wire' = wire \/ (wire # <<>> /\ wire' = Tail(wire))
        /\ draining' \in BOOLEAN
    BY <1>3 DEF Drain
  <2>2. Grown /\ MadeInv' /\ Made' = Made
    BY <2>1, SameMade DEF Made
  <2>3. OutInv' /\ WsInv'
    BY <2>1, <2>2, OutKept, WsKept DEF TypeInv
  <2>4. ReqInv' /\ LockInv' /\ ChainInv'
    BY <2>1, <2>2 DEF TypeInv, ReqInv, LockInv, Reading, ChainInv, chainVars
  <2>. QED
    BY <2>2, <2>3, <2>4 DEF TypeInv
<1>4. CASE Collect
  <2>1. /\ lock' = 0 /\ lock # 0 /\ ~HoldsLock
        /\ UNCHANGED <<client, req, made, chainVars, results, outVars, wsVars, draining, ghost>>
    BY <1>4 DEF Collect
  <2>2. Grown /\ MadeInv' /\ Made' = Made
    BY <2>1, SameMade DEF Made
  <2>3. OutInv' /\ WsInv'
    BY <2>1, <2>2, OutKept, WsKept DEF TypeInv, wsVars
  <2>4. ~Reading /\ ~Reading'
    BY <2>1 DEF TypeInv, LockInv, HoldsLock, Reading
  <2>5. ReqInv' /\ LockInv' /\ ChainInv'
    BY <2>1, <2>2, <2>4, BoundsAssumption DEF TypeInv, ReqInv, LockInv, ChainInv, chainVars
  <2>. QED
    BY <2>2, <2>3, <2>5 DEF TypeInv
<1>5. CASE Interrupt
  <2>1. /\ req' = [req EXCEPT !.phase = "idle"] /\ Afresh
        /\ Invalidate \/ UNCHANGED <<chainVars, draining>>
        /\ UNCHANGED <<client, made, results, lock, wsVars>>
    BY <1>5 DEF Interrupt, Goes
  <2>2. Grown /\ MadeInv' /\ Made' = Made
    BY <2>1, SameMade DEF Made
  <2>3. OutInv' /\ WsInv'
    BY <2>1, <2>2, OutAfresh, WsKept DEF TypeInv, wsVars
  <2>4. /\ req' \in ReqType /\ req'.phase = "idle" /\ req'.n = req.n /\ req'.via = req.via
        /\ req'.based = req.based /\ req'.on = req.on
    BY <2>1 DEF TypeInv, ReqInv, ReqType, Phases
  <2>5. ReqInv' /\ LockInv'
    BY <2>1, <2>2, <2>4 DEF TypeInv, ReqInv, LockInv, Reading
  <2>6. ChainInv'
    BY <2>1, <2>2, InvalidateTyped DEF TypeInv, ChainInv, chainVars
  <2>. QED
    BY <2>2, <2>3, <2>5, <2>6 DEF TypeInv
<1>6. CASE ChangeHistory \/ UNCHANGED vars
  <2>1. /\ UNCHANGED <<client, req, made, results, outVars, lock, wsVars, ghost>>
        /\ Invalidate \/ UNCHANGED <<chainVars, draining>>
    BY <1>6 DEF ChangeHistory, vars
  <2>2. Grown /\ MadeInv' /\ Made' = Made
    BY <2>1, SameMade DEF Made
  <2>3. OutInv' /\ WsInv'
    BY <2>1, <2>2, OutKept, WsKept DEF TypeInv, wsVars
  <2>4. ReqInv' /\ LockInv'
    BY <2>1, <2>2 DEF TypeInv, ReqInv, LockInv, Reading
  <2>5. ChainInv'
    BY <2>1, <2>2, InvalidateTyped DEF TypeInv, ChainInv, chainVars
  <2>. QED
    BY <2>2, <2>3, <2>4, <2>5 DEF TypeInv
<1>. QED
  BY <1>1, <1>2, <1>3, <1>4, <1>5, <1>6, AskTyped, CreateTyped, RefusedTyped, CreateFailsTyped,
     ReceiveTyped, SendTyped, ConnectFailsTyped, WorkTyped, ReadEventTyped, ReadRaisesTyped
     DEF Next

LEMMA TypeInvKept == Spec => []TypeInv
<1>1. Init => TypeInv
  <2>. SUFFICES ASSUME Init PROVE TypeInv
    OBVIOUS
  <2>1. /\ client \in AllClients /\ made = <<>>
        /\ req = [n |-> 0, phase |-> "idle", via |-> "http", based |-> 0, on |-> 0]
    BY ClientsAssumption DEF Init
  <2>2. MadeInv /\ ReqInv
    BY <2>1, BoundsAssumption DEF MadeInv, Made, ReqInv, ReqType, Phases
  <2>3. ChainInv /\ LockInv
    <3>1. 0 \in 0..MaxRequests /\ ~Reading
      BY <2>1, BoundsAssumption DEF Reading
    <3>. QED
      BY <3>1 DEF Init, ChainInv, LockInv
  <2>4. OutInv /\ WsInv
    BY EmptyTool, EmptyRange DEF Init, OutInv, WsInv
  <2>. QED
    BY <2>2, <2>3, <2>4 DEF TypeInv
<1>. QED
  BY <1>1, TypeStep, PTL DEF Spec

(* A piece that its response has brought is one the model has. *)
LEMMA PiecesKnown ==
  ASSUME TypeInv, NEW p \in PieceType, Counted(p)
  PROVE  p \in Pieces
<1>1. PICK a \in Nat, b \in Nat : p = <<a, b>>
  BY DEF PieceType
<1>2. a \in Made /\ b \in 1..made[a].n
  BY <1>1 DEF Counted
<1>3. made[a] \in ResponseType /\ made[a].n <= Deltas
  BY <1>2 DEF TypeInv, MadeInv, Made
<1>4. made[a].n \in Nat
  BY <1>3 DEF ResponseType
<1>5. b \in 1..(Deltas + 1)
  BY <1>2, <1>3, <1>4, DeltasTyped
<1>. QED
  BY <1>1, <1>2, <1>5 DEF Pieces, Made

(* Every variable keeps its type, whatever the client, its tools and the       *)
(* bounds: what is named was made, and what is said was received.              *)
THEOREM TypeCorrect == Spec => []TypeOK
<1>1. TypeInv => TypeOK
  <2>. SUFFICES ASSUME TypeInv PROVE TypeOK
    OBVIOUS
  <2>1. Len(made) \in Nat /\ DOMAIN made = Made /\ Made \union {0} = 0..Len(made)
    BY DEF TypeInv, MadeInv, Made
  <2>2. /\ client \in AllClients
        /\ req.n \in 0..MaxRequests /\ req.based \in 0..Len(made) /\ req.on \in 0..Len(made)
        /\ req.phase \in {"idle", "lock", "create", "stream", "done", "called", "failed"}
    BY <2>1 DEF TypeInv, ReqInv, ReqType, Phases
  <2>3. ASSUME NEW r \in DOMAIN made
        PROVE  /\ made[r].for \in 1..MaxRequests /\ made[r].n \in 0..Deltas
               /\ made[r].state \in {"new", "open", "completed", "incomplete", "failed"}
    <3>1. made[r] \in ResponseType /\ made[r].n <= Deltas
      BY <2>1 DEF TypeInv, MadeInv, Made
    <3>2. made[r].n \in 0..Deltas
      BY <3>1, DeltasTyped DEF ResponseType
    <3>. QED
      BY <3>1, <3>2 DEF ResponseType, States
  <2>4. chain \in 0..Len(made) /\ pending \subseteq 1..Len(made) /\ results \subseteq 1..Len(made)
        /\ draining \in BOOLEAN
    BY <2>1 DEF TypeInv, ChainInv, Made
  <2>5. Range(got) \subseteq Pieces
    BY PiecesKnown, RangeTyped DEF TypeInv, OutInv
  <2>6. Range(said) \subseteq Pieces \union {Pre}
    BY <2>5 DEF TypeInv, OutInv
  <2>7. Range(buffer \o Captured) \subseteq Pieces
    <3>1. tool.captured \in Seq(PieceType) /\ tool.open \in Seq(PieceType)
      BY DEF TypeInv, OutInv, ToolType
    <3>2. Captured \in Seq(PieceType) /\ Range(Captured) = Range(tool.captured) \union Range(tool.open)
      BY <3>1, RangeJoined DEF Captured
    <3>3. Range(buffer \o Captured) = Range(buffer) \union Range(Captured)
      BY <3>2, RangeJoined DEF TypeInv, OutInv
    <3>. QED
      BY <2>5, <3>2, <3>3 DEF TypeInv, OutInv
  <2>8. /\ lock \in 0..MaxRequests /\ (Reading => lock = req.n)
        /\ conn \in {"none", "open", "closed", "broken"}
        /\ known \subseteq 1..Len(made) /\ Range(jobs) \subseteq 1..Len(made)
    BY DEF TypeInv, LockInv, WsInv, Made
  <2>. QED
    BY <2>2, <2>3, <2>4, <2>6, <2>7, <2>8 DEF TypeOK
<1>. QED
  BY <1>1, TypeInvKept, PTL

-----------------------------------------------------------------------------
(* What an event changes, in short. *)
LEMMA HandledGot ==
  ASSUME OutInv, NEW e \in EventType, Handles(e)
  PROVE  /\ \/ Range(got') \subseteq Range(got)
            \/ e.kind \in {"text", "open"} /\ Range(got') = Range(got) \union {e.piece}
         /\ calls' \subseteq calls \/ (e.kind = "call" /\ calls' = calls \union {e.from})
<1>0. e.piece \in PieceType /\ got \in Seq(PieceType)
  BY DEF OutInv, EventType
<1>1. CASE /\ e.kind \in {"text", "open"}
           /\ TakeText(e) \/ TakeOpening(e) \/ TakeToolText(e)
  <2>1. got' = Append(got, e.piece)
    BY <1>1 DEF TakeText, TakeOpening, TakeToolText
  <2>2. Range(got') = Range(got) \union {e.piece}
    BY <1>0, <2>1, RangeAppended
  <2>3. calls' = calls
    BY <1>1 DEF TakeText, TakeOpening, TakeToolText
  <2>. QED
    BY <1>1, <2>2, <2>3
<1>2. CASE e.kind = "call" /\ (TakeCall(e) \/ GeminiCall(e))
  BY <1>2 DEF TakeCall, GeminiCall
<1>3. CASE \/ OpenaiChatEnds \/ LitellmChatEnds \/ GeminiChatEnds \/ Completes(e) \/ Incomplete
  <2>1. UNCHANGED <<calls, got>>
    BY <1>3 DEF OpenaiChatEnds, LitellmChatEnds, GeminiChatEnds, Completes, Incomplete, Settle,
                FinalChunk, FinalText, Rescue, HandCall
  <2>. QED
    BY <2>1
<1>4. CASE Fails
  BY <1>4, EmptyRange DEF Fails, Afresh
<1>5. CASE Stale \/ TakesId(e)
  BY <1>5 DEF Stale, TakesId, outVars
<1>. QED
  BY <1>1, <1>2, <1>3, <1>4, <1>5
     DEF Handles, OpenaiHandles, LitellmHandles, GeminiHandles, ChainHandles, GeminiCall

(* Of the Responses API only the end of a response ends the request. *)
LEMMA HandledEnds ==
  ASSUME NEW e, Handles(e), client \in {"responses", "websocket"}
  PROVE  req' = req \/ Terminal(e)
<1>1. ChainHandles(e)
  BY DEF Handles, OpenaiHandles, LitellmHandles, GeminiHandles
<1>. QED
  BY <1>1 DEF ChainHandles, TakesId, TakeText, TakeCall, Terminal

(* The chain leads to a response that has come to its end, or to none. *)
LEMMA HandledSettles ==
  ASSUME NEW e, Handles(e), client \in AllClients
  PROVE  /\ Chat => UNCHANGED chainVars
         /\ \/ Chat \/ req' = req
            \/ chain' = 0
            \/ e.kind = "completed" /\ chain' = e.from /\ pending' = calls
<1>1. CASE OpenaiHandles(e)
  BY <1>1 DEF OpenaiHandles, Chat, TakeText, TakeCall, TakeOpening, TakeToolText, OpenaiChatEnds
<1>2. CASE LitellmHandles(e)
  BY <1>2 DEF LitellmHandles, Chat, TakeText, TakeCall, LitellmChatEnds
<1>3. CASE GeminiHandles(e)
  BY <1>3 DEF GeminiHandles, Chat, TakeText, GeminiCall, GeminiChatEnds
<1>4. CASE ChainHandles(e)
  <2>1. ~Chat
    BY <1>4 DEF ChainHandles, Chat
  <2>2. CASE TakesId(e) \/ TakeText(e) \/ TakeCall(e)
    BY <2>1, <2>2 DEF TakesId, TakeText, TakeCall
  <2>3. CASE e.kind = "completed" /\ Completes(e)
    BY <2>1, <2>3 DEF Completes
  <2>4. CASE Incomplete \/ Invalidate \/ Stale
    BY <2>1, <2>4 DEF Incomplete, Invalidate, Reset, Stale
  <2>. QED
    BY <1>4, <2>2, <2>3, <2>4 DEF ChainHandles
<1>. QED
  BY <1>1, <1>2, <1>3, <1>4 DEF Handles

-----------------------------------------------------------------------------
(* What is continued is complete. *)
Settled(r) == r # 0 => made[r].state = "completed"
SettledInv ==
  /\ Chat => chain = 0
  /\ ghost \subseteq {"fallback"} =>
       /\ req.phase # "stream" => Settled(chain)
       /\ Sent => Settled(req.based)

LEMMA SettledGrown ==
  ASSUME Grown, NEW r \in Made \union {0}, Settled(r) PROVE Settled(r)'
  BY DEF Settled, Grown

LEMMA SettledStep == TypeInv /\ SettledInv /\ [Next]_vars => SettledInv'
<1>. SUFFICES ASSUME TypeInv, SettledInv, [Next]_vars PROVE SettledInv'
  OBVIOUS
<1>. USE DEF Chat
<1>0. /\ chain \in Made \union {0} /\ req.based \in Made \union {0} /\ client \in AllClients
      /\ req \in ReqType
  BY DEF TypeInv, ChainInv, ReqInv
<1>1. CASE Ask
  <2>1. /\ req' = [n |-> req.n + 1, phase |-> IF client = "websocket" THEN "lock" ELSE "create",
                   via |-> IF client = "websocket" THEN "ws" ELSE "http", based |-> Based, on |-> 0]
        /\ chain' = Based /\ Based \in {0, chain} /\ req.phase # "stream"
        /\ UNCHANGED <<client, made, ghost>>
    BY <1>1 DEF Ask, Based
  <2>2. req'.based = Based
    BY <2>1
  <2>. QED
    BY <2>1, <2>2 DEF SettledInv, Settled
<1>2. CASE Create
  <2>1. Grown /\ UNCHANGED <<client, chain, ghost>>
        /\ req.phase = "create" /\ req'.phase = "stream" /\ req'.based = req.based
    BY <1>0, <1>2, NewGrown DEF Create, TypeInv, ReqInv, chainVars, ReqType
  <2>. QED
    BY <1>0, <2>1, SettledGrown DEF SettledInv, Sent
<1>3. CASE Refused
  <2>1. chain' = 0 /\ req'.based = 0
    BY <1>0, <1>3 DEF Refused, ReqType
  <2>. QED
    BY <2>1 DEF SettledInv, Settled
<1>4. CASE CreateFails
  <2>1. /\ UNCHANGED <<client, made, chain, ghost>> /\ req.phase = "create"
        /\ req'.phase \in {"done", "failed"}
    BY <1>0, <1>4 DEF CreateFails, Goes, chainVars, ReqType
  <2>. QED
    BY <2>1 DEF SettledInv, Settled, Sent
<1>5. CASE Receive \/ ReadEvent
  <2>1. Grown /\ UNCHANGED <<client, ghost>> /\ req.phase = "stream"
    BY <1>5, HttpEvent, WsEvent DEF Reading
  <2>2. PICK e \in EventType : Comes(e)' /\ Handles(e)
    BY <1>5, HttpEvent, WsEvent
  <2>3. Chat => chain' = 0
    BY <1>0, <2>2, HandledSettles DEF SettledInv, chainVars
  <2>4. req' # req => Settled(chain)'
    BY <1>0, <2>2, <2>3, HandledSettles DEF Settled, Comes
  <2>5. Sent' => req' = req \/ req'.based = 0
    <3>1. CASE Ended
      BY <1>0, <3>1 DEF Ended, ReqType, Sent
    <3>2. CASE req' = [req EXCEPT !.phase = "lock", !.based = 0]
      BY <1>0, <3>2 DEF ReqType
    <3>. QED
      BY <2>2, <3>1, <3>2, HandledReq
  <2>6. ghost' \subseteq {"fallback"} /\ Sent' => Settled(req.based)'
    <3>1. ghost' \subseteq {"fallback"} => Settled(req.based)
      BY <2>1 DEF SettledInv, Sent
    <3>2. ghost' \subseteq {"fallback"} /\ req' = req => Settled(req.based)'
      BY <1>0, <2>1, <3>1, SettledGrown DEF Settled
    <3>. QED
      BY <2>5, <3>2 DEF Settled
  <2>. QED
    BY <2>1, <2>3, <2>4, <2>6 DEF SettledInv
<1>6. CASE SendRequest
  <2>1. Grown /\ UNCHANGED <<client, chain, ghost>>
        /\ req.phase = "lock" /\ req'.phase = "stream" /\ req'.based = req.based
    <3>1. req.phase = "lock" /\ req.n # 0 /\ UNCHANGED <<client, chain, ghost>>
          /\ made' \in {made, Append(made, NewResponse)}
      BY <1>6 DEF SendRequest, TypeInv, ReqInv, chainVars
    <3>2. req'.phase = "stream" /\ req'.based = req.based
      BY <1>0, <1>6 DEF SendRequest, Goes, ReqType
    <3>. QED
      BY <3>1, <3>2, NewGrown, SameGrown
  <2>. QED
    BY <1>0, <2>1, SettledGrown DEF SettledInv, Sent
<1>7. CASE ConnectFails \/ ReadRaises
  <2>1. Invalidate /\ req'.based = 0
    BY <1>0, <1>7 DEF ConnectFails, ReadRaises, FallsBack, ReqType
  <2>. QED
    BY <2>1 DEF Invalidate, Reset, SettledInv, Settled
<1>8. CASE Work
  <2>1. Grown /\ UNCHANGED <<client, req, chain, ghost>>
    BY <1>8, WorkEvent DEF Work, chainVars
  <2>. QED
    BY <1>0, <2>1, SettledGrown DEF SettledInv, Sent
<1>9. CASE ReadEnd
  <2>1. /\ Ended /\ UNCHANGED <<client, made, chain>> /\ ghost' = ghost \union {"cut"}
    BY <1>9 DEF ReadEnd, Settle, FinalChunk, HandCall, Goes, Ended, chainVars
  <2>. QED
    BY <2>1 DEF SettledInv
<1>10. CASE Interrupt
  <2>1. "interrupted" \in ghost' /\ chain' \in {chain, 0} /\ client' = client
    BY <1>10 DEF Interrupt, Invalidate, Reset, chainVars
  <2>. QED
    BY <2>1 DEF SettledInv
<1>11. CASE ChangeHistory
  <2>1. chain' = 0 /\ UNCHANGED <<client, req, made, ghost>>
    BY <1>11 DEF ChangeHistory, Invalidate, Reset
  <2>. QED
    BY <2>1 DEF SettledInv, Settled, Sent
<1>12. CASE Drop \/ Drain \/ Collect \/ UNCHANGED vars
  <2>1. UNCHANGED <<client, req, made, chain, ghost>>
    BY <1>12 DEF Drop, Drain, Collect, vars, chainVars
  <2>. QED
    BY <2>1 DEF SettledInv, Settled, Sent
<1>. QED
  BY <1>1, <1>2, <1>3, <1>4, <1>5, <1>6, <1>7, <1>8, <1>9, <1>10, <1>11, <1>12 DEF Next

-----------------------------------------------------------------------------
(* The websocket's client leaves it only by falling back. *)
ModeInv ==
  /\ client # "websocket" => "fallback" \notin ghost
  /\ client = "websocket" /\ "fallback" \notin ghost /\ Sent => req.via = "ws"

LEMMA ModeStep == TypeInv /\ ModeInv /\ [Next]_vars => ModeInv'
<1>. SUFFICES ASSUME TypeInv, ModeInv, [Next]_vars PROVE ModeInv'
  OBVIOUS
<1>0. req \in ReqType
  BY DEF TypeInv, ReqInv
<1>1. CASE Ask
  <2>1. /\ req' = [n |-> req.n + 1, phase |-> IF client = "websocket" THEN "lock" ELSE "create",
                   via |-> IF client = "websocket" THEN "ws" ELSE "http", based |-> Based, on |-> 0]
        /\ UNCHANGED <<client, ghost>>
    BY <1>1 DEF Ask
  <2>2. client = "websocket" => req'.via = "ws"
    BY <2>1
  <2>. QED
    BY <2>1, <2>2 DEF ModeInv
<1>2. CASE Receive \/ ReadEvent
  <2>1. UNCHANGED <<client, ghost>> /\ Sent
    BY <1>2, HttpEvent, WsEvent DEF Reading, Sent
  <2>2. PICK e \in EventType : Handles(e)
    BY <1>2, HttpEvent, WsEvent
  <2>3. req'.via = req.via
    BY <1>0, <2>2, HandledReq DEF Ended, ReqType
  <2>. QED
    BY <2>1, <2>3 DEF ModeInv
<1>3. CASE Create \/ Refused \/ SendRequest
  <2>1. UNCHANGED <<client, ghost>> /\ Sent /\ req'.via = req.via
    BY <1>0, <1>3 DEF Create, Refused, SendRequest, Goes, ReqType, Sent
  <2>. QED
    BY <2>1 DEF ModeInv
<1>4. CASE CreateFails \/ ReadEnd \/ Interrupt
  <2>1. /\ client' = client /\ ~Sent'
        /\ ghost' \in {ghost, ghost \union {"cut"}, ghost \union {"interrupted"}}
    BY <1>0, <1>4 DEF CreateFails, ReadEnd, Interrupt, Settle, FinalChunk, HandCall, Goes, ReqType, Sent
  <2>. QED
    BY <2>1 DEF ModeInv
<1>5. CASE ConnectFails \/ ReadRaises
  <2>1. client' = client /\ "fallback" \in ghost' /\ client = "websocket"
    BY <1>5, OfWebsocket DEF ConnectFails, ReadRaises, FallsBack, TypeInv
  <2>. QED
    BY <2>1 DEF ModeInv
<1>6. CASE ChangeHistory \/ Work \/ Drop \/ Drain \/ Collect \/ UNCHANGED vars
  <2>1. UNCHANGED <<client, req, ghost>>
    BY <1>6 DEF ChangeHistory, Work, Drop, Drain, Collect, vars
  <2>. QED
    BY <2>1 DEF ModeInv, Sent
<1>. QED
  BY <1>1, <1>2, <1>3, <1>4, <1>5, <1>6 DEF Next

-----------------------------------------------------------------------------
(* As long as no request is abandoned in the middle of a response, the         *)
(* websocket holds what is sent for the request that reads it, and is empty    *)
(* when none does; the end of the response is the last of it.                  *)
Own ==
  /\ ~Reading => wire = <<>> /\ jobs = <<>>
  /\ conn # "open" => jobs = <<>>
  /\ \A e \in Range(wire) : e.kind # "stale" => made[e.from].for = req.n
  /\ Len(jobs) <= 1 /\ \A r \in Range(jobs) : made[r].for = req.n
  /\ \A i \in DOMAIN wire : Terminal(wire[i]) => i = Len(wire) /\ jobs = <<>>
  /\ req.phase = "stream" /\ req.via = "http" => made[req.on].for = req.n
  /\ \A p \in Range(got) : made[p[1]].for = req.n
OwnInv == ghost \subseteq {"cut"} => Own

(* A step that changes neither the request nor what is made and sent. *)
LEMMA OwnKept ==
  ASSUME TypeInv, Own, Grown, UNCHANGED <<conn, jobs, wire>>, req'.n = req.n,
         Reading => Reading', got' = got \/ got' = <<>>,
         req'.phase = "stream" /\ req'.via = "http" =>
           \/ req'.on \in Made' /\ made'[req'.on].for = req.n
           \/ req.phase = "stream" /\ req.via = "http" /\ req'.on = req.on
  PROVE  Own'
<1>1. \A e \in Range(wire) : e.kind # "stale" => e.from \in Made
  BY DEF TypeInv, WsInv, EventFits
<1>2. Range(jobs) \subseteq Made /\ \A p \in Range(got) : p[1] \in Made
  BY DEF TypeInv, WsInv, OutInv, Counted
<1>3. \A r \in Made : made'[r].for = made[r].for
  BY DEF Grown
<1>4. Range(got') \subseteq Range(got)
  BY EmptyRange
<1>5. req'.phase = "stream" /\ req'.via = "http" => made'[req'.on].for = req'.n
  BY <1>3 DEF Own, TypeInv, ReqInv
<1>6. /\ ~Reading' => wire' = <<>> /\ jobs' = <<>>
      /\ conn' # "open" => jobs' = <<>>
      /\ \A i \in DOMAIN wire' : Terminal(wire'[i]) => i = Len(wire') /\ jobs' = <<>>
      /\ Len(jobs') <= 1
  BY DEF Own
<1>7. /\ \A e \in Range(wire') : e.kind # "stale" => made'[e.from].for = req'.n
      /\ \A r \in Range(jobs') : made'[r].for = req'.n
      /\ \A p \in Range(got') : made'[p[1]].for = req'.n
  BY <1>1, <1>2, <1>3, <1>4 DEF Own
<1>. QED
  BY <1>5, <1>6, <1>7 DEF Own, Terminal

LEMMA OwnStep == TypeInv /\ ModeInv /\ OwnInv /\ [Next]_vars => OwnInv'
<1>. SUFFICES ASSUME TypeInv, ModeInv, OwnInv, [Next]_vars, ghost' \subseteq {"cut"} PROVE Own'
  BY DEF OwnInv
<1>0. req \in ReqType /\ req.n \in 0..MaxRequests
  BY DEF TypeInv, ReqInv, ReqType
<1>1. ghost \subseteq {"cut"}
  BY DEF Next, Ask, Create, Refused, CreateFails, Receive, SendRequest, ConnectFails, Work, Drop,
         ReadEvent, ReadEnd, ReadRaises, Drain, Collect, Interrupt, ChangeHistory, FallsBack, vars
<1>2. Own
  BY <1>1 DEF OwnInv
<1>3. CASE Ask
  <2>1. /\ req'.phase \in {"lock", "create"} /\ got' = <<>> /\ ~Reading /\ UNCHANGED <<conn, jobs, wire>>
    BY <1>3 DEF Ask, Afresh, Reading, wsVars
  <2>2. wire' = <<>> /\ jobs' = <<>> /\ got' = <<>> /\ ~Reading'
    BY <1>2, <2>1 DEF Own, Reading
  <2>. QED
    BY <2>1, <2>2, EmptyRange DEF Own
<1>4. CASE Create
  <2>1. /\ req.phase = "create" /\ req.n # 0 /\ made' = Append(made, NewResponse) /\ req.via = "http"
        /\ UNCHANGED <<conn, jobs, wire, got>>
        /\ req' = [req EXCEPT !.phase = "stream", !.on = Len(made) + 1]
    BY <1>4 DEF Create, TypeInv, ReqInv, wsVars, outVars
  <2>2. /\ Grown /\ Len(made') = Len(made) + 1 /\ Len(made') \in Made'
        /\ made'[Len(made')] = NewResponse
    BY <2>1, NewGrown DEF Made
  <2>3. NewResponse.for = req.n
    BY DEF NewResponse
  <2>4. req'.n = req.n /\ req'.on = Len(made') /\ ~Reading /\ ~Reading'
    BY <1>0, <2>1, <2>2 DEF ReqType, Reading
  <2>5. req'.on \in Made' /\ made'[req'.on].for = req.n
    BY <2>2, <2>3, <2>4
  <2>6. (Reading => Reading') /\ got' = got
    BY <2>1, <2>4
  <2>. QED
    BY <1>2, <2>1, <2>2, <2>4, <2>5, <2>6, OwnKept
<1>5. CASE Refused \/ CreateFails
  <2>1. Grown /\ UNCHANGED <<conn, jobs, wire, got>> /\ req.phase = "create"
    BY <1>5, SameGrown DEF Refused, CreateFails, wsVars, outVars
  <2>2. req'.n = req.n /\ req'.phase # "stream" /\ ~Reading /\ ~Reading'
    BY <1>0, <1>5, <2>1 DEF Refused, CreateFails, Goes, ReqType, Reading
  <2>3. (Reading => Reading') /\ got' = got
    BY <2>1, <2>2
  <2>. QED
    BY <1>2, <2>1, <2>2, <2>3, OwnKept
<1>6. CASE Receive
  <2>1. /\ Grown /\ UNCHANGED <<conn, jobs, wire>> /\ ~Reading
        /\ req.phase = "stream" /\ req.via = "http" /\ req.on \in Made
    BY <1>6, HttpEvent DEF Reading, wsVars
  <2>2. PICK e \in EventType : Comes(e)' /\ Handles(e) /\ e.kind # "stale" /\ e.from = req.on
                               /\ e.piece[1] = req.on
    <3>1. PICK kind \in Events(req.on), e \in EventType :
              /\ AfterEvent(req.on, kind) /\ kind # "stale" /\ e = Event(kind, req.on)
              /\ Comes(e)' /\ Handles(e)
      BY <1>6, HttpEvent
    <3>. QED
      BY <3>1 DEF Event
  <2>3. req'.n = req.n /\ req'.via = req.via /\ req'.on = req.on /\ (req' = req \/ Ended)
    BY <1>0, <2>2, HandledReq DEF Ended, ReqType
  <2>4. ~Reading' /\ wire' = <<>> /\ jobs' = <<>>
    BY <1>2, <2>1, <2>3 DEF Reading, Own
  <2>5. made'[req.on].for = req.n /\ \A p \in Range(got) : made'[p[1]].for = req.n
    BY <1>2, <2>1 DEF Own, Grown, TypeInv, OutInv, Counted
  <2>6. \A p \in Range(got') : made'[p[1]].for = req'.n
    BY <2>2, <2>3, <2>5, HandledGot DEF TypeInv
  <2>. QED
    BY <2>3, <2>4, <2>5, <2>6, EmptyRange DEF Own
<1>7. CASE SendRequest
  <2>. DEFINE r == Len(made) + 1
              stale == [kind |-> "stale", from |-> 0, piece |-> <<0, 0>>]
  <2>1. /\ req.phase = "lock" /\ req.n # 0 /\ req.via = "ws" /\ ~Reading
        /\ conn' = "open" /\ got' = got
    BY <1>7 DEF SendRequest, TypeInv, ReqInv, outVars, Reading
  <2>2. wire = <<>> /\ jobs = <<>>
    BY <1>2, <2>1 DEF Own
  <2>3. \/ /\ made' = Append(made, NewResponse) /\ jobs' = <<r>> /\ wire' = <<>>
           /\ req' = [req EXCEPT !.phase = "stream", !.on = r]
        \/ /\ wire' = <<stale>> /\ made' = made /\ jobs' = <<>>
           /\ req' = [req EXCEPT !.phase = "stream"]
    BY <1>7, <2>2 DEF SendRequest, Goes
  <2>4. Grown
    BY <2>1, <2>3, NewGrown, SameGrown
  <2>5. req'.n = req.n /\ req'.phase = "stream" /\ req'.via = "ws" /\ Reading'
    BY <1>0, <2>1, <2>3 DEF ReqType, Reading
  <2>6. \A p \in Range(got') : made'[p[1]].for = req'.n
    BY <1>2, <2>1, <2>4, <2>5 DEF Own, Grown, TypeInv, OutInv, Counted
  <2>7. CASE made' = Append(made, NewResponse) /\ jobs' = <<r>> /\ wire' = <<>>
    <3>1. Range(jobs') = {r} /\ Range(wire') = {} /\ Len(jobs') = 1
      BY <2>7, EmptyRange, RangeOfOne
    <3>2. made'[r].for = req.n
      BY <2>1, <2>7, NewGrown DEF NewResponse
    <3>3. DOMAIN wire' = {}
      BY <2>7
    <3>4. \A i \in DOMAIN wire' : Terminal(wire'[i]) => i = Len(wire') /\ jobs' = <<>>
      BY <3>3
    <3>5. /\ \A q \in Range(wire') : q.kind # "stale" => made'[q.from].for = req'.n
          /\ \A q \in Range(jobs') : made'[q].for = req'.n
          /\ Len(jobs') <= 1
      BY <2>5, <3>1, <3>2
    <3>. QED
      BY <2>1, <2>5, <2>6, <3>4, <3>5 DEF Own, Terminal
  <2>8. CASE wire' = <<stale>> /\ jobs' = <<>>
    <3>1. Range(jobs') = {} /\ Range(wire') = {stale} /\ Len(jobs') = 0 /\ Len(wire') = 1
          /\ DOMAIN wire' = {1}
      BY <2>8, EmptyRange, RangeOfOne
    <3>. QED
      BY <2>1, <2>5, <2>6, <2>8, <3>1 DEF Own
  <2>. QED
    BY <2>3, <2>7, <2>8
<1>8. CASE ConnectFails \/ ReadRaises \/ Interrupt
  BY <1>8 DEF ConnectFails, ReadRaises, Interrupt, FallsBack
<1>9. CASE Work
  <2>1. /\ Grown /\ jobs # <<>> /\ UNCHANGED <<req, got, conn>> /\ conn = "open"
    BY <1>9, WorkEvent DEF Work, outVars
  <2>2. PICK r \in Made, e \in EventType :
          /\ r = Head(jobs) /\ e.from = r /\ EventFits(e)'
          /\ wire' = Append(wire, e)
          /\ jobs' = IF Terminal(e) THEN Tail(jobs) ELSE jobs
    BY <1>9, WorkEvent
  <2>3. /\ jobs \in Seq(Nat) /\ wire \in Seq(EventType) /\ Range(jobs) \subseteq Made
        /\ \A q \in Range(wire) : q.kind # "stale" => q.from \in Made
        /\ \A p \in Range(got) : p[1] \in Made
    BY DEF TypeInv, WsInv, EventFits, OutInv, Counted
  <2>4. /\ Len(jobs) = 1 /\ Tail(jobs) = <<>> /\ Reading /\ r \in Range(jobs)
        /\ \A i \in DOMAIN wire : ~Terminal(wire[i])
    <3>1. Len(jobs) \in Nat \ {0} /\ Tail(jobs) \in Seq(Nat) /\ r \in Range(jobs)
      BY <2>1, <2>2, <2>3, RangeShortened
    <3>2. Len(jobs) <= 1
      BY <1>2 DEF Own
    <3>3. Len(jobs) = 1
      <4>1. \A n \in Nat \ {0} : n <= 1 => n = 1
        OBVIOUS
      <4>. QED
        BY <3>1, <3>2, <4>1, Zenon
    <3>4. Tail(jobs) = <<>>
      BY <2>3, <3>3, LastOfOne
    <3>. QED
      BY <1>2, <2>1, <3>1, <3>3, <3>4 DEF Own
  <2>5. made[r].for = req.n /\ \A q \in Made : made'[q].for = made[q].for
    BY <1>2, <2>1, <2>4 DEF Own, Grown
  <2>6. Range(wire') = Range(wire) \union {e} /\ Len(wire') = Len(wire) + 1
        /\ DOMAIN wire' = 1..(Len(wire) + 1) /\ DOMAIN wire = 1..Len(wire) /\ Len(wire) \in Nat
        /\ \A i \in DOMAIN wire : wire'[i] = wire[i]
        /\ wire'[Len(wire) + 1] = e
    BY <2>2, <2>3, RangeAppended
  <2>7. Range(jobs') \subseteq Range(jobs) /\ Len(jobs') <= 1
    <3>1. CASE Terminal(e)
      <4>1. jobs' = <<>>
        BY <2>2, <2>4, <3>1
      <4>2. Range(jobs') = {} /\ Len(jobs') = 0
        BY <4>1, EmptyRange
      <4>. QED
        BY <4>2
    <3>2. CASE ~Terminal(e)
      BY <2>2, <2>4, <3>2
    <3>. QED
      BY <3>1, <3>2
  <2>8. \A i \in DOMAIN wire' : Terminal(wire'[i]) => i = Len(wire') /\ jobs' = <<>>
    <3>. TAKE i \in DOMAIN wire'
    <3>1. CASE i \in DOMAIN wire
      BY <2>4, <2>6, <3>1 DEF Terminal
    <3>2. CASE i = Len(wire) + 1
      BY <2>2, <2>4, <2>6, <3>2 DEF Terminal
    <3>. QED
      BY <2>6, <3>1, <3>2
  <2>9. /\ \A q \in Range(wire') : q.kind # "stale" => made'[q.from].for = req'.n
        /\ \A q \in Range(jobs') : made'[q].for = req'.n
        /\ \A p \in Range(got') : made'[p[1]].for = req'.n
    BY <1>2, <2>1, <2>2, <2>3, <2>5, <2>6, <2>7 DEF Own
  <2>10. Reading' /\ req'.via = "ws"
    BY <2>1, <2>4 DEF Reading
  <2>. QED
    BY <2>1, <2>7, <2>8, <2>9, <2>10 DEF Own, Terminal
<1>10. CASE Drop
  <2>1. /\ jobs' = <<>> /\ UNCHANGED <<req, made, got, wire>>
    BY <1>10 DEF Drop, outVars
  <2>. QED
    BY <1>2, <2>1, EmptyRange DEF Own, Reading, Terminal
<1>11. CASE ReadEvent
  <2>1. /\ UNCHANGED <<made, conn, jobs>> /\ Reading /\ wire # <<>> /\ wire' = Tail(wire)
        /\ client = "websocket"
    BY <1>11, WsEvent
  <2>2. PICK e \in EventType : e = Head(wire) /\ e \in Range(wire) /\ EventFits(e) /\ Handles(e)
    BY <1>11, WsEvent
  <2>3. /\ wire \in Seq(EventType) /\ e = wire[1] /\ Len(wire) \in Nat \ {0} /\ 1 \in DOMAIN wire
        /\ Range(wire) = Range(wire') \union {e}
        /\ DOMAIN wire = 1..Len(wire) /\ DOMAIN wire' = 1..(Len(wire) - 1)
        /\ Len(wire') = Len(wire) - 1
        /\ \A i \in DOMAIN wire' : i + 1 \in DOMAIN wire /\ wire'[i] = wire[i + 1]
    <3>1. wire \in Seq(EventType)
      BY DEF TypeInv, WsInv
    <3>2. Len(Tail(wire)) = Len(wire) - 1
      BY <2>1, <3>1
    <3>. QED
      BY <2>1, <2>2, <3>1, <3>2, RangeShortened
  <2>4. req'.n = req.n /\ req'.via = "ws"
    BY <1>0, <2>1, <2>2, HandledReq DEF Ended, ReqType, Reading
  <2>5. req' = req \/ Terminal(e)
    BY <2>1, <2>2, HandledEnds
  <2>6. ~Reading' => wire' = <<>> /\ jobs' = <<>>
    <3>. SUFFICES ASSUME ~Reading' PROVE wire' = <<>> /\ jobs' = <<>>
      OBVIOUS
    <3>1. Terminal(e)
      BY <2>1, <2>5 DEF Reading
    <3>2. Len(wire) = 1 /\ jobs = <<>>
      BY <1>2, <2>3, <3>1 DEF Own
    <3>3. Tail(wire) = <<>>
      BY <2>3, <3>2, LastOfOne
    <3>. QED
      BY <2>1, <3>2, <3>3
  <2>7. \A i \in DOMAIN wire' : Terminal(wire'[i]) => i = Len(wire') /\ jobs' = <<>>
    <3>. SUFFICES ASSUME NEW i \in DOMAIN wire', Terminal(wire'[i]) PROVE i = Len(wire') /\ jobs' = <<>>
      BY DEF Terminal
    <3>1. Terminal(wire[i + 1]) /\ i + 1 \in DOMAIN wire
      BY <2>3 DEF Terminal
    <3>2. i + 1 = Len(wire) /\ jobs = <<>>
      BY <1>2, <3>1 DEF Own
    <3>. QED
      BY <2>1, <2>3, <3>2
  <2>8. \A p \in Range(got') : made'[p[1]].for = req'.n
    <3>1. e.kind \in {"text", "open"} => made[e.piece[1]].for = req.n
      BY <1>2, <2>2 DEF Own, EventFits
    <3>. QED
      BY <1>2, <2>1, <2>2, <2>4, <3>1, HandledGot DEF Own, TypeInv
  <2>9. /\ \A q \in Range(wire') : q.kind # "stale" => made'[q.from].for = req'.n
        /\ Len(jobs') <= 1 /\ \A q \in Range(jobs') : made'[q].for = req'.n
        /\ conn' # "open" => jobs' = <<>>
    BY <1>2, <2>1, <2>3, <2>4 DEF Own
  <2>. QED
    BY <2>4, <2>6, <2>7, <2>8, <2>9 DEF Own, Terminal
<1>12. CASE ReadEnd
  <2>1. /\ Reading /\ wire = <<>> /\ conn = "closed" /\ Settle
        /\ UNCHANGED <<made, conn, jobs, wire>>
    BY <1>12 DEF ReadEnd, wsVars
  <2>2. req'.n = req.n /\ got' = got /\ req'.phase # "stream"
    BY <1>0, <2>1 DEF Settle, FinalChunk, HandCall, Goes, ReqType
  <2>3. jobs = <<>>
    BY <1>2, <2>1 DEF Own
  <2>. QED
    BY <1>2, <2>1, <2>2, <2>3, EmptyRange DEF Own
<1>13. CASE Drain
  <2>1. UNCHANGED <<req, made, got, conn, jobs>>
    BY <1>13 DEF Drain, outVars
  <2>2. UNCHANGED wire
    BY <1>2, <1>13 DEF Drain, Own
  <2>. QED
    BY <1>2, <2>1, <2>2 DEF Own, Reading, Terminal
<1>14. CASE Collect \/ ChangeHistory \/ UNCHANGED vars
  <2>1. UNCHANGED <<req, made, got, conn, jobs, wire>>
    BY <1>14 DEF Collect, ChangeHistory, vars, outVars, wsVars
  <2>. QED
    BY <1>2, <2>1 DEF Own, Reading, Terminal
<1>. QED
  BY <1>3, <1>4, <1>5, <1>6, <1>7, <1>8, <1>9, <1>10, <1>11, <1>12, <1>13, <1>14 DEF Next

(* As long as no request was abandoned, by the task or for HTTP, what a        *)
(* request says, or is about to say, is of a response made for it.             *)
THEOREM AnswersAreOwn == Spec => []OwnAnswer
<1>1. Init => ModeInv /\ OwnInv
  <2>. SUFFICES ASSUME Init PROVE ModeInv /\ Own
    BY DEF OwnInv
  <2>1. /\ ghost = {} /\ req.phase = "idle" /\ wire = <<>> /\ jobs = <<>> /\ got = <<>>
    BY DEF Init
  <2>. QED
    BY <2>1, EmptyRange DEF ModeInv, Sent, Own, Reading
<1>2. TypeInv /\ OwnInv => OwnAnswer
  BY DEF TypeInv, OutInv, OwnInv, Own, OwnAnswer
<1>3. TypeInv /\ ModeInv /\ OwnInv /\ [Next]_vars => ModeInv' /\ OwnInv'
  BY ModeStep, OwnStep
<1>. QED
  BY <1>1, <1>2, <1>3, TypeInvKept, PTL DEF Spec

-----------------------------------------------------------------------------
(* Unless a request was made again over HTTP, it has one response at most, and *)
(* none before it is sent.                                                     *)
Starting == req.phase \in {"lock", "create"} /\ ~Deadlocked
OneInv ==
  /\ \A r \in Made : made[r].for <= req.n
  /\ "fallback" \notin ghost =>
       \A r \in Made : made[r].for = req.n => ~Starting /\ (req.phase = "stream" => r = req.on)

(* A step that makes no response, and sends none. *)
LEMMA OneKept ==
  ASSUME OneInv, Grown, Len(made') = Len(made), req'.n = req.n,
         "fallback" \in ghost => "fallback" \in ghost', Starting' => Starting,
         req'.phase = "stream" => req.phase = "stream" /\ req'.on = req.on
  PROVE  OneInv'
<1>1. Made' = Made /\ \A r \in Made : made'[r].for = made[r].for
  BY DEF Grown, Made
<1>. QED
  BY <1>1 DEF OneInv

(* A step that sends the request. *)
LEMMA OneSent ==
  ASSUME TypeInv, OneInv, Starting, req'.n = req.n, req.n # 0,
         "fallback" \in ghost => "fallback" \in ghost',
         \/ made' = made
         \/ made' = Append(made, NewResponse) /\ req'.on = Len(made) + 1,
         req'.phase = "stream"
  PROVE  OneInv'
<1>0. ~Starting' /\ req.n \in Nat
  BY BoundsAssumption DEF Starting, TypeInv, ReqInv, ReqType
<1>1. CASE made' = made
  BY <1>0, <1>1 DEF OneInv, Made
<1>2. CASE made' = Append(made, NewResponse) /\ req'.on = Len(made) + 1
  <2>0. NewResponse.for = req.n
    BY DEF NewResponse
  <2>1. /\ Len(made') = Len(made) + 1 /\ Len(made) \in Nat /\ made'[Len(made')].for = req.n
        /\ \A r \in Made : made'[r] = made[r]
    <3>1. /\ Grown /\ Len(made') = Len(made) + 1 /\ made'[Len(made')] = NewResponse
          /\ \A r \in Made : made'[r] = made[r]
      BY <1>2, NewGrown
    <3>. QED
      BY <2>0, <3>1 DEF Grown
  <2>2. ASSUME NEW r \in 1..Len(made')
        PROVE /\ made'[r].for <= req.n
              /\ "fallback" \notin ghost /\ made'[r].for = req.n => r = Len(made')
    <3>1. CASE r \in Made
      BY <2>1, <3>1 DEF OneInv
    <3>2. CASE r = Len(made')
      BY <1>0, <2>1, <3>2
    <3>. QED
      BY <2>1, <3>1, <3>2 DEF Made
  <2>. QED
    BY <1>0, <1>2, <2>1, <2>2 DEF OneInv, Made
<1>. QED
  BY <1>1, <1>2

LEMMA OneStep == TypeInv /\ OneInv /\ [Next]_vars => OneInv'
<1>. SUFFICES ASSUME TypeInv, OneInv, [Next]_vars PROVE OneInv'
  OBVIOUS
<1>0. req \in ReqType /\ req.n \in Nat
  BY BoundsAssumption DEF TypeInv, ReqInv, ReqType
<1>1. CASE Ask
  <2>1. /\ req' = [n |-> req.n + 1, phase |-> IF client = "websocket" THEN "lock" ELSE "create",
                   via |-> IF client = "websocket" THEN "ws" ELSE "http", based |-> Based, on |-> 0]
        /\ made' = made
    BY <1>1 DEF Ask
  <2>2. req'.n = req.n + 1
    BY <2>1
  <2>3. ASSUME NEW r \in Made PROVE made[r].for <= req'.n /\ made[r].for # req'.n
    <3>1. made[r].for \in Nat /\ made[r].for <= req.n
      <4>1. made[r] \in ResponseType
        BY DEF TypeInv, MadeInv, Made
      <4>. QED
        BY <4>1, BoundsAssumption DEF ResponseType, OneInv
    <3>. QED
      BY <1>0, <2>2, <3>1
  <2>. QED
    BY <2>1, <2>3 DEF OneInv, Made
<1>2. CASE Create
  <2>1. /\ req' = [req EXCEPT !.phase = "stream", !.on = Len(made) + 1]
        /\ made' = Append(made, NewResponse) /\ req.phase = "create" /\ UNCHANGED ghost /\ req.n # 0
    BY <1>2 DEF Create, TypeInv, ReqInv
  <2>2. req'.n = req.n /\ req'.on = Len(made) + 1 /\ req'.phase = "stream" /\ Starting
    BY <1>0, <2>1 DEF ReqType, Starting, Deadlocked
  <2>. QED
    BY <2>1, <2>2, OneSent
<1>3. CASE SendRequest
  <2>1. /\ \/ made' = Append(made, NewResponse) /\ req' = [req EXCEPT !.phase = "stream", !.on = Len(made) + 1]
           \/ made' = made /\ req' = [req EXCEPT !.phase = "stream"]
        /\ req.phase = "lock" /\ lock = 0 /\ UNCHANGED ghost /\ req.n # 0
    BY <1>3 DEF SendRequest, Acquire, Goes, TypeInv, ReqInv
  <2>2. Starting
    BY <1>0, <2>1 DEF Starting, Deadlocked
  <2>3. req'.n = req.n /\ req'.phase = "stream" /\ (made' = made \/ req'.on = Len(made) + 1)
    BY <1>0, <2>1 DEF ReqType
  <2>. QED
    BY <2>1, <2>2, <2>3, OneSent
<1>4. CASE Refused \/ CreateFails
  <2>1. UNCHANGED <<made, ghost>> /\ req.phase = "create"
    BY <1>4 DEF Refused, CreateFails
  <2>2. req'.n = req.n /\ req'.phase # "stream"
    BY <1>0, <1>4, <2>1 DEF Refused, CreateFails, Goes, ReqType
  <2>. QED
    BY <2>1, <2>2, OneKept, SameGrown DEF Starting, Deadlocked
<1>5. CASE Receive \/ ReadEvent
  <2>1. Grown /\ Len(made') = Len(made) /\ UNCHANGED <<ghost, lock>>
    BY <1>5, HttpEvent, WsEvent
  <2>2. /\ req'.n = req.n /\ (Starting' => Starting)
        /\ req'.phase = "stream" => req.phase = "stream" /\ req'.on = req.on
    <3>1. CASE req' = req
      BY <2>1, <3>1 DEF Starting, Deadlocked
    <3>2. CASE Ended
      BY <1>0, <3>2 DEF Ended, ReqType, Starting
    <3>3. CASE ReadEvent /\ req' = [req EXCEPT !.phase = "lock", !.based = 0]
      <4>1. lock' = req.n
        BY <2>1, <3>3, WsEvent DEF TypeInv, LockInv
      <4>2. req'.n = req.n /\ req'.phase = "lock"
        BY <1>0, <3>3 DEF ReqType
      <4>. QED
        BY <4>1, <4>2 DEF Starting, Deadlocked
    <3>4. PICK e \in EventType : Handles(e) /\ (Receive => e.kind # "stale")
      <4>1. CASE Receive
        <5>1. PICK kind \in Events(req.on), e \in EventType :
                 kind # "stale" /\ e = Event(kind, req.on) /\ Handles(e)
          BY <4>1, HttpEvent
        <5>. QED
          BY <5>1 DEF Event
      <4>2. CASE ReadEvent
        <5>1. UNCHANGED made /\ client = "websocket" /\ req.via = "ws"
          BY <4>2, WsEvent DEF Reading
        <5>2. ~Receive
          BY <5>1 DEF Receive
        <5>. QED
          BY <4>2, <5>2, WsEvent
      <4>. QED
        BY <1>5, <4>1, <4>2
    <3>. QED
      BY <1>5, <3>1, <3>2, <3>3, <3>4, HandledReq
  <2>. QED
    BY <2>1, <2>2, OneKept
<1>6. CASE ConnectFails \/ ReadRaises
  <2>1. made' = made /\ "fallback" \in ghost'
    BY <1>6 DEF ConnectFails, ReadRaises, FallsBack
  <2>2. req'.n = req.n
    BY <1>0, <1>6 DEF ConnectFails, ReadRaises, FallsBack, ReqType
  <2>. QED
    BY <2>1, <2>2 DEF OneInv, Made
<1>7. CASE Work
  <2>1. Grown /\ Len(made') = Len(made) /\ UNCHANGED <<ghost, lock, req>>
    BY <1>7, WorkEvent DEF Work
  <2>. QED
    BY <2>1, OneKept DEF Starting, Deadlocked
<1>8. CASE ReadEnd \/ Interrupt
  <2>1. made' = made /\ ("fallback" \in ghost => "fallback" \in ghost')
    BY <1>8 DEF ReadEnd, Interrupt
  <2>2. req'.n = req.n /\ req'.phase \in {"idle", "done", "called"}
    BY <1>0, <1>8 DEF ReadEnd, Interrupt, Settle, FinalChunk, HandCall, Goes, ReqType
  <2>. QED
    BY <2>1, <2>2, OneKept, SameGrown DEF Starting
<1>9. CASE Collect
  <2>1. UNCHANGED <<req, made, ghost>> /\ lock # 0 /\ ~HoldsLock
    BY <1>9 DEF Collect
  <2>2. Starting' => Starting
    BY <2>1 DEF Starting, Deadlocked, HoldsLock, TypeInv, ReqInv
  <2>. QED
    BY <2>1, <2>2, OneKept, SameGrown
<1>10. CASE Drop \/ Drain \/ ChangeHistory \/ UNCHANGED vars
  <2>1. UNCHANGED <<req, made, ghost, lock>>
    BY <1>10 DEF Drop, Drain, ChangeHistory, vars
  <2>. QED
    BY <2>1, OneKept, SameGrown DEF Starting, Deadlocked
<1>. QED
  BY <1>1, <1>2, <1>3, <1>4, <1>5, <1>6, <1>7, <1>8, <1>9, <1>10 DEF Next

-----------------------------------------------------------------------------
(* As long as nothing is disturbed, the calls of a response are known when it  *)
(* is continued, and answered; those of the response that is being read are    *)
(* known or on the websocket.                                                  *)
OnWire(r) == \E i \in DOMAIN wire : wire[i].kind = "call" /\ wire[i].from = r
Known ==
  /\ req.phase # "stream" /\ chain # 0 /\ made[chain].called => chain \in pending
  /\ Sent /\ req.based # 0 /\ made[req.based].called => req.based \in results
  /\ client = "responses" /\ req.phase = "stream" /\ made[req.on].called => req.on \in calls
  /\ Reading => \A r \in Made : made[r].for = req.n /\ made[r].called => r \in calls \/ OnWire(r)
CalledInv == ghost = {} => Known

(* While a request goes on, its calls are kept. *)
LEMMA HandledKeeps ==
  ASSUME NEW e, Handles(e), req.phase = "stream", req \in ReqType, req'.phase = "stream"
  PROVE  /\ req' = req /\ calls \subseteq calls' /\ results \subseteq results'
         /\ e.kind = "call" => e.from \in calls'
<1>1. req' = req
  BY HandledReq DEF Ended, ReqType
<1>2. CASE OpenaiHandles(e)
  <2>1. ~OpenaiChatEnds
    BY DEF OpenaiChatEnds, Rescue, Settle, FinalChunk, HandCall, Goes, ReqType
  <2>. QED
    BY <1>1, <1>2, <2>1 DEF OpenaiHandles, TakeText, TakeCall, TakeOpening, TakeToolText
<1>3. CASE LitellmHandles(e)
  <2>1. ~LitellmChatEnds
    BY DEF LitellmChatEnds, FinalText, FinalChunk, HandCall, Goes, ReqType
  <2>. QED
    BY <1>1, <1>3, <2>1 DEF LitellmHandles, TakeText, TakeCall
<1>4. CASE GeminiHandles(e)
  <2>1. ~GeminiChatEnds
    BY DEF GeminiChatEnds, FinalText, FinalChunk, Goes, ReqType
  <2>. QED
    BY <1>1, <1>4, <2>1 DEF GeminiHandles, TakeText, GeminiCall, Goes, ReqType
<1>5. CASE ChainHandles(e)
  <2>1. ~Settle /\ ~Fails /\ ~Stale
    BY DEF Settle, Fails, Stale, FinalChunk, HandCall, Goes, ReqType
  <2>. QED
    BY <1>1, <1>5, <2>1
       DEF ChainHandles, Completes, Incomplete, TakesId, TakeText, TakeCall, outVars
<1>. QED
  BY <1>1, <1>2, <1>3, <1>4, <1>5 DEF Handles

(* A step of the provider touches no response that is continued. *)
LEMMA ContinuedKept ==
  ASSUME TypeInv, SettledInv, ghost = {}, NEW q \in Made, made[q].state \in {"new", "open"},
         \A r \in Made : r # q => made'[r] = made[r]
  PROVE  /\ req.phase # "stream" /\ chain # 0 => made'[chain] = made[chain]
         /\ Sent /\ req.based # 0 => made'[req.based] = made[req.based]
<1>1. chain \in Made \union {0} /\ req.based \in Made \union {0}
  BY DEF TypeInv, ChainInv, ReqInv
<1>2. /\ req.phase # "stream" /\ chain # 0 => made[chain].state = "completed"
      /\ Sent /\ req.based # 0 => made[req.based].state = "completed"
  BY DEF SettledInv, Settled
<1>. QED
  BY <1>1, <1>2

LEMMA KnownSame ==
  ASSUME Known, UNCHANGED <<client, req, made, chain, pending, results, calls, wire>>
  PROVE  Known'
  BY DEF Known, Sent, Reading, OnWire, Made

LEMMA CalledStep ==
  TypeInv /\ ModeInv /\ SettledInv /\ OwnInv /\ OneInv /\ CalledInv /\ [Next]_vars => CalledInv'
<1>. SUFFICES ASSUME TypeInv, ModeInv, SettledInv, OwnInv, OneInv, CalledInv, [Next]_vars,
                     ghost' = {}
     PROVE  Known'
  BY DEF CalledInv
<1>0. /\ req \in ReqType /\ req.n \in Nat /\ client \in AllClients
      /\ chain \in Made \union {0} /\ req.based \in Made \union {0}
  BY BoundsAssumption DEF TypeInv, ReqInv, ReqType, ChainInv
<1>1. ghost = {}
  BY DEF Next, Ask, Create, Refused, CreateFails, Receive, SendRequest, ConnectFails, Work, Drop,
         ReadEvent, ReadEnd, ReadRaises, Drain, Collect, Interrupt, ChangeHistory, FallsBack, vars
<1>2. Known /\ Own
  BY <1>1 DEF CalledInv, OwnInv
<1>3. CASE Ask
  <2>1. /\ req' = [n |-> req.n + 1, phase |-> IF client = "websocket" THEN "lock" ELSE "create",
                   via |-> IF client = "websocket" THEN "ws" ELSE "http", based |-> Based, on |-> 0]
        /\ chain' = Based /\ req.phase # "stream"
        /\ UNCHANGED <<client, made, pending, results>>
    BY <1>3 DEF Ask
  <2>2. req'.based = Based /\ req'.phase \in {"lock", "create"}
    BY <2>1
  <2>3. Based # 0 => Based = chain /\ pending \subseteq results
    BY DEF Based, Unanswered
  <2>. QED
    BY <1>2, <2>1, <2>2, <2>3 DEF Known, Reading
<1>4. CASE Create
  <2>1. /\ req' = [req EXCEPT !.phase = "stream", !.on = Len(made) + 1]
        /\ made' = Append(made, NewResponse) /\ req.phase = "create" /\ req.n # 0
        /\ UNCHANGED <<client, results>> /\ req.via = "http"
    BY <1>4 DEF Create, TypeInv, ReqInv
  <2>2. /\ req'.on = Len(made') /\ req'.phase = "stream" /\ req'.based = req.based
        /\ req'.via = "http"
    <3>1. Len(made') = Len(made) + 1
      BY <2>1, NewGrown
    <3>. QED
      BY <1>0, <2>1, <3>1 DEF ReqType
  <2>3. made'[req'.on] = NewResponse /\ \A r \in Made : made'[r] = made[r]
    BY <2>1, <2>2, NewGrown
  <2>4. ~NewResponse.called
    BY DEF NewResponse
  <2>5. req'.based # 0 /\ made'[req'.based].called => req'.based \in results'
    <3>1. req.based # 0 => made'[req.based] = made[req.based]
      BY <1>0, <2>3
    <3>2. Sent /\ results' = results
      BY <2>1 DEF Sent
    <3>3. req.based # 0 /\ made[req.based].called => req.based \in results
      BY <1>2, <3>2 DEF Known
    <3>4. req'.based = req.based
      BY <2>2
    <3>. QED
      BY <3>1, <3>2, <3>3, <3>4
  <2>6. ~made'[req'.on].called
    BY <2>3, <2>4
  <2>. QED
    BY <2>2, <2>5, <2>6 DEF Known, Reading
<1>5. CASE Refused
  <2>1. chain' = 0 /\ req'.based = 0 /\ req'.phase = "create"
    BY <1>0, <1>5 DEF Refused, ReqType
  <2>. QED
    BY <2>1 DEF Known, Reading
<1>6. CASE CreateFails
  <2>1. /\ req.phase = "create" /\ req'.phase \in {"done", "failed"}
        /\ UNCHANGED <<client, made, chain, pending>>
    BY <1>0, <1>6 DEF CreateFails, Goes, ReqType, chainVars
  <2>. QED
    BY <1>2, <2>1 DEF Known, Reading, Sent
<1>7. CASE Receive
  <2>1. /\ req.phase = "stream" /\ req.via = "http" /\ req.on \in Made
        /\ UNCHANGED <<client, ghost>>
    BY <1>7, HttpEvent
  <2>2. PICK kind \in Events(req.on), e \in EventType :
          /\ AfterEvent(req.on, kind) /\ kind # "stale" /\ e = Event(kind, req.on)
          /\ Comes(e)' /\ Handles(e)
    BY <1>7, HttpEvent
  <2>3. PICK r \in Made : r = req.on
    BY <2>1
  <2>4. /\ made[r].state \in {"new", "open"} /\ e.kind = kind /\ e.from = r
        /\ made'[r].called = (made[r].called \/ kind = "call")
        /\ \A q \in Made : q # r => made'[q] = made[q]
    BY <2>2, <2>3, EventGrown
  <2>5. /\ req.phase # "stream" /\ chain # 0 => made'[chain] = made[chain]
        /\ Sent /\ req.based # 0 => made'[req.based] = made[req.based]
    BY <1>1, <2>4, ContinuedKept
  <2>6. client # "websocket"
    BY <1>1, <2>1 DEF ModeInv, Sent
  <2>7. req'.via = req.via /\ req'.on = req.on /\ (req' = req \/ Ended)
    BY <1>0, <2>6, <2>2, HandledReq DEF Ended, ReqType
  <2>8. CASE Ended
    <3>1. ~Sent' /\ req'.phase # "stream"
      BY <1>0, <2>8 DEF Ended, ReqType, Sent
    <3>2. chain' # 0 /\ made'[chain'].called => chain' \in pending'
      <4>1. CASE Chat
        BY <1>0, <2>2, <4>1, HandledSettles DEF SettledInv, chainVars
      <4>2. CASE ~Chat
        <5>1. req' # req
          BY <1>0, <2>1, <3>1
        <5>2. CASE e.kind = "completed" /\ chain' = e.from /\ pending' = calls
          <6>1. client = "responses"
            BY <1>0, <2>6, <4>2 DEF Chat, AllClients
          <6>2. made'[r].called => r \in calls
            BY <1>2, <2>1, <2>3, <2>4, <5>2, <6>1 DEF Known
          <6>. QED
            BY <2>4, <5>2, <6>2
        <5>. QED
          BY <1>0, <2>2, <4>2, <5>1, <5>2, HandledSettles
      <4>. QED
        BY <4>1, <4>2
    <3>. QED
      BY <3>1, <3>2 DEF Known, Reading
  <2>9. CASE req' = req
    <3>1. results \subseteq results' /\ calls \subseteq calls' /\ (e.kind = "call" => e.from \in calls')
      BY <1>0, <2>1, <2>2, <2>9, HandledKeeps
    <3>2. Sent' /\ req'.based # 0 /\ made'[req'.based].called => req'.based \in results'
      BY <1>2, <2>1, <2>5, <2>9, <3>1 DEF Known, Sent
    <3>3. client' = "responses" /\ made'[req'.on].called => req'.on \in calls'
      BY <1>2, <2>1, <2>3, <2>4, <2>9, <3>1 DEF Known
    <3>. QED
      BY <2>1, <2>9, <3>2, <3>3 DEF Known, Reading
  <2>. QED
    BY <2>7, <2>8, <2>9
<1>8. CASE SendRequest
  <2>1. /\ req.phase = "lock" /\ req.via = "ws" /\ lock = 0 /\ req.n # 0
        /\ UNCHANGED <<client, results>> /\ client = "websocket"
        /\ \/ made' = Append(made, NewResponse) /\ req' = [req EXCEPT !.phase = "stream", !.on = Len(made) + 1]
           \/ made' = made /\ req' = [req EXCEPT !.phase = "stream"]
    BY <1>8 DEF SendRequest, Acquire, Goes, TypeInv, ReqInv
  <2>2. /\ req'.phase = "stream" /\ req'.based = req.based /\ req'.n = req.n
    BY <1>0, <2>1 DEF ReqType
  <2>3. \A r \in Made : made[r].for # req.n
    BY <1>0, <1>1, <2>1 DEF OneInv, Starting, Deadlocked
  <2>4. Grown /\ \A r \in Made : made'[r] = made[r]
    BY <2>1, NewGrown, SameGrown
  <2>5. ASSUME NEW r \in Made' PROVE ~(made'[r].for = req.n /\ made'[r].called)
    <3>1. CASE r \in Made
      BY <2>3, <2>4, <3>1
    <3>2. CASE r \notin Made
      <4>1. made' = Append(made, NewResponse)
        BY <2>1, <3>2 DEF Made
      <4>2. /\ Len(made') = Len(made) + 1 /\ made'[Len(made')] = NewResponse /\ Len(made) \in Nat
        BY <2>1, <4>1, NewGrown DEF Grown
      <4>3. r = Len(made')
        BY <3>2, <4>2 DEF Made
      <4>4. ~NewResponse.called
        BY DEF NewResponse
      <4>. QED
        BY <4>2, <4>3, <4>4
    <3>. QED
      BY <3>1, <3>2
  <2>6. req'.based # 0 /\ made'[req'.based].called => req'.based \in results'
    BY <1>0, <1>2, <2>1, <2>2, <2>4 DEF Known, Sent
  <2>. QED
    BY <2>1, <2>2, <2>5, <2>6 DEF Known
<1>9. CASE Work
  <2>1. UNCHANGED <<client, req, chain, pending, results, calls>> /\ conn = "open"
    BY <1>9 DEF Work, chainVars, outVars
  <2>2. PICK r \in Made : \E kind \in Events(r), e \in EventType :
          /\ r = Head(jobs) /\ e = Event(kind, r) /\ e.kind = kind /\ e.from = r
          /\ AfterEvent(r, kind) /\ wire' = Append(wire, e)
    BY <1>9, WorkEvent
  <2>3. PICK kind \in Events(r), e \in EventType :
          e.kind = kind /\ e.from = r /\ AfterEvent(r, kind) /\ wire' = Append(wire, e)
    BY <2>2
  <2>4. /\ Len(made') = Len(made) /\ made[r].state \in {"new", "open"}
        /\ made'[r].called = (made[r].called \/ kind = "call")
        /\ Grown /\ \A q \in Made : q # r => made'[q] = made[q]
    BY <2>3, EventGrown
  <2>5. /\ req.phase # "stream" /\ chain # 0 => made'[chain] = made[chain]
        /\ Sent /\ req.based # 0 => made'[req.based] = made[req.based]
    BY <1>1, <2>4, ContinuedKept
  <2>6. client = "websocket"
    BY <1>9 DEF Work, TypeInv, WsInv
  <2>7. /\ wire \in Seq(EventType) /\ DOMAIN wire = 1..Len(wire) /\ Len(wire) \in Nat
        /\ DOMAIN wire' = 1..(Len(wire) + 1) /\ wire'[Len(wire) + 1] = e
        /\ \A i \in DOMAIN wire : wire'[i] = wire[i]
    <3>1. wire \in Seq(EventType)
      BY DEF TypeInv, WsInv
    <3>. QED
      BY <2>3, <3>1
  <2>8. ASSUME NEW q \in Made, OnWire(q) PROVE OnWire(q)'
    BY <2>7, <2>8 DEF OnWire
  <2>9. kind = "call" => OnWire(r)'
    BY <2>3, <2>7 DEF OnWire
  <2>10. ASSUME Reading', NEW q \in Made, made'[q].for = req.n, made'[q].called
         PROVE  q \in calls \/ OnWire(q)'
    <3>1. Reading /\ made[q].for = req.n
      BY <2>1, <2>4, <2>10 DEF Reading, Grown
    <3>2. made[q].called \/ (q = r /\ kind = "call")
      BY <2>4, <2>10
    <3>. QED
      BY <1>2, <2>8, <2>9, <3>1, <3>2 DEF Known
  <2>11. Made' = Made
    BY <2>4 DEF Made
  <2>12. /\ req.phase # "stream" /\ chain # 0 /\ made'[chain].called => chain \in pending
         /\ Sent /\ req.based # 0 /\ made'[req.based].called => req.based \in results
    BY <1>2, <2>5 DEF Known
  <2>. QED
    BY <2>1, <2>6, <2>10, <2>11, <2>12 DEF Known, Sent
<1>10. CASE ReadEvent
  <2>1. /\ Reading /\ client = "websocket" /\ UNCHANGED <<client, made, jobs, ghost>>
        /\ wire # <<>> /\ wire' = Tail(wire) /\ Grown
    BY <1>10, WsEvent
  <2>2. PICK e \in EventType : e = Head(wire) /\ e \in Range(wire) /\ EventFits(e) /\ Handles(e)
    BY <1>10, WsEvent
  <2>3. /\ wire \in Seq(EventType) /\ e = wire[1] /\ Len(wire) \in Nat \ {0}
        /\ DOMAIN wire = 1..Len(wire) /\ DOMAIN wire' = 1..(Len(wire) - 1)
        /\ \A i \in DOMAIN wire' : wire'[i] = wire[i + 1]
    <3>1. wire \in Seq(EventType)
      BY DEF TypeInv, WsInv
    <3>. QED
      BY <2>1, <2>2, <3>1, RangeShortened
  <2>4. CASE req' = req
    <3>1. results \subseteq results' /\ calls \subseteq calls' /\ (e.kind = "call" => e.from \in calls')
      BY <1>0, <2>1, <2>2, <2>4, HandledKeeps DEF Reading
    <3>2. req'.based # 0 /\ made'[req'.based].called => req'.based \in results'
      BY <1>2, <2>1, <2>4, <3>1 DEF Known, Sent, Reading
    <3>3. ASSUME NEW q \in Made, made[q].for = req.n, made[q].called
          PROVE  q \in calls' \/ OnWire(q)'
      <4>1. CASE q \in calls
        BY <3>1, <4>1
      <4>2. CASE OnWire(q)
        <5>1. PICK i \in DOMAIN wire : wire[i].kind = "call" /\ wire[i].from = q
          BY <4>2 DEF OnWire
        <5>2. CASE i = 1
          BY <2>3, <3>1, <5>1, <5>2
        <5>3. CASE i # 1
          <6>1. i - 1 \in DOMAIN wire' /\ wire'[i - 1] = wire[i]
            BY <2>3, <5>3
          <6>. QED
            BY <5>1, <6>1 DEF OnWire
        <5>. QED
          BY <5>2, <5>3
      <4>. QED
        BY <1>2, <2>1, <3>3, <4>1, <4>2 DEF Known
    <3>4. Made' = Made /\ req'.phase = "stream"
      BY <2>1, <2>4 DEF Made, Reading
    <3>. QED
      BY <2>1, <2>4, <3>2, <3>3, <3>4 DEF Known
  <2>5. CASE req' # req
    <3>1. /\ req'.phase # "stream" /\ (Sent' => req'.based = 0)
      BY <1>0, <2>2, <2>5, HandledReq DEF Ended, ReqType, Sent
    <3>2. Terminal(e)
      BY <2>1, <2>2, <2>5, HandledEnds
    <3>3. Len(wire) = 1
      <4>1. 1 \in DOMAIN wire /\ Terminal(wire[1])
        BY <2>3, <3>2
      <4>. QED
        BY <1>2, <4>1 DEF Own
    <3>4. chain' # 0 /\ made'[chain'].called => chain' \in pending'
      <4>1. CASE e.kind = "completed" /\ chain' = e.from /\ pending' = calls
        <5>1. e.from \in Made /\ made[e.from].for = req.n
          BY <1>2, <2>2, <4>1 DEF Own, EventFits
        <5>2. ~OnWire(e.from)
          <6>. SUFFICES ASSUME NEW i \in DOMAIN wire PROVE wire[i].kind # "call"
            BY DEF OnWire
          <6>1. i = 1
            BY <2>3, <3>3
          <6>. QED
            BY <2>3, <4>1, <6>1
        <5>. QED
          BY <1>2, <2>1, <4>1, <5>1, <5>2 DEF Known
      <4>2. ~Chat
        BY <2>1 DEF Chat
      <4>. QED
        BY <1>0, <2>2, <2>5, <4>1, <4>2, HandledSettles
    <3>. QED
      BY <3>1, <3>4 DEF Known, Reading
  <2>. QED
    BY <2>4, <2>5
<1>11. CASE ReadEnd \/ ConnectFails \/ ReadRaises \/ Interrupt
  BY <1>11 DEF ReadEnd, ConnectFails, ReadRaises, Interrupt, FallsBack
<1>12. CASE ChangeHistory
  <2>1. chain' = 0 /\ req'.phase \in {"idle", "done", "called"}
    BY <1>12 DEF ChangeHistory, Invalidate, Reset
  <2>. QED
    BY <2>1 DEF Known, Sent, Reading
<1>13. CASE Drain
  <2>1. UNCHANGED <<client, req, made, chain, pending, results, calls>>
    BY <1>13 DEF Drain, chainVars, outVars
  <2>2. UNCHANGED wire
    BY <1>2, <1>13 DEF Drain, Own
  <2>. QED
    BY <1>2, <2>1, <2>2, KnownSame
<1>14. CASE Drop \/ Collect \/ UNCHANGED vars
  <2>1. UNCHANGED <<client, req, made, chain, pending, results, calls, wire>>
    BY <1>14 DEF Drop, Collect, vars, chainVars, outVars, wsVars
  <2>. QED
    BY <1>2, <2>1, KnownSame
<1>. QED
  BY <1>3, <1>4, <1>5, <1>6, <1>7, <1>8, <1>9, <1>10, <1>11, <1>12, <1>13, <1>14 DEF Next

(* A request continues only a response that is complete, and, as long as       *)
(* nothing was disturbed, one whose calls it brings the outputs of.            *)
THEOREM ChainContinuesWhole == Spec => []ContinuesWhole
<1>1. Init => ModeInv /\ SettledInv /\ OwnInv /\ OneInv /\ CalledInv
  <2>. SUFFICES ASSUME Init PROVE ModeInv /\ SettledInv /\ Own /\ OneInv /\ Known
    BY DEF OwnInv, CalledInv
  <2>1. /\ ghost = {} /\ req.phase = "idle" /\ wire = <<>> /\ jobs = <<>> /\ got = <<>>
        /\ chain = 0 /\ made = <<>>
    BY DEF Init
  <2>2. Made = {}
    BY <2>1 DEF Made
  <2>3. Own /\ ModeInv
    BY <2>1, EmptyRange DEF ModeInv, Sent, Own, Reading
  <2>. QED
    BY <2>1, <2>2, <2>3 DEF SettledInv, Settled, Sent, OneInv, Known, Reading
<1>2. TypeInv /\ SettledInv /\ CalledInv => ContinuesWhole
  BY DEF SettledInv, Settled, CalledInv, Known, ContinuesWhole, ChainSettled, CallsAnswered
<1>3. TypeInv /\ ModeInv /\ SettledInv /\ OwnInv /\ OneInv /\ CalledInv /\ [Next]_vars
        => ModeInv' /\ SettledInv' /\ OwnInv' /\ OneInv' /\ CalledInv'
  BY ModeStep, SettledStep, OwnStep, OneStep, CalledStep
<1>. QED
  BY <1>1, <1>2, <1>3, TypeInvKept, PTL DEF Spec

-----------------------------------------------------------------------------
(* Sequences without repetition. *)
LEMMA OnceAppended ==
  ASSUME NEW S, NEW s \in Seq(S), NEW x \in S, IsInjective(s), x \notin Range(s)
  PROVE  IsInjective(Append(s, x))
<1>1. /\ DOMAIN Append(s, x) = 1..(Len(s) + 1) /\ DOMAIN s = 1..Len(s) /\ Len(s) \in Nat
      /\ \A i \in 1..Len(s) : Append(s, x)[i] = s[i]
      /\ Append(s, x)[Len(s) + 1] = x
  OBVIOUS
<1>2. \A i \in 1..Len(s) : s[i] # x
  BY <1>1 DEF Range
<1>3. \A i \in 1..(Len(s) + 1) : i \in 1..Len(s) \/ i = Len(s) + 1
  BY <1>1
<1>. QED
  BY <1>1, <1>2, <1>3 DEF IsInjective

LEMMA OnceJoined ==
  ASSUME NEW S, NEW s \in Seq(S), NEW t \in Seq(S), IsInjective(s), IsInjective(t),
         Range(s) \intersect Range(t) = {}
  PROVE  IsInjective(s \o t)
<1>1. /\ DOMAIN (s \o t) = 1..(Len(s) + Len(t)) /\ DOMAIN s = 1..Len(s) /\ DOMAIN t = 1..Len(t)
      /\ Len(s) \in Nat /\ Len(t) \in Nat
      /\ \A i \in 1..Len(s) : (s \o t)[i] = s[i]
      /\ \A i \in 1..(Len(s) + Len(t)) : i > Len(s) => (s \o t)[i] = t[i - Len(s)]
  OBVIOUS
<1>2. ASSUME NEW i \in 1..(Len(s) + Len(t)), NEW j \in 1..(Len(s) + Len(t)),
             (s \o t)[i] = (s \o t)[j]
      PROVE  i = j
  <2>1. CASE i <= Len(s) /\ j <= Len(s)
    BY <1>1, <1>2, <2>1 DEF IsInjective
  <2>2. CASE i > Len(s) /\ j > Len(s)
    <3>1. i - Len(s) \in 1..Len(t) /\ j - Len(s) \in 1..Len(t) /\ t[i - Len(s)] = t[j - Len(s)]
      BY <1>1, <1>2, <2>2
    <3>2. i - Len(s) = j - Len(s)
      BY <1>1, <3>1 DEF IsInjective
    <3>. QED
      BY <1>1, <3>2
  <2>3. CASE i <= Len(s) /\ j > Len(s)
    <3>1. j - Len(s) \in 1..Len(t) /\ s[i] = t[j - Len(s)] /\ i \in 1..Len(s)
      BY <1>1, <1>2, <2>3
    <3>. QED
      BY <1>1, <3>1 DEF Range
  <2>4. CASE i > Len(s) /\ j <= Len(s)
    <3>1. i - Len(s) \in 1..Len(t) /\ t[i - Len(s)] = s[j] /\ j \in 1..Len(s)
      BY <1>1, <1>2, <2>4
    <3>. QED
      BY <1>1, <3>1 DEF Range
  <2>. QED
    BY <1>1, <2>1, <2>2, <2>3, <2>4
<1>. QED
  BY <1>1, <1>2 DEF IsInjective

LEMMA OnceShort == IsInjective(<<>>) /\ \A x : IsInjective(<<x>>)
  BY DEF IsInjective

(* What is said, held back and kept apart as a call: no piece is in it twice. *)
Apart(s, t) == Range(s) \intersect Range(t) = {}
Lines(s, b, o, c) ==
  /\ IsInjective(s) /\ IsInjective(b) /\ IsInjective(o) /\ IsInjective(c)
  /\ Apart(s, b) /\ Apart(s, o) /\ Apart(s, c) /\ Apart(b, o) /\ Apart(b, c) /\ Apart(o, c)

LEMMA LinesText ==
  ASSUME NEW s \in Seq(PieceType), NEW b \in Seq(PieceType), NEW o, NEW c, NEW x \in PieceType,
         Lines(s, b, o, c), x \notin Range(s), x \notin Range(b), x \notin Range(o), x \notin Range(c)
  PROVE  /\ Lines(s, Append(b, x), o, c)
         /\ Lines(s \o b, <<x>>, o, c)
         /\ Lines(s \o b, <<>>, o, c)
         /\ Lines(Append(s \o b, x), <<>>, o, c)
         /\ Lines(Append(s, x), b, o, c)
<1>1. s \o b \in Seq(PieceType) /\ Range(s \o b) = Range(s) \union Range(b) /\ IsInjective(s \o b)
  BY RangeJoined, OnceJoined DEF Lines, Apart
<1>2. Range(Append(b, x)) = Range(b) \union {x} /\ IsInjective(Append(b, x))
      /\ Range(Append(s, x)) = Range(s) \union {x} /\ IsInjective(Append(s, x))
  BY RangeAppended, OnceAppended DEF Lines
<1>3. Range(Append(s \o b, x)) = Range(s) \union Range(b) \union {x} /\ IsInjective(Append(s \o b, x))
  <2>. DEFINE t == s \o b
  <2>1. t \in Seq(PieceType) /\ x \notin Range(t) /\ IsInjective(t)
    BY <1>1
  <2>. HIDE DEF t
  <2>2. Range(Append(t, x)) = Range(t) \union {x} /\ IsInjective(Append(t, x))
    BY <2>1, RangeAppended, OnceAppended
  <2>. QED
    BY <1>1, <2>2 DEF t
<1>4. Range(<<>>) = {} /\ IsInjective(<<>>) /\ Range(<<x>>) = {x} /\ IsInjective(<<x>>)
  BY EmptyRange, RangeOfOne, OnceShort
<1>. QED
  BY <1>1, <1>2, <1>3, <1>4 DEF Lines, Apart

LEMMA LinesTool ==
  ASSUME NEW s, NEW o \in Seq(PieceType), NEW x \in PieceType, NEW b,
         Lines(s, b, o, <<>>), x \notin Range(s), x \notin Range(b), x \notin Range(o)
  PROVE  /\ Lines(s, b, Append(o, x), <<>>)
         /\ Lines(s, b, <<>>, Append(o, x))
<1>1. Range(Append(o, x)) = Range(o) \union {x} /\ IsInjective(Append(o, x))
  BY RangeAppended, OnceAppended DEF Lines
<1>2. Range(<<>>) = {} /\ IsInjective(<<>>)
  BY EmptyRange, OnceShort
<1>. QED
  BY <1>1, <1>2 DEF Lines, Apart

LEMMA LinesEnd ==
  ASSUME NEW s \in Seq(PieceType), NEW b \in Seq(PieceType), NEW o \in Seq(PieceType),
         NEW c \in Seq(PieceType), Lines(s, b, o, c)
  PROVE  /\ IsInjective(s) /\ IsInjective(s \o b) /\ IsInjective(s \o b \o (c \o o))
         /\ Range(s \o b) = Range(s) \union Range(b)
         /\ Range(s \o b \o (c \o o)) = Range(s) \union Range(b) \union Range(c) \union Range(o)
<1>1. s \o b \in Seq(PieceType) /\ Range(s \o b) = Range(s) \union Range(b) /\ IsInjective(s \o b)
  BY RangeJoined, OnceJoined DEF Lines, Apart
<1>2. c \o o \in Seq(PieceType) /\ Range(c \o o) = Range(c) \union Range(o) /\ IsInjective(c \o o)
  BY RangeJoined, OnceJoined DEF Lines, Apart
<1>. DEFINE t == s \o b
            u == c \o o
<1>3. t \in Seq(PieceType) /\ u \in Seq(PieceType) /\ IsInjective(t) /\ IsInjective(u)
      /\ Range(t) \intersect Range(u) = {}
  BY <1>1, <1>2 DEF Lines, Apart
<1>. HIDE DEF t, u
<1>4. IsInjective(t \o u) /\ Range(t \o u) = Range(t) \union Range(u)
  BY <1>3, RangeJoined, OnceJoined
<1>. QED
  BY <1>1, <1>2, <1>4 DEF t, u, Lines

-----------------------------------------------------------------------------
(* What is on the websocket has not been received yet, and a response brings   *)
(* its text before its call.                                                   *)
WireInv ==
  /\ \A i \in DOMAIN wire : wire[i].kind = "text" => wire[i].piece \notin Range(got)
  /\ \A i, j \in DOMAIN wire :
       wire[i].kind = "text" /\ wire[j].kind = "text" /\ wire[i].piece = wire[j].piece => i = j
  /\ \A i, j \in DOMAIN wire :
       i < j /\ wire[i].kind = "call" /\ wire[j].kind = "text" => wire[i].from # wire[j].from
  /\ "fallback" \notin ghost =>
       \A i \in DOMAIN wire : wire[i].kind = "text" => wire[i].from \notin calls

(* A step that sends nothing more. *)
LEMMA WireKept ==
  ASSUME TypeInv, WireInv, wire' = wire \/ wire' = <<>> \/ (wire # <<>> /\ wire' = Tail(wire)),
         got' = got \/ got' = <<>>, calls' \subseteq calls, "fallback" \in ghost => "fallback" \in ghost'
  PROVE  WireInv'
<1>0. wire \in Seq(EventType)
  BY DEF TypeInv, WsInv
<1>1. Range(got') \subseteq Range(got)
  BY EmptyRange
<1>2. CASE wire' = wire
  BY <1>1, <1>2 DEF WireInv
<1>3. CASE wire' = <<>>
  <2>1. DOMAIN wire' = {}
    BY <1>3
  <2>. QED
    BY <2>1 DEF WireInv
<1>4. CASE wire # <<>> /\ wire' = Tail(wire)
  <2>1. /\ \A i \in DOMAIN wire' : i + 1 \in DOMAIN wire /\ wire'[i] = wire[i + 1] /\ i \in Nat
    <3>1. /\ \A i \in DOMAIN Tail(wire) : i + 1 \in DOMAIN wire /\ Tail(wire)[i] = wire[i + 1]
          /\ DOMAIN Tail(wire) = 1..(Len(wire) - 1)
      BY <1>0, <1>4, RangeShortened
    <3>. QED
      BY <1>4, <3>1
  <2>2. \A i \in DOMAIN wire' : wire'[i].kind = "text" => wire'[i].piece \notin Range(got')
    BY <1>1, <2>1 DEF WireInv
  <2>3. ASSUME NEW i \in DOMAIN wire', NEW j \in DOMAIN wire', wire'[i].kind = "text",
               wire'[j].kind = "text", wire'[i].piece = wire'[j].piece
        PROVE  i = j
    <3>1. i + 1 = j + 1
      BY <2>1, <2>3 DEF WireInv
    <3>. QED
      BY <2>1, <3>1
  <2>4. ASSUME NEW i \in DOMAIN wire', NEW j \in DOMAIN wire', i < j, wire'[i].kind = "call",
               wire'[j].kind = "text"
        PROVE  wire'[i].from # wire'[j].from
    <3>1. i + 1 < j + 1
      BY <2>1, <2>4
    <3>2. /\ i + 1 \in DOMAIN wire /\ j + 1 \in DOMAIN wire
          /\ wire'[i] = wire[i + 1] /\ wire'[j] = wire[j + 1]
      BY <2>1
    <3>. QED
      BY <2>4, <3>1, <3>2 DEF WireInv
  <2>5. "fallback" \notin ghost' =>
          \A i \in DOMAIN wire' : wire'[i].kind = "text" => wire'[i].from \notin calls'
    BY <2>1 DEF WireInv
  <2>. QED
    BY <2>2, <2>3, <2>4, <2>5 DEF WireInv
<1>. QED
  BY <1>2, <1>3, <1>4

(* A step that sends something. *)
LEMMA WireGrows ==
  ASSUME TypeInv, WireInv, NEW e \in EventType, wire' = Append(wire, e),
         UNCHANGED <<got, calls>>, UNCHANGED ghost,
         e.kind = "text" =>
           /\ e.piece \notin Range(got) /\ e.from \notin calls
           /\ \A i \in DOMAIN wire : wire[i].kind = "text" => wire[i].piece # e.piece
           /\ \A i \in DOMAIN wire : wire[i].kind = "call" => wire[i].from # e.from
  PROVE  WireInv'
<1>1. /\ DOMAIN wire = 1..Len(wire) /\ Len(wire) \in Nat
      /\ DOMAIN wire' = 1..(Len(wire) + 1) /\ wire'[Len(wire) + 1] = e
      /\ \A i \in DOMAIN wire : wire'[i] = wire[i]
  <2>1. wire \in Seq(EventType)
    BY DEF TypeInv, WsInv
  <2>. QED
    BY <2>1
<1>2. \A i \in DOMAIN wire' : i \in DOMAIN wire \/ (i = Len(wire) + 1 /\ wire'[i] = e)
  BY <1>1
<1>3. \A i, j \in DOMAIN wire' : i < j => i \in DOMAIN wire
  BY <1>1
<1>4. \A i \in DOMAIN wire' : wire'[i].kind = "text" => wire'[i].piece \notin Range(got')
  BY <1>1, <1>2 DEF WireInv
<1>5. \A i, j \in DOMAIN wire' :
       wire'[i].kind = "text" /\ wire'[j].kind = "text" /\ wire'[i].piece = wire'[j].piece => i = j
  <2>. TAKE i, j \in DOMAIN wire'
  <2>1. CASE i \in DOMAIN wire /\ j \in DOMAIN wire
    BY <1>1, <2>1 DEF WireInv
  <2>2. CASE i \notin DOMAIN wire \/ j \notin DOMAIN wire
    BY <1>1, <1>2, <2>2
  <2>. QED
    BY <2>1, <2>2
<1>6. \A i, j \in DOMAIN wire' :
       i < j /\ wire'[i].kind = "call" /\ wire'[j].kind = "text" => wire'[i].from # wire'[j].from
  <2>. SUFFICES ASSUME NEW i \in DOMAIN wire', NEW j \in DOMAIN wire', i < j,
                       wire'[i].kind = "call", wire'[j].kind = "text"
       PROVE  wire'[i].from # wire'[j].from
    OBVIOUS
  <2>1. i \in DOMAIN wire /\ wire'[i] = wire[i]
    BY <1>1, <1>3
  <2>2. CASE j \in DOMAIN wire
    BY <1>1, <2>1, <2>2 DEF WireInv
  <2>3. CASE j \notin DOMAIN wire
    BY <1>2, <2>1, <2>3
  <2>. QED
    BY <2>2, <2>3
<1>7. "fallback" \notin ghost' =>
        \A i \in DOMAIN wire' : wire'[i].kind = "text" => wire'[i].from \notin calls'
  BY <1>1, <1>2 DEF WireInv
<1>. QED
  BY <1>4, <1>5, <1>6, <1>7 DEF WireInv

LEMMA WireStep == TypeInv /\ ModeInv /\ WireInv /\ [Next]_vars => WireInv'
<1>. SUFFICES ASSUME TypeInv, ModeInv, WireInv, [Next]_vars PROVE WireInv'
  OBVIOUS
<1>0. wire \in Seq(EventType) /\ \A i \in DOMAIN wire : EventFits(wire[i])
  BY DEF TypeInv, WsInv, Range
<1>1. CASE Receive
  <2>1. /\ Grown /\ req.phase = "stream" /\ req.via = "http" /\ UNCHANGED <<client, wire, ghost>>
    BY <1>1, HttpEvent DEF wsVars
  <2>2. PICK kind \in Events(req.on), e \in EventType :
          /\ AfterEvent(req.on, kind) /\ kind # "stale" /\ e = Event(kind, req.on)
          /\ Comes(e)' /\ Handles(e)
    BY <1>1, HttpEvent
  <2>3. PICK r \in Made : r = req.on
    BY <1>1, HttpEvent
  <2>4. e.piece = <<r, made[r].n + 1>> /\ made[r].n \in Nat
    <3>1. made[r] \in ResponseType
      BY DEF TypeInv, MadeInv, Made
    <3>. QED
      BY <2>2, <2>3, <3>1, EventGrown DEF ResponseType
  <2>5. \A i \in DOMAIN wire : wire[i].kind = "text" => wire[i].piece # e.piece
    <3>1. ~Counted(e.piece)
      BY <2>4 DEF Counted
    <3>. QED
      BY <1>0, <3>1 DEF EventFits
  <2>6. Range(got') \subseteq Range(got) \union {e.piece}
    BY <2>2, HandledGot DEF TypeInv
  <2>7. "fallback" \notin ghost => wire = <<>> /\ DOMAIN wire = {}
    BY <2>1 DEF ModeInv, Sent, TypeInv, WsInv
  <2>8. \A i \in DOMAIN wire : wire[i].kind = "text" => wire[i].piece \notin Range(got')
    BY <2>5, <2>6 DEF WireInv
  <2>. QED
    BY <2>1, <2>7, <2>8 DEF WireInv
<1>2. CASE ReadEvent
  <2>1. /\ Reading /\ wire # <<>> /\ wire' = Tail(wire) /\ UNCHANGED <<made, ghost>>
    BY <1>2, WsEvent
  <2>2. PICK e \in EventType : e = Head(wire) /\ EventFits(e) /\ Handles(e)
    BY <1>2, WsEvent
  <2>3. /\ Len(wire) \in Nat \ {0} /\ e = wire[1] /\ 1 \in DOMAIN wire
        /\ \A i \in DOMAIN wire' : i \in Nat \ {0} /\ i + 1 \in DOMAIN wire /\ wire'[i] = wire[i + 1]
    <3>1. /\ Len(wire) \in Nat \ {0} /\ Head(wire) = wire[1] /\ DOMAIN wire = 1..Len(wire)
          /\ DOMAIN Tail(wire) = 1..(Len(wire) - 1)
          /\ \A i \in DOMAIN Tail(wire) : i + 1 \in DOMAIN wire /\ Tail(wire)[i] = wire[i + 1]
      BY <1>0, <2>1, RangeShortened
    <3>. QED
      BY <2>1, <2>2, <3>1
  <2>4. Range(got') \subseteq Range(got) \/ (e.kind = "text" /\ Range(got') = Range(got) \union {e.piece})
    BY <2>2, HandledGot DEF TypeInv, EventFits
  <2>5. calls' \subseteq calls \/ (e.kind = "call" /\ calls' = calls \union {e.from})
    BY <2>2, HandledGot DEF TypeInv
  <2>6. \A i \in DOMAIN wire' : wire'[i].kind = "text" => wire'[i].piece \notin Range(got')
    <3>. SUFFICES ASSUME NEW i \in DOMAIN wire', wire'[i].kind = "text"
         PROVE  wire'[i].piece \notin Range(got')
      OBVIOUS
    <3>1. i + 1 \in DOMAIN wire /\ i + 1 # 1 /\ wire'[i] = wire[i + 1]
      BY <2>3
    <3>2. wire'[i].piece \notin Range(got)
      BY <3>1 DEF WireInv
    <3>3. e.kind = "text" => wire'[i].piece # e.piece
      BY <2>3, <3>1 DEF WireInv
    <3>. QED
      BY <2>4, <3>2, <3>3
  <2>7. "fallback" \notin ghost' =>
          \A i \in DOMAIN wire' : wire'[i].kind = "text" => wire'[i].from \notin calls'
    <3>. SUFFICES ASSUME "fallback" \notin ghost, NEW i \in DOMAIN wire', wire'[i].kind = "text"
         PROVE  wire'[i].from \notin calls'
      BY <2>1
    <3>1. i + 1 \in DOMAIN wire /\ 1 < i + 1 /\ wire'[i] = wire[i + 1]
      BY <2>3
    <3>2. wire'[i].from \notin calls
      BY <3>1 DEF WireInv
    <3>3. e.kind = "call" => wire'[i].from # e.from
      BY <2>3, <3>1 DEF WireInv
    <3>. QED
      BY <2>5, <3>2, <3>3
  <2>8. ASSUME NEW i \in DOMAIN wire', NEW j \in DOMAIN wire', wire'[i].kind = "text",
               wire'[j].kind = "text", wire'[i].piece = wire'[j].piece
        PROVE  i = j
    <3>1. i + 1 = j + 1
      BY <2>3, <2>8 DEF WireInv
    <3>. QED
      BY <2>3, <3>1
  <2>9. ASSUME NEW i \in DOMAIN wire', NEW j \in DOMAIN wire', i < j, wire'[i].kind = "call",
               wire'[j].kind = "text"
        PROVE  wire'[i].from # wire'[j].from
    <3>1. i + 1 < j + 1
      BY <2>3, <2>9
    <3>. QED
      BY <2>3, <2>9, <3>1 DEF WireInv
  <2>. QED
    BY <2>6, <2>7, <2>8, <2>9 DEF WireInv
<1>3. CASE SendRequest
  <2>. DEFINE stale == [kind |-> "stale", from |-> 0, piece |-> <<0, 0>>]
  <2>1. /\ \/ wire' \in {wire, <<>>} \/ wire' = Append(wire, stale) \/ wire' = Append(<<>>, stale)
        /\ UNCHANGED <<got, calls, ghost>>
    BY <1>3 DEF SendRequest, outVars
  <2>2. stale \in EventType /\ stale.kind = "stale"
    BY DEF EventType, Kinds, PieceType
  <2>3. CASE wire' \in {wire, <<>>}
    BY <2>1, <2>3, WireKept
  <2>4. CASE wire' = Append(wire, stale)
    <3>1. PICK e \in EventType : e = stale
      BY <2>2
    <3>2. wire' = Append(wire, e) /\ e.kind # "text"
      BY <2>2, <2>4, <3>1
    <3>. HIDE DEF stale
    <3>. QED
      BY <2>1, <3>2, WireGrows
  <2>5. CASE wire' = Append(<<>>, stale)
    <3>1. DOMAIN wire' = {1} /\ wire'[1] = stale
      BY <2>5
    <3>2. \A i \in DOMAIN wire' : i = 1 /\ wire'[i].kind = "stale"
      BY <2>2, <3>1
    <3>. HIDE DEF stale
    <3>. QED
      BY <3>2 DEF WireInv
  <2>. QED
    BY <2>1, <2>3, <2>4, <2>5
<1>4. CASE Work
  <2>1. UNCHANGED <<got, calls, ghost>>
    BY <1>4 DEF Work, outVars
  <2>2. PICK r \in Made : \E kind \in Events(r), e \in EventType :
          /\ e = Event(kind, r) /\ e.kind = kind /\ e.from = r
          /\ AfterEvent(r, kind) /\ wire' = Append(wire, e)
    BY <1>4, WorkEvent
  <2>3. PICK kind \in Events(r), e \in EventType :
          e = Event(kind, r) /\ e.kind = kind /\ e.from = r /\ AfterEvent(r, kind) /\ wire' = Append(wire, e)
    BY <2>2
  <2>4. e.piece = <<r, made[r].n + 1>> /\ (kind = "text" => ~made[r].called)
    BY <2>3, EventGrown
  <2>5. made[r].n \in Nat
    <3>1. made[r] \in ResponseType
      BY DEF TypeInv, MadeInv, Made
    <3>. QED
      BY <3>1 DEF ResponseType
  <2>6. ~Counted(e.piece)
    BY <2>4, <2>5 DEF Counted
  <2>7. ASSUME e.kind = "text"
        PROVE  /\ e.piece \notin Range(got) /\ e.from \notin calls
               /\ \A i \in DOMAIN wire : wire[i].kind = "text" => wire[i].piece # e.piece
               /\ \A i \in DOMAIN wire : wire[i].kind = "call" => wire[i].from # e.from
    <3>1. e.piece \notin Range(got) /\ e.from \notin calls
      BY <2>3, <2>4, <2>6, <2>7 DEF TypeInv, OutInv
    <3>2. \A i \in DOMAIN wire : wire[i].kind = "text" => wire[i].piece # e.piece
      BY <1>0, <2>6 DEF EventFits
    <3>3. \A i \in DOMAIN wire : wire[i].kind = "call" => wire[i].from # e.from
      BY <1>0, <2>3, <2>4, <2>7 DEF EventFits
    <3>. QED
      BY <3>1, <3>2, <3>3
  <2>. QED
    BY <2>1, <2>3, <2>7, WireGrows
<1>5. CASE Ask \/ Interrupt
  <2>1. wire' = wire /\ got' = <<>> /\ calls' = {} /\ ("fallback" \in ghost => "fallback" \in ghost')
    BY <1>5 DEF Ask, Interrupt, Afresh, wsVars
  <2>. QED
    BY <2>1, WireKept
<1>6. CASE ConnectFails \/ ReadRaises
  <2>1. wire' = wire /\ got' = got /\ calls' = {} /\ "fallback" \in ghost'
    BY <1>6 DEF ConnectFails, ReadRaises, FallsBack, wsVars
  <2>. QED
    BY <2>1, WireKept
<1>7. CASE ReadEnd
  <2>1. UNCHANGED <<wire, got, calls>> /\ ("fallback" \in ghost => "fallback" \in ghost')
    BY <1>7 DEF ReadEnd, Settle, FinalChunk, HandCall, wsVars
  <2>. QED
    BY <2>1, WireKept
<1>8. CASE Drain
  <2>1. UNCHANGED <<got, calls, ghost>> /\ (wire' = wire \/ (wire # <<>> /\ wire' = Tail(wire)))
    BY <1>8 DEF Drain, outVars
  <2>. QED
    BY <2>1, WireKept
<1>9. CASE Create \/ Refused \/ CreateFails \/ Drop \/ Collect \/ ChangeHistory \/ UNCHANGED vars
  <2>1. UNCHANGED <<wire, got, calls, ghost>>
    BY <1>9 DEF Create, Refused, CreateFails, Drop, Collect, ChangeHistory, vars, wsVars, outVars
  <2>. QED
    BY <2>1, WireKept
<1>. QED
  BY <1>1, <1>2, <1>3, <1>4, <1>5, <1>6, <1>7, <1>8, <1>9 DEF Next

-----------------------------------------------------------------------------
(* What a stream has brought is said, held back, or kept apart as a call, and  *)
(* nowhere twice; nothing is marked as an end before a call.                   *)
Received == Range(said) \union Range(buffer) \union Range(tool.open) \union Range(tool.captured)
NoToolText == tool.open = <<>> /\ tool.captured = <<>>
Told ==
  /\ Lines(said, buffer, tool.open, tool.captured)
  /\ Range(got) \subseteq Received
  /\ Pre \in Range(said) => calls # {}
  /\ calls = {} => ends = 0
  /\ tool.open # <<>> => tool.captured = <<>>
  /\ client \notin {"openai", "azure"} => NoToolText

(* An event is new: its piece was not received before, its call is the first   *)
(* of a Gemini answer, or of the calls written as text.                        *)
Unseen(e) == e.piece \notin Range(got) /\ e.piece # Pre
New(e) ==
  /\ e.kind \in {"text", "open"} => Unseen(e)
  /\ client = "gemini" /\ e.kind = "call" => calls = {}
  /\ e.kind = "open" => NoToolText

LEMMA OutTyped ==
  ASSUME MadeInv, OutInv
  PROVE  /\ said \in Seq(PieceType) /\ buffer \in Seq(PieceType) /\ got \in Seq(PieceType)
         /\ tool.open \in Seq(PieceType) /\ tool.captured \in Seq(PieceType) /\ tool \in ToolType
         /\ Range(said) \subseteq Range(got) \union {Pre} /\ Range(buffer) \subseteq Range(got)
         /\ Range(tool.open) \subseteq Range(got) /\ Range(tool.captured) \subseteq Range(got)
         /\ Pre \notin Range(got) /\ Pre \in PieceType /\ ends \in Nat
<1>1. ~Counted(Pre)
  BY DEF Counted, Pre
<1>. QED
  BY <1>1, PreTyped DEF OutInv, ToolType

LEMMA ToldText ==
  ASSUME MadeInv, OutInv, Told, UNCHANGED client, NEW e \in EventType, Unseen(e), TakeText(e)
  PROVE  Told'
<1>1. PICK x \in PieceType : x = e.piece /\ x \notin Range(got) /\ x # Pre
  BY DEF EventType, Unseen
<1>2. /\ x \notin Range(said) /\ x \notin Range(buffer) /\ x \notin Range(tool.open)
      /\ x \notin Range(tool.captured)
  BY <1>1, OutTyped
<1>3. /\ Lines(said, Append(buffer, x), tool.open, tool.captured)
      /\ Lines(said \o buffer, <<x>>, tool.open, tool.captured)
      /\ Lines(Append(said \o buffer, x), <<>>, tool.open, tool.captured)
  BY <1>2, OutTyped, LinesText DEF Told
<1>4. /\ Range(said \o buffer) = Range(said) \union Range(buffer)
      /\ said \o buffer \in Seq(PieceType)
      /\ Range(Append(buffer, x)) = Range(buffer) \union {x}
      /\ Range(<<>>) = {} /\ Range(<<x>>) = {x}
      /\ Range(Append(got, x)) = Range(got) \union {x}
  BY OutTyped, RangeJoined, RangeAppended, EmptyRange, RangeOfOne
<1>5. Range(Append(said \o buffer, x)) = Range(said) \union Range(buffer) \union {x}
  <2>. DEFINE t == said \o buffer
  <2>1. t \in Seq(PieceType)
    BY <1>4
  <2>. HIDE DEF t
  <2>2. Range(Append(t, x)) = Range(t) \union {x}
    BY <2>1, RangeAppended
  <2>. QED
    BY <1>4, <2>2 DEF t
<1>6. /\ got' = Append(got, x) /\ UNCHANGED <<tool, calls, ends>>
      /\ \/ buffer' = Append(buffer, x) /\ said' = said
         \/ buffer' = <<>> /\ said' = Append(said \o buffer, x)
         \/ buffer' = <<x>> /\ said' = said \o buffer
  BY <1>1 DEF TakeText, BeginsWith
<1>7. /\ Lines(said', buffer', tool.open, tool.captured)
      /\ Range(said') \union Range(buffer') = Range(said) \union Range(buffer) \union {x}
      /\ Pre \in Range(said') => Pre \in Range(said)
  <2>1. CASE buffer' = Append(buffer, x) /\ said' = said
    BY <1>3, <1>4, <2>1
  <2>2. CASE buffer' = <<>> /\ said' = Append(said \o buffer, x)
    BY <1>1, <1>3, <1>4, <1>5, <2>2, OutTyped
  <2>3. CASE buffer' = <<x>> /\ said' = said \o buffer
    BY <1>1, <1>3, <1>4, <2>3, OutTyped
  <2>. QED
    BY <1>6, <2>1, <2>2, <2>3
<1>8. Range(got') \subseteq Received'
  BY <1>4, <1>6, <1>7 DEF Told, Received
<1>. QED
  BY <1>6, <1>7, <1>8 DEF Told, NoToolText

LEMMA ToldCall ==
  ASSUME MadeInv, OutInv, Told, UNCHANGED client, NEW e, TakeCall(e)
  PROVE  Told'
<1>1. /\ calls' # {} /\ buffer' = <<>> /\ UNCHANGED <<tool, got>>
      /\ said' = said \o buffer \/ (calls = {} /\ said' = Append(said \o buffer, Pre))
  BY DEF TakeCall, Flushed
<1>2. /\ Range(said \o buffer) = Range(said) \union Range(buffer) /\ said \o buffer \in Seq(PieceType)
      /\ Range(<<>>) = {} /\ IsInjective(said \o buffer)
  BY OutTyped, RangeJoined, EmptyRange, LinesEnd DEF Told
<1>3. Lines(said \o buffer, <<>>, tool.open, tool.captured)
  BY <1>2, EmptyRange, OnceShort DEF Lines, Apart, Told
<1>4. calls = {} => /\ Lines(Append(said \o buffer, Pre), <<>>, tool.open, tool.captured)
                    /\ Range(Append(said \o buffer, Pre)) = Range(said) \union Range(buffer) \union {Pre}
  <2>. SUFFICES ASSUME calls = {}
       PROVE  /\ Lines(Append(said \o buffer, Pre), <<>>, tool.open, tool.captured)
              /\ Range(Append(said \o buffer, Pre)) = Range(said) \union Range(buffer) \union {Pre}
    OBVIOUS
  <2>1. /\ Pre \notin Range(said) /\ Pre \notin Range(buffer) /\ Pre \notin Range(tool.open)
        /\ Pre \notin Range(tool.captured)
    BY OutTyped DEF Told
  <2>2. Lines(Append(said \o buffer, Pre), <<>>, tool.open, tool.captured)
    BY <2>1, OutTyped, LinesText DEF Told
  <2>. DEFINE t == said \o buffer
  <2>3. t \in Seq(PieceType) /\ Range(t) = Range(said) \union Range(buffer)
    BY <1>2
  <2>. HIDE DEF t
  <2>4. Range(Append(t, Pre)) = Range(t) \union {Pre}
    BY <2>3, PreTyped, RangeAppended
  <2>. QED
    BY <2>2, <2>3, <2>4 DEF t
<1>5. /\ Lines(said', buffer', tool.open, tool.captured)
      /\ Range(said) \union Range(buffer) \subseteq Range(said')
  <2>1. CASE said' = said \o buffer
    BY <1>1, <1>2, <1>3, <2>1
  <2>2. CASE calls = {} /\ said' = Append(said \o buffer, Pre)
    BY <1>1, <1>4, <2>2
  <2>. QED
    BY <1>1, <2>1, <2>2
<1>6. Range(got') \subseteq Received'
  BY <1>1, <1>5 DEF Told, Received
<1>. QED
  BY <1>1, <1>5, <1>6 DEF Told, NoToolText

LEMMA ToldOpening ==
  ASSUME MadeInv, OutInv, Told, UNCHANGED client, client \in {"openai", "azure"},
         NEW e \in EventType, Unseen(e), NoToolText, TakeOpening(e)
  PROVE  Told'
<1>1. PICK x \in PieceType : x = e.piece /\ x \notin Range(got) /\ x # Pre
  BY DEF EventType, Unseen
<1>2. /\ got' = Append(got, x) /\ said' = said \o buffer /\ buffer' = <<>> /\ UNCHANGED <<calls, ends>>
      /\ \/ tool'.captured = <<x>> /\ tool'.open = <<>>
         \/ tool'.captured = <<>> /\ tool'.open = <<x>>
  BY <1>1, OutTyped DEF TakeOpening, NoToolText, ToolType
<1>3. /\ Range(said \o buffer) = Range(said) \union Range(buffer) /\ IsInjective(said \o buffer)
      /\ Range(<<>>) = {} /\ Range(<<x>>) = {x} /\ Range(Append(got, x)) = Range(got) \union {x}
  BY OutTyped, RangeJoined, EmptyRange, RangeOfOne, RangeAppended, LinesEnd DEF Told
<1>4. x \notin Range(said) /\ x \notin Range(buffer)
  BY <1>1, OutTyped
<1>5. Lines(said', buffer', tool'.open, tool'.captured)
  BY <1>2, <1>3, <1>4, OnceShort DEF Lines, Apart
<1>6. Range(got') \subseteq Received'
  <2>1. Range(got) \subseteq Range(said) \union Range(buffer)
    BY <1>3 DEF Told, Received, NoToolText
  <2>. QED
    BY <1>2, <1>3, <2>1 DEF Received
<1>7. Pre \in Range(said') => calls' # {}
  BY <1>2, <1>3, OutTyped DEF Told
<1>. QED
  BY <1>2, <1>5, <1>6, <1>7 DEF Told

LEMMA ToldToolText ==
  ASSUME MadeInv, OutInv, Told, UNCHANGED client, client \in {"openai", "azure"},
         NEW e \in EventType, Unseen(e), tool.open # <<>>, TakeToolText(e)
  PROVE  Told'
<1>1. PICK x \in PieceType : x = e.piece /\ x \notin Range(got) /\ x # Pre
  BY DEF EventType, Unseen
<1>2. /\ got' = Append(got, x) /\ UNCHANGED <<said, buffer, calls, ends>> /\ tool.captured = <<>>
      /\ \/ tool'.captured = <<>> /\ tool'.open = Append(tool.open, x)
         \/ tool'.captured = Append(tool.open, x) /\ tool'.open = <<>>
  <2>1. got' = Append(got, x) /\ UNCHANGED <<said, buffer, calls, ends>> /\ tool.captured = <<>>
    BY <1>1 DEF TakeToolText, Told
  <2>2. CASE tool' = [tool EXCEPT !.open = Append(tool.open, e.piece)]
    BY <1>1, <2>1, <2>2, OutTyped DEF ToolType
  <2>3. CASE tool' = [open |-> <<>>, captured |-> Append(tool.open, e.piece)]
    BY <1>1, <2>1, <2>3
  <2>. QED
    BY <2>1, <2>2, <2>3 DEF TakeToolText
<1>3. /\ Range(<<>>) = {} /\ Range(Append(got, x)) = Range(got) \union {x}
      /\ Range(Append(tool.open, x)) = Range(tool.open) \union {x}
  BY OutTyped, EmptyRange, RangeAppended
<1>4. x \notin Range(said) /\ x \notin Range(buffer) /\ x \notin Range(tool.open)
  BY <1>1, OutTyped
<1>5. /\ Lines(said, buffer, Append(tool.open, x), <<>>)
      /\ Lines(said, buffer, <<>>, Append(tool.open, x))
  <2>1. Lines(said, buffer, tool.open, <<>>)
    BY <1>2 DEF Told
  <2>. QED
    BY <1>4, <2>1, OutTyped, LinesTool
<1>6. Lines(said', buffer', tool'.open, tool'.captured)
  BY <1>2, <1>5
<1>7. Range(got') \subseteq Received'
  BY <1>2, <1>3 DEF Told, Received
<1>. QED
  BY <1>2, <1>6, <1>7 DEF Told

LEMMA ToldGemini ==
  ASSUME MadeInv, OutInv, Told, UNCHANGED client, NEW e, calls = {}, GeminiCall(e)
  PROVE  Told'
<1>1. /\ said' = Append(said, Pre) /\ calls' # {} /\ UNCHANGED <<buffer, tool, got>>
  BY DEF GeminiCall
<1>2. /\ Pre \notin Range(said) /\ Pre \notin Range(buffer) /\ Pre \notin Range(tool.open)
      /\ Pre \notin Range(tool.captured)
  BY OutTyped DEF Told
<1>3. Lines(Append(said, Pre), buffer, tool.open, tool.captured)
  BY <1>2, OutTyped, LinesText DEF Told
<1>4. Range(said') = Range(said) \union {Pre}
  BY <1>1, OutTyped, RangeAppended
<1>5. Range(got') \subseteq Received'
  BY <1>1, <1>4 DEF Told, Received
<1>. QED
  BY <1>1, <1>3, <1>5 DEF Told, NoToolText

(* What a stream has said when it ends. *)
TellsAll ==
  /\ IsInjective(said')
  /\ req'.phase = "done" /\ calls' = {} =>
       /\ Range(said') \ {Pre} = Range(got')
       /\ client \notin {"litellm", "gemini"} => ends' = 1
  /\ req'.phase = "called" /\ calls' # {} /\ client # "gemini" =>
       UNCHANGED <<said, buffer, tool, calls, got>>

LEMMA EndTold ==
  ASSUME MadeInv, OutInv, Told, UNCHANGED tool, req \in ReqType,
         \/ FinalChunk /\ (Captured = <<>> \/ calls # {})
         \/ FinalText /\ client \in {"litellm", "gemini"}
         \/ Rescue /\ calls = {}
         \/ HandCall(calls)
  PROVE  TellsAll
<1>1. /\ IsInjective(said) /\ IsInjective(said \o buffer) /\ IsInjective(said \o buffer \o Captured)
      /\ Range(said \o buffer) = Range(said) \union Range(buffer)
      /\ Range(said \o buffer \o Captured) = Received
      /\ Range(Captured) = Range(tool.captured) \union Range(tool.open)
  BY OutTyped, LinesEnd, RangeJoined DEF Told, Captured, Received
<1>2. Range(<<>>) = {}
  BY EmptyRange
<1>3. Range(got) \subseteq Received /\ Received \subseteq Range(got) \union {Pre} /\ Pre \notin Range(got)
  BY OutTyped DEF Told, Received
<1>4. UNCHANGED <<calls, got>>
  BY DEF FinalChunk, FinalText, Rescue, HandCall
<1>5. CASE FinalChunk /\ (Captured = <<>> \/ calls # {})
  <2>1. said' = said \o buffer /\ ends' = ends + 1 /\ req'.phase = "done"
    BY <1>5 DEF FinalChunk, Goes, ReqType
  <2>2. calls = {} => Range(said') = Received /\ ends' = 1
    BY <1>1, <1>2, <1>5, <2>1 DEF Received, Told
  <2>3. calls = {} => Range(said') \ {Pre} = Range(got)
    BY <1>3, <2>2
  <2>. QED
    BY <1>1, <1>4, <2>1, <2>2, <2>3 DEF TellsAll
<1>6. CASE FinalText /\ client \in {"litellm", "gemini"}
  <2>1. /\ said' = said \o buffer \/ (buffer = <<>> /\ said' = said)
        /\ req'.phase = "done"
    BY <1>6 DEF FinalText, FinalChunk, Goes, ReqType
  <2>2. NoToolText
    BY <1>6 DEF Told
  <2>3. Received = Range(said) \union Range(buffer)
    BY <1>2, <2>2 DEF Received, NoToolText
  <2>4. Range(said') = Received
    BY <1>1, <1>2, <2>1, <2>3
  <2>5. Range(said') \ {Pre} = Range(got)
    BY <1>3, <2>4
  <2>6. IsInjective(said')
    BY <1>1, <2>1
  <2>. QED
    BY <1>4, <1>6, <2>1, <2>5, <2>6 DEF TellsAll
<1>7. CASE Rescue /\ calls = {}
  <2>1. CASE HandCall({})
    <3>1. said' = said /\ req'.phase = "called"
      BY <2>1 DEF HandCall, Goes, ReqType
    <3>. QED
      BY <1>1, <1>4, <1>7, <3>1 DEF TellsAll
  <2>2. CASE said' = said \o buffer \o Captured /\ ends' = ends + 1 /\ Goes("done")
    <3>1. Range(said') \ {Pre} = Range(got)
      BY <1>1, <1>3, <2>2
    <3>2. ends' = 1 /\ req'.phase = "done"
      BY <1>7, <2>2 DEF Told, Goes, ReqType
    <3>. QED
      BY <1>1, <1>4, <2>2, <3>1, <3>2 DEF TellsAll
  <2>. QED
    BY <1>7, <2>1, <2>2 DEF Rescue
<1>8. CASE HandCall(calls)
  <2>1. UNCHANGED <<said, buffer, calls, got>> /\ req'.phase = "called"
    BY <1>8 DEF HandCall, Goes, ReqType
  <2>. QED
    BY <1>1, <2>1 DEF TellsAll
<1>. QED
  BY <1>5, <1>6, <1>7, <1>8

(* No event makes the stream say a thing twice, forget one, or end unmarked. *)
LEMMA HandledTells ==
  ASSUME MadeInv, OutInv, Told, UNCHANGED client, req \in ReqType, req.phase = "stream",
         NEW e \in EventType, New(e), Handles(e)
  PROVE  TellsAll /\ (req' = req => Told')
<1>1. ASSUME Told' PROVE TellsAll \/ req' # req
  BY <1>1 DEF Told, Lines, TellsAll
<1>2. CASE OpenaiHandles(e)
  <2>1. CASE OpenaiChatEnds
    <3>1. req' # req /\ UNCHANGED tool
      BY <2>1 DEF OpenaiChatEnds, Rescue, Settle, FinalChunk, HandCall, Goes, ReqType
    <3>2. \/ FinalChunk /\ (Captured = <<>> \/ calls # {})
          \/ Rescue /\ calls = {}
          \/ HandCall(calls)
      BY <2>1 DEF OpenaiChatEnds, Settle
    <3>. QED
      BY <3>1, <3>2, EndTold
  <2>2. CASE ~OpenaiChatEnds
    <3>1. Told' /\ req' = req
      <4>1. CASE e.kind = "call" /\ TakeCall(e)
        BY <4>1, ToldCall DEF TakeCall
      <4>2. CASE e.kind = "open" /\ TakeOpening(e)
        BY <1>2, <4>2, ToldOpening DEF TakeOpening, New, OpenaiHandles
      <4>3. CASE e.kind = "text" /\ TakeText(e)
        BY <4>3, ToldText DEF TakeText, New
      <4>4. CASE e.kind = "text" /\ tool.open # <<>> /\ TakeToolText(e)
        BY <1>2, <4>4, ToldToolText DEF TakeToolText, New, OpenaiHandles
      <4>. QED
        BY <1>2, <2>2, <4>1, <4>2, <4>3, <4>4 DEF OpenaiHandles
    <3>. QED
      BY <1>1, <3>1
  <2>. QED
    BY <2>1, <2>2
<1>3. CASE LitellmHandles(e)
  <2>1. CASE LitellmChatEnds
    <3>1. req' # req /\ UNCHANGED tool
      BY <2>1 DEF LitellmChatEnds, FinalText, FinalChunk, HandCall, Goes, ReqType
    <3>2. \/ FinalText /\ client \in {"litellm", "gemini"}
          \/ HandCall(calls)
      BY <1>3, <2>1 DEF LitellmChatEnds, LitellmHandles
    <3>. QED
      BY <3>1, <3>2, EndTold
  <2>2. CASE ~LitellmChatEnds
    <3>1. Told' /\ req' = req
      BY <1>3, <2>2, ToldCall, ToldText DEF LitellmHandles, TakeCall, TakeText, New
    <3>. QED
      BY <1>1, <3>1
  <2>. QED
    BY <2>1, <2>2
<1>4. CASE GeminiHandles(e)
  <2>1. CASE GeminiChatEnds
    <3>1. req' # req /\ UNCHANGED tool /\ FinalText /\ client \in {"litellm", "gemini"}
      BY <1>4, <2>1 DEF GeminiChatEnds, GeminiHandles, FinalText, FinalChunk, Goes, ReqType
    <3>. QED
      BY <3>1, EndTold
  <2>2. CASE GeminiCall(e)
    <3>1. Told' /\ client = "gemini" /\ calls' # {}
      BY <1>4, <2>2, ToldGemini DEF GeminiCall, GeminiHandles, New
    <3>. QED
      BY <3>1 DEF Told, Lines, TellsAll
  <2>3. CASE e.kind = "text" /\ TakeText(e)
    <3>1. Told' /\ req' = req
      BY <2>3, ToldText DEF TakeText, New
    <3>. QED
      BY <1>1, <3>1
  <2>. QED
    BY <1>4, <2>1, <2>2, <2>3 DEF GeminiHandles
<1>5. CASE ChainHandles(e)
  <2>0. NoToolText
    BY <1>5 DEF ChainHandles, Told
  <2>1. CASE TakesId(e)
    BY <1>1, <2>1 DEF TakesId, outVars, Told, NoToolText, Received
  <2>2. CASE e.kind \in {"text", "call"} /\ (TakeText(e) \/ TakeCall(e))
    <3>1. Told' /\ req' = req
      <4>1. CASE e.kind = "text" /\ TakeText(e)
        BY <4>1, ToldText DEF TakeText, New
      <4>2. CASE TakeCall(e)
        BY <4>2, ToldCall DEF TakeCall
      <4>. QED
        BY <1>5, <2>2, <4>1, <4>2 DEF ChainHandles, Completes, Incomplete
    <3>. QED
      BY <1>1, <3>1
  <2>3. CASE Completes(e) \/ Incomplete
    <3>1. req' # req /\ UNCHANGED tool
      BY <2>3 DEF Completes, Incomplete, Settle, FinalChunk, HandCall, Goes, ReqType
    <3>2. Captured = <<>>
      BY <2>0 DEF Captured, NoToolText
    <3>3. FinalChunk \/ HandCall(calls)
      BY <2>3 DEF Completes, Incomplete, Settle
    <3>. QED
      BY <3>1, <3>2, <3>3, EndTold
  <2>4. CASE Fails
    <3>1. said' = <<>> /\ req'.phase = "failed"
      BY <2>4 DEF Fails, Afresh, Goes, ReqType
    <3>. QED
      BY <3>1, OnceShort DEF TellsAll
  <2>5. CASE Stale
    <3>1. said' = said /\ req'.phase \in {"lock", "failed"}
      BY <2>5 DEF Stale, Goes, ReqType
    <3>. QED
      BY <3>1 DEF TellsAll, Told, Lines
  <2>. QED
    BY <1>5, <2>1, <2>2, <2>3, <2>4, <2>5 DEF ChainHandles
<1>. QED
  BY <1>2, <1>3, <1>4, <1>5 DEF Handles

-----------------------------------------------------------------------------
(* A request starts with nothing said; while it streams, what it holds back    *)
(* comes before its call; when it has ended, nothing is left.                  *)
Fresh == /\ said = <<>> /\ buffer = <<>> /\ got = <<>> /\ calls = {} /\ ends = 0
         /\ NoToolText
Streamed ==
  /\ client \in {"openai", "azure"} /\ ~made[req.on].opened => NoToolText
  /\ req.via = "http" => calls \subseteq {req.on}
  /\ buffer # <<>> /\ calls # {} /\ client # "gemini" => ~OwnStream
DoneTells ==
  req.phase = "done" /\ calls = {} =>
    Spoken = Range(got) /\ (client \notin {"litellm", "gemini"} => ends = 1)
CalledTells ==
  req.phase = "called" /\ calls # {} /\ client # "gemini" /\ Captured = <<>> /\ OwnStream =>
    Spoken = Range(got)
Answer ==
  /\ IsInjective(said)
  /\ Starting => Fresh
  /\ req.phase = "stream" => Told /\ Streamed
  /\ DoneTells /\ CalledTells
AnswerInv == "fallback" \notin ghost => Answer

LEMMA FreshTold == ASSUME Fresh' PROVE Told' /\ IsInjective(said')
<1>1. /\ said' = <<>> /\ buffer' = <<>> /\ got' = <<>> /\ calls' = {} /\ ends' = 0
      /\ tool'.open = <<>> /\ tool'.captured = <<>>
  BY DEF Fresh, NoToolText
<1>2. Range(<<>>) = {} /\ IsInjective(<<>>)
  BY EmptyRange, OnceShort
<1>. QED
  BY <1>1, <1>2 DEF Told, Lines, Apart, NoToolText

LEMMA AfreshFresh == Afresh => Fresh'
  BY EmptyTool DEF Afresh, Fresh, NoToolText

LEMMA OwnStreamKept ==
  ASSUME TypeInv, Grown, req'.n = req.n, UNCHANGED <<got, calls>>
  PROVE  OwnStream' <=> OwnStream
<1>1. \A p \in Range(got) : p[1] \in Made /\ made'[p[1]].for = made[p[1]].for
  BY DEF TypeInv, OutInv, Counted, Grown
<1>2. \A c \in calls : c \in Made /\ made'[c].for = made[c].for
  BY DEF TypeInv, OutInv, Grown
<1>. QED
  BY <1>1, <1>2 DEF OwnStream

(* A step that starts a stream, and one that leaves the answer alone. *)
LEMMA AnswerStarts ==
  ASSUME Answer, Starting, UNCHANGED <<client, outVars>>, req'.phase = "stream"
  PROVE  Answer'
<1>1. Fresh /\ Fresh'
  BY DEF Answer, Fresh, NoToolText, outVars
<1>2. Streamed'
  BY <1>1 DEF Streamed, Fresh
<1>. QED
  BY <1>1, <1>2, FreshTold DEF Answer, Starting, DoneTells, CalledTells

LEMMA AnswerSame ==
  ASSUME TypeInv, Answer, Grown, UNCHANGED <<client, req, outVars>>, Starting' => Starting,
         client \in {"openai", "azure"} => made' = made
  PROVE  Answer'
<1>1. OwnStream' <=> OwnStream
  BY OwnStreamKept DEF outVars
<1>2. UNCHANGED <<client, req, said, buffer, tool, calls, ends, got>>
  BY DEF outVars
<1>3. req.phase = "stream" => Told' /\ Streamed'
  BY <1>1, <1>2 DEF Answer, Told, Streamed, NoToolText, Received
<1>4. DoneTells' /\ CalledTells'
  BY <1>1, <1>2 DEF Answer, DoneTells, CalledTells, Spoken, Captured
<1>5. Starting' => Fresh'
  BY <1>2 DEF Answer, Fresh, NoToolText
<1>. QED
  BY <1>2, <1>3, <1>4, <1>5 DEF Answer

(* A step that ends a stream. *)
LEMMA AnswerEnds ==
  ASSUME TypeInv, Told, Streamed, TellsAll, Grown, UNCHANGED client, req'.n = req.n,
         req'.phase # "stream", ~Starting'
  PROVE  Answer'
<1>1. DoneTells'
  BY DEF DoneTells, TellsAll, Spoken
<1>2. CalledTells'
  <2>. SUFFICES ASSUME req'.phase = "called", calls' # {}, client # "gemini", Captured' = <<>>,
                       OwnStream'
       PROVE  Spoken' = Range(got')
    BY DEF CalledTells
  <2>1. UNCHANGED <<said, buffer, tool, calls, got>>
    BY DEF TellsAll
  <2>2. buffer = <<>>
    BY <2>1, OwnStreamKept DEF Streamed
  <2>3. Captured = <<>>
    BY <2>1 DEF Captured
  <2>4. Range(tool.open) = {} /\ Range(tool.captured) = {} /\ Range(buffer) = {}
    <3>1. Range(Captured) = Range(tool.captured) \union Range(tool.open)
      BY OutTyped, RangeJoined DEF Captured, TypeInv
    <3>2. Range(Captured) = {}
      BY <2>3, EmptyRange
    <3>. QED
      BY <2>2, <3>1, <3>2, EmptyRange
  <2>5. Range(got) \subseteq Range(said)
    BY <2>4 DEF Told, Received
  <2>6. Range(said) \subseteq Range(got) \union {Pre} /\ Pre \notin Range(got)
    BY OutTyped DEF TypeInv
  <2>. QED
    BY <2>1, <2>5, <2>6 DEF Spoken
<1>. QED
  BY <1>1, <1>2 DEF Answer, TellsAll

(* What the stream holds back while an event is handled. *)
LEMMA HandledHolds ==
  ASSUME MadeInv, OutInv, NEW e \in EventType, Handles(e), req' = req, req.phase = "stream",
         req \in ReqType, client # "gemini"
  PROVE  \/ buffer' = <<>> \/ UNCHANGED <<buffer, calls, got>>
         \/ e.kind = "text" /\ UNCHANGED calls /\ e.piece \in Range(got')
<1>0. ASSUME got' = Append(got, e.piece) PROVE e.piece \in Range(got')
  <2>1. e.piece \in PieceType /\ got \in Seq(PieceType)
    BY DEF EventType, OutInv
  <2>. QED
    BY <1>0, <2>1, RangeAppended
<1>1. ~(FinalChunk \/ FinalText \/ Rescue \/ Settle \/ Fails \/ Stale \/ HandCall(calls))
  BY DEF FinalChunk, FinalText, Rescue, Settle, Fails, Stale, HandCall, Goes, ReqType
<1>2. /\ ~OpenaiChatEnds /\ ~LitellmChatEnds /\ ~GeminiChatEnds /\ ~Completes(e) /\ ~Incomplete
  BY <1>1 DEF OpenaiChatEnds, LitellmChatEnds, GeminiChatEnds, Completes, Incomplete
<1>3. CASE TakeCall(e) \/ TakeOpening(e) \/ TakesId(e)
  BY <1>3 DEF TakeCall, TakeOpening, TakesId, outVars
<1>4. CASE e.kind = "text" /\ (TakeText(e) \/ TakeToolText(e))
  BY <1>0, <1>4 DEF TakeText, TakeToolText
<1>. QED
  BY <1>1, <1>2, <1>3, <1>4
     DEF Handles, OpenaiHandles, LitellmHandles, GeminiHandles, ChainHandles

(* Only an opening begins a call written as text. *)
LEMMA HandledTool ==
  ASSUME NEW e, Handles(e), NoToolText, e.kind # "open"
  PROVE  NoToolText'
<1>1. CASE \/ TakeText(e) \/ TakeCall(e) \/ GeminiCall(e) \/ TakesId(e) \/ OpenaiChatEnds
           \/ LitellmChatEnds \/ GeminiChatEnds \/ Completes(e) \/ Incomplete
  BY <1>1 DEF TakeText, TakeCall, GeminiCall, TakesId, OpenaiChatEnds, LitellmChatEnds,
              GeminiChatEnds, Completes, Incomplete, outVars, NoToolText
<1>2. CASE Fails \/ Stale
  BY <1>2, EmptyTool DEF Fails, Afresh, Stale, NoToolText
<1>. QED
  BY <1>1, <1>2
     DEF Handles, OpenaiHandles, LitellmHandles, GeminiHandles, ChainHandles, NoToolText

LEMMA AnswerReceives ==
  ASSUME TypeInv, ModeInv, Answer, Receive, "fallback" \notin ghost
  PROVE  Answer'
<1>0. req \in ReqType
  BY DEF TypeInv, ReqInv
<1>1. /\ Grown /\ req.phase = "stream" /\ req.via = "http" /\ UNCHANGED <<client, lock, ghost>>
  BY HttpEvent
<1>2. PICK kind \in Events(req.on), e \in EventType :
        /\ AfterEvent(req.on, kind) /\ kind # "stale" /\ e = Event(kind, req.on)
        /\ Comes(e)' /\ Handles(e)
  BY HttpEvent
<1>3. PICK r \in Made : r = req.on
  BY HttpEvent
<1>4. /\ e.kind = kind /\ e.from = r /\ e.piece = <<r, made[r].n + 1>>
      /\ kind \in {"text", "call"} => ~made[r].called
      /\ kind = "open" => ~made[r].opened
      /\ made'[r].opened = (made[r].opened \/ kind = "open")
      /\ made[r].n \in Nat
  <2>1. made[r] \in ResponseType
    BY DEF TypeInv, MadeInv, Made
  <2>. QED
    BY <1>2, <1>3, <2>1, EventGrown DEF ResponseType
<1>5. Told /\ Streamed /\ calls \subseteq {r}
  BY <1>1, <1>3 DEF Answer, Streamed
<1>6. kind \in {"text", "call"} => calls = {}
  BY <1>4, <1>5 DEF TypeInv, OutInv
<1>7. New(e)
  <2>1. ~Counted(e.piece) /\ e.piece # Pre
    BY <1>4 DEF Counted, Pre
  <2>2. Unseen(e)
    BY <2>1 DEF Unseen, TypeInv, OutInv
  <2>3. kind = "open" => NoToolText
    BY <1>3, <1>4, <1>5 DEF Streamed, Told
  <2>. QED
    BY <1>4, <1>6, <2>2, <2>3 DEF New
<1>8. TellsAll /\ (req' = req => Told')
  BY <1>0, <1>1, <1>2, <1>5, <1>7, HandledTells DEF TypeInv
<1>9. req' = req \/ Ended
  BY <1>2, <1>4, HandledReq
<1>10. CASE Ended
  <2>1. req'.n = req.n /\ req'.phase # "stream" /\ ~Starting'
    BY <1>0, <1>10 DEF Ended, ReqType, Starting
  <2>. QED
    BY <1>1, <1>5, <1>8, <2>1, AnswerEnds
<1>11. CASE req' = req
  <2>1. client \in {"openai", "azure"} /\ ~made'[r].opened => NoToolText'
    <3>. SUFFICES ASSUME client \in {"openai", "azure"}, ~made'[r].opened PROVE NoToolText'
      OBVIOUS
    <3>1. ~made[r].opened /\ kind # "open"
      BY <1>4
    <3>2. NoToolText
      BY <1>3, <1>5, <3>1 DEF Streamed
    <3>. QED
      BY <1>2, <1>4, <3>1, <3>2, HandledTool
  <2>2. calls' \subseteq {r}
    BY <1>2, <1>4, <1>5, HandledGot DEF TypeInv
  <2>3. buffer' # <<>> /\ calls' # {} /\ client # "gemini" => ~OwnStream'
    <3>. SUFFICES ASSUME buffer' # <<>>, calls' # {}, client # "gemini" PROVE ~OwnStream'
      OBVIOUS
    <3>1. CASE UNCHANGED <<buffer, calls, got>>
      BY <1>1, <1>5, <1>11, <3>1, OwnStreamKept DEF Streamed
    <3>2. CASE kind = "text" /\ UNCHANGED calls
      BY <1>6, <3>2
    <3>. QED
      BY <1>0, <1>1, <1>2, <1>4, <1>11, <3>1, <3>2, HandledHolds DEF TypeInv
  <2>4. Streamed'
    BY <1>1, <1>3, <1>11, <2>1, <2>2, <2>3 DEF Streamed
  <2>5. IsInjective(said') /\ req'.phase = "stream"
    BY <1>1, <1>8, <1>11 DEF TellsAll
  <2>. QED
    BY <1>8, <1>11, <2>4, <2>5 DEF Answer, Starting, DoneTells, CalledTells
<1>. QED
  BY <1>9, <1>10, <1>11

LEMMA AnswerReads ==
  ASSUME TypeInv, OneInv, WireInv, Answer, ReadEvent, "fallback" \notin ghost
  PROVE  Answer'
<1>0. req \in ReqType
  BY DEF TypeInv, ReqInv
<1>1. /\ Grown /\ UNCHANGED <<client, made, lock, ghost>>
      /\ Reading /\ wire # <<>> /\ client = "websocket" /\ req.phase = "stream" /\ req.via = "ws"
  BY WsEvent DEF Reading
<1>2. PICK e \in EventType : e = Head(wire) /\ EventFits(e) /\ Handles(e)
  BY WsEvent
<1>3. 1 \in DOMAIN wire /\ e = wire[1]
  <2>1. wire \in Seq(EventType)
    BY DEF TypeInv, WsInv
  <2>2. /\ Len(wire) \in Nat \ {0} /\ Head(wire) = wire[1] /\ DOMAIN wire = 1..Len(wire)
    BY <1>1, <2>1, RangeShortened
  <2>. QED
    BY <1>2, <2>2
<1>4. /\ e.kind = "text" => /\ e.piece \notin Range(got) /\ e.from \notin calls
                            /\ Counted(e.piece) /\ e.piece[1] = e.from
      /\ e.kind # "open"
  BY <1>1, <1>2, <1>3 DEF WireInv, EventFits
<1>5. Told /\ Streamed
  BY <1>1 DEF Answer
<1>6. New(e)
  <2>1. ~Counted(Pre)
    BY DEF Counted, Pre
  <2>. QED
    BY <1>1, <1>4, <2>1 DEF New, Unseen
<1>7. TellsAll /\ (req' = req => Told')
  BY <1>0, <1>1, <1>2, <1>5, <1>6, HandledTells DEF TypeInv
<1>8. CASE req' # req
  <2>1. req'.n = req.n /\ req'.phase # "stream" /\ ~Starting'
    <3>1. CASE Ended
      BY <1>0, <3>1 DEF Ended, ReqType, Starting
    <3>2. CASE req' = [req EXCEPT !.phase = "lock", !.based = 0]
      <4>1. req'.n = req.n /\ req'.phase = "lock" /\ lock' = req.n
        BY <1>0, <1>1, <3>2 DEF ReqType, TypeInv, LockInv
      <4>. QED
        BY <4>1 DEF Starting, Deadlocked
    <3>. QED
      BY <1>2, <1>8, <3>1, <3>2, HandledReq
  <2>. QED
    BY <1>1, <1>5, <1>7, <2>1, AnswerEnds
<1>9. CASE req' = req
  <2>1. buffer' # <<>> /\ calls' # {} /\ client # "gemini" => ~OwnStream'
    <3>. SUFFICES ASSUME buffer' # <<>>, calls' # {}, client # "gemini" PROVE ~OwnStream'
      OBVIOUS
    <3>1. CASE UNCHANGED <<buffer, calls, got>>
      BY <1>1, <1>5, <1>9, <3>1, OwnStreamKept DEF Streamed
    <3>2. CASE e.kind = "text" /\ UNCHANGED calls /\ e.piece \in Range(got')
      <4>. SUFFICES ASSUME OwnStream' PROVE FALSE
        OBVIOUS
      <4>1. PICK c \in calls : c \in Made
        BY <3>2 DEF TypeInv, OutInv
      <4>2. made[c].for = req.n
        BY <1>1, <1>9, <3>2, <4>1 DEF OwnStream
      <4>3. e.from \in Made /\ made[e.from].for = req.n
        BY <1>1, <1>4, <1>9, <3>2 DEF OwnStream, Counted
      <4>4. c = req.on /\ e.from = req.on
        BY <1>1, <4>1, <4>2, <4>3 DEF OneInv
      <4>. QED
        BY <1>4, <3>2, <4>1, <4>4
    <3>. QED
      BY <1>0, <1>1, <1>2, <1>9, <3>1, <3>2, HandledHolds DEF TypeInv
  <2>2. Streamed'
    BY <1>1, <1>9, <2>1 DEF Streamed
  <2>3. IsInjective(said') /\ req'.phase = "stream"
    BY <1>1, <1>7, <1>9 DEF TellsAll
  <2>. QED
    BY <1>7, <1>9, <2>2, <2>3 DEF Answer, Starting, DoneTells, CalledTells
<1>. QED
  BY <1>8, <1>9

LEMMA AnswerStep ==
  TypeInv /\ ModeInv /\ OneInv /\ WireInv /\ AnswerInv /\ [Next]_vars => AnswerInv'
<1>. SUFFICES ASSUME TypeInv, ModeInv, OneInv, WireInv, AnswerInv, [Next]_vars,
                     "fallback" \notin ghost'
     PROVE  Answer'
  BY DEF AnswerInv
<1>0. req \in ReqType
  BY DEF TypeInv, ReqInv
<1>1. "fallback" \notin ghost
  BY DEF Next, Ask, Create, Refused, CreateFails, Receive, SendRequest, ConnectFails, Work, Drop,
         ReadEvent, ReadEnd, ReadRaises, Drain, Collect, Interrupt, ChangeHistory, FallsBack, vars
<1>2. Answer
  BY <1>1 DEF AnswerInv
<1>3. CASE Ask \/ Interrupt
  <2>1. Fresh'
    BY <1>3, AfreshFresh DEF Ask, Interrupt
  <2>2. req'.phase \in {"lock", "create", "idle"}
    <3>1. CASE Ask
      <4>1. req' = [n |-> req.n + 1, phase |-> IF client = "websocket" THEN "lock" ELSE "create",
                    via |-> IF client = "websocket" THEN "ws" ELSE "http", based |-> Based, on |-> 0]
        BY <3>1 DEF Ask
      <4>. QED
        BY <4>1
    <3>2. CASE Interrupt
      BY <1>0, <3>2 DEF Interrupt, Goes, ReqType
    <3>. QED
      BY <1>3, <3>1, <3>2
  <2>. QED
    BY <2>1, <2>2, FreshTold DEF Answer, DoneTells, CalledTells
<1>4. CASE Create
  <2>1. req.phase = "create" /\ UNCHANGED <<client, outVars>> /\ req'.phase = "stream"
    BY <1>0, <1>4 DEF Create, ReqType
  <2>. QED
    BY <1>2, <2>1, AnswerStarts DEF Starting, Deadlocked
<1>5. CASE SendRequest
  <2>1. /\ req.phase = "lock" /\ lock = 0 /\ req.n # 0 /\ UNCHANGED <<client, outVars>>
    BY <1>5 DEF SendRequest, Acquire, TypeInv, ReqInv
  <2>2. req'.phase = "stream"
    BY <1>0, <1>5 DEF SendRequest, Goes, ReqType
  <2>. QED
    BY <1>2, <2>1, <2>2, AnswerStarts DEF Starting, Deadlocked
<1>6. CASE Refused \/ CreateFails
  <2>1. req.phase = "create" /\ UNCHANGED outVars /\ client' = client
    BY <1>6 DEF Refused, CreateFails
  <2>2. Fresh
    BY <1>2, <2>1 DEF Answer, Starting, Deadlocked
  <2>3. /\ Fresh' /\ req'.phase \in {"create", "done", "failed"}
        /\ req'.phase = "done" => client = "litellm"
    <3>1. Fresh'
      BY <2>1, <2>2 DEF Fresh, NoToolText, outVars
    <3>. QED
      BY <1>0, <1>6, <2>1, <3>1 DEF Refused, CreateFails, Goes, ReqType
  <2>4. DoneTells'
    <3>1. Range(said') = {} /\ Range(got') = {}
      BY <2>3, EmptyRange DEF Fresh
    <3>. QED
      BY <2>1, <2>3, <3>1 DEF DoneTells, Spoken
  <2>. QED
    BY <2>3, <2>4, FreshTold DEF Answer, CalledTells
<1>7. CASE Receive
  BY <1>1, <1>2, <1>7, AnswerReceives
<1>8. CASE ReadEvent
  BY <1>1, <1>2, <1>8, AnswerReads
<1>9. CASE ConnectFails \/ ReadRaises
  BY <1>9 DEF ConnectFails, ReadRaises, FallsBack
<1>10. CASE ReadEnd
  <2>1. /\ Reading /\ Settle /\ UNCHANGED <<client, made, tool>>
    BY <1>10 DEF ReadEnd
  <2>2. Told /\ Streamed /\ client = "websocket" /\ NoToolText
    BY <1>2, <2>1 DEF Answer, Reading, TypeInv, ReqInv, Told
  <2>3. Captured = <<>>
    BY <2>2 DEF Captured, NoToolText
  <2>4. TellsAll
    BY <1>0, <2>1, <2>2, <2>3, EndTold DEF TypeInv, Settle
  <2>5. req'.n = req.n /\ req'.phase \in {"done", "called"}
    BY <1>0, <2>1 DEF Settle, FinalChunk, HandCall, Goes, ReqType
  <2>. QED
    BY <2>1, <2>2, <2>4, <2>5, AnswerEnds, SameGrown DEF Starting
<1>11. CASE Work
  <2>1. Grown /\ UNCHANGED <<client, req, outVars, lock>> /\ jobs # <<>>
    BY <1>11, WorkEvent DEF Work
  <2>2. client = "websocket"
    BY <2>1 DEF TypeInv, WsInv
  <2>. QED
    BY <1>2, <2>1, <2>2, AnswerSame DEF Starting, Deadlocked
<1>12. CASE Collect
  <2>1. UNCHANGED <<client, req, made, outVars>> /\ lock # 0 /\ ~HoldsLock
    BY <1>12 DEF Collect
  <2>2. Starting' => Starting
    BY <2>1 DEF Starting, Deadlocked, HoldsLock, TypeInv, ReqInv
  <2>. QED
    BY <1>2, <2>1, <2>2, AnswerSame, SameGrown
<1>13. CASE Drop \/ Drain \/ ChangeHistory \/ UNCHANGED vars
  <2>1. UNCHANGED <<client, req, made, outVars, lock>>
    BY <1>13 DEF Drop, Drain, ChangeHistory, vars
  <2>. QED
    BY <1>2, <2>1, AnswerSame, SameGrown DEF Starting, Deadlocked
<1>. QED
  BY <1>3, <1>4, <1>5, <1>6, <1>7, <1>8, <1>9, <1>10, <1>11, <1>12, <1>13 DEF Next

(* Unless a request was made again over HTTP, what its stream brought is       *)
(* spoken: once, to its end, and only the last chunk is marked as the end.     *)
THEOREM AnswersAreSaid == Spec => []AnswerSaid
<1>1. Init => ModeInv /\ OneInv /\ WireInv /\ AnswerInv
  <2>. SUFFICES ASSUME Init PROVE ModeInv /\ OneInv /\ WireInv /\ Answer
    BY DEF AnswerInv
  <2>1. /\ ghost = {} /\ req.phase = "idle" /\ wire = <<>> /\ made = <<>> /\ said = <<>>
    BY DEF Init
  <2>2. Made = {} /\ DOMAIN wire = {}
    BY <2>1 DEF Made
  <2>3. Answer
    BY <2>1, OnceShort DEF Answer, Starting, DoneTells, CalledTells
  <2>. QED
    BY <2>1, <2>2, <2>3 DEF ModeInv, Sent, OneInv, WireInv
<1>2. TypeInv /\ AnswerInv => AnswerSaid
  <2>. SUFFICES ASSUME TypeInv, AnswerInv, "fallback" \notin ghost
       PROVE  SaidOnce /\ WholeAnswer /\ EndMarked
    BY DEF AnswerSaid, SaidOnce, WholeAnswer, EndMarked
  <2>1. Answer
    BY DEF AnswerInv
  <2>2. SaidOnce
    BY <2>1 DEF Answer, SaidOnce, IsInjective
  <2>3. WholeAnswer /\ EndMarked
    BY <2>1 DEF Answer, DoneTells, CalledTells, Told, WholeAnswer, EndMarked
  <2>. QED
    BY <2>2, <2>3
<1>3. TypeInv /\ ModeInv /\ OneInv /\ WireInv /\ AnswerInv /\ [Next]_vars
        => ModeInv' /\ OneInv' /\ WireInv' /\ AnswerInv'
  BY ModeStep, OneStep, WireStep, AnswerStep
<1>. QED
  BY <1>1, <1>2, <1>3, TypeInvKept, PTL DEF Spec
=============================================================================
