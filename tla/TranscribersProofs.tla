------------------------ MODULE TranscribersProofs ------------------------
(* Theorems about Transcribers, for any providers and any number of segments   *)
(* the caller speaks.                                                          *)
EXTENDS Transcribers, TLAPS

-----------------------------------------------------------------------------
(* Types. *)
TurnType == [interim : 0..Segments, clock : BOOLEAN, final : Texts, sent : BOOLEAN,
             open : BOOLEAN, active : BOOLEAN, committed : BOOLEAN, eager : BOOLEAN]
VoiceType == [n : 0..Segments, stage : {"quiet", "talk", "said"}, owed : Texts]
GhostType == [said : SUBSET (1..Segments), forced : SUBSET (1..Segments)]
ClientTypes ==
  /\ provider \in Providers
  /\ stage \in {"connect", "stream", "closing", "done"}
  /\ link \in {"none", "open", "ended", "lost"}
  /\ on \in BOOLEAN /\ watch \in BOOLEAN /\ error \in BOOLEAN
  /\ audio \in {"none", "sent", "over"}
ListenerTypes == /\ heard \in Texts /\ speaking \in BOOLEAN
                 /\ asked \in {"no", "yes", "stale"}
                 /\ closes \in 0..2
CloseInv == /\ stage \in {"connect", "stream"} => closes = 0
            /\ stage = "closing" => closes <= 1

LEMMA TypesSplit ==
  TypeOK <=> /\ ClientTypes /\ ListenerTypes
             /\ voice \in VoiceType /\ turn \in TurnType /\ ghost \in GhostType
  BY DEF TypeOK, ClientTypes, ListenerTypes, VoiceType, TurnType, GhostType

(* What the resets and the notes of the clients make of a turn is a turn. *)
LEMMA TurnsTyped ==
  ASSUME NEW t \in TurnType
  PROVE  /\ Reset(t) \in TurnType /\ ClearTurn(t) \in TurnType /\ BeginTurn(t) \in TurnType
         /\ ElevenReset(t) \in TurnType /\ PixaReset(t) \in TurnType /\ OpenaiReset(t) \in TurnType
<1>1. <<>> \in Texts /\ 0 \in 0..Segments
  BY SegmentsAssumption DEF Texts
<1>. QED
  BY <1>1 DEF TurnType, Reset, ClearTurn, BeginTurn, ElevenReset, PixaReset, OpenaiReset

(* So are a turn with other marks on it, or with a partial text. *)
LEMMA NotesTyped ==
  ASSUME NEW t \in TurnType, NEW b \in BOOLEAN
  PROVE  /\ [t EXCEPT !.clock = b] \in TurnType /\ [t EXCEPT !.sent = b] \in TurnType
         /\ [t EXCEPT !.open = b] \in TurnType /\ [t EXCEPT !.active = b] \in TurnType
         /\ [t EXCEPT !.committed = b] \in TurnType /\ [t EXCEPT !.eager = b] \in TurnType
  BY DEF TurnType

LEMMA PartialTyped ==
  ASSUME NEW t \in TurnType, voice \in VoiceType
  PROVE  NotePartial(t) \in TurnType /\ NotePartial(t).final = t.final
  BY DEF TurnType, NotePartial, VoiceType

(* A segment that is being said, or was, is one. *)
LEMMA SegmentTyped ==
  ASSUME voice \in VoiceType, voice.n # 0
  PROVE  voice.n \in 1..Segments /\ <<voice.n>> \in Texts
  BY SegmentsAssumption DEF VoiceType, Texts

(* The listener takes packets of texts. *)
LEMMA ListenerTyped ==
  ASSUME ListenerTypes, NEW text \in Texts, NEW e \in BOOLEAN,
         \/ Interim \/ Transcript(text, e) \/ SpeechEnded \/ EagerEnd \/ TurnResumed \/ Nothing
  PROVE  ListenerTypes'
<1>1. heard \o text \in Texts
  BY DEF ListenerTypes, Texts
<1>2. listening \in BOOLEAN
  BY DEF listening
<1>3. heard' \in Texts /\ closes' \in 0..2
  BY <1>1 DEF ListenerTypes, Interim, Transcript, SpeechEnded, EagerEnd, TurnResumed, Nothing,
              listener
<1>4. speaking' \in BOOLEAN
  BY <1>2 DEF ListenerTypes, Interim, Transcript, SpeechEnded, EagerEnd, TurnResumed, Nothing,
              listener
<1>5. asked' \in {"no", "yes", "stale"}
  BY DEF ListenerTypes, Interim, Transcript, Ignored, Answered, MayCancel, SpeechEnded, EagerEnd,
         TurnResumed, Nothing, listener
<1>. QED
  BY <1>3, <1>4, <1>5 DEF ListenerTypes

(* The provider's messages leave the caller and the ghost typed. *)
Said == Talking => voice.n # 0
TypeInv == TypeOK /\ CloseInv /\ Said

LEMMA VoiceTyped ==
  ASSUME voice \in VoiceType, ghost \in GhostType, Said, Ongoing \/ Finalised \/ Falls
  PROVE  voice' \in VoiceType /\ ghost' \in GhostType /\ Said'
<1>1. CASE Ongoing
  BY <1>1 DEF Ongoing, Said, Talking
<1>2. CASE Finalised
  <2>1. voice.n \in 1..Segments
    BY <1>2, SegmentTyped DEF Finalised, Said
  <2>. QED
    BY <1>2, <2>1 DEF Finalised, Talking, VoiceType, GhostType, Said
<1>3. CASE Falls
  BY <1>3 DEF Falls, VoiceType, Said, Talking
<1>. QED
  BY <1>1, <1>2, <1>3

(* What a receiver leaves typed. *)
ReceiverTyped ==
  voice' \in VoiceType /\ ghost' \in GhostType /\ turn' \in TurnType /\ ListenerTypes' /\ Said'

LEMMA TalkTyped ==
  ASSUME voice \in VoiceType, Said, Talking
  PROVE  voice.n \in 1..Segments /\ <<voice.n>> \in Texts
  BY SegmentTyped DEF Said

LEMMA DeepgramTyped == ASSUME TypeInv, DeepgramReceiver PROVE ReceiverTyped
<1>1. /\ voice \in VoiceType /\ turn \in TurnType /\ ghost \in GhostType /\ ListenerTypes /\ Said
  BY TypesSplit DEF TypeInv
<1>2. turn.final \in Texts /\ \A s \in 1..Segments : Append(turn.final, s) \in Texts
  BY <1>1 DEF TurnType, Texts
<1>3. ASSUME Talking
      PROVE  NovaAppend \in TurnType /\ NovaAppend.final \in Texts
  <2>1. NotePartial(turn) \in TurnType /\ Append(turn.final, voice.n) \in Texts
        /\ NotePartial(turn).final = turn.final
    BY <1>1, <1>2, <1>3, TalkTyped, PartialTyped
  <2>. QED
    BY <2>1 DEF NovaAppend, TurnType
<1>4. \A t \in TurnType : [ClearTurn(t) EXCEPT !.sent = TRUE] \in TurnType
  BY <1>1, TurnsTyped DEF TurnType
<1>5. CASE NovaSpeechStarted
  BY <1>1, <1>5, VoiceTyped, TurnsTyped, ListenerTyped, <1>2 DEF NovaSpeechStarted, ReceiverTyped
<1>6. CASE NovaInterim
  <2>1. turn' \in TurnType /\ ListenerTypes'
    BY <1>1, <1>2, <1>6, PartialTyped, ListenerTyped DEF NovaInterim
  <2>. QED
    BY <1>1, <1>6, <2>1, VoiceTyped DEF NovaInterim, ReceiverTyped
<1>7. CASE NovaFinal
  <2>1. turn' \in TurnType /\ ListenerTypes'
    BY <1>1, <1>2, <1>3, <1>7, ListenerTyped DEF NovaFinal, Finalised
  <2>. QED
    BY <1>1, <1>7, <2>1, VoiceTyped DEF NovaFinal, ReceiverTyped
<1>8. CASE NovaSpeechFinal
  <2>1. turn' \in TurnType /\ ListenerTypes'
    BY <1>1, <1>3, <1>4, <1>8, ListenerTyped DEF NovaSpeechFinal, Finalised
  <2>. QED
    BY <1>1, <1>8, <2>1, VoiceTyped DEF NovaSpeechFinal, ReceiverTyped
<1>9. CASE NovaBlankFinal
  <2>1. turn' \in TurnType /\ ListenerTypes'
    BY <1>1, <1>2, <1>4, <1>9, ListenerTyped DEF NovaBlankFinal
  <2>. QED
    BY <1>1, <1>9, <2>1 DEF NovaBlankFinal, ReceiverTyped, Said, Talking
<1>10. CASE NovaUtteranceEnd
  <2>1. turn' \in TurnType /\ ListenerTypes'
    BY <1>1, <1>2, <1>4, <1>10, ListenerTyped, TurnsTyped DEF NovaUtteranceEnd
  <2>. QED
    BY <1>1, <1>10, <2>1, VoiceTyped DEF NovaUtteranceEnd, ReceiverTyped
<1>. QED
  BY <1>5, <1>6, <1>7, <1>8, <1>9, <1>10 DEF DeepgramReceiver

LEMMA FluxTyped == ASSUME TypeInv, FluxReceiver PROVE ReceiverTyped
<1>1. /\ voice \in VoiceType /\ turn \in TurnType /\ ghost \in GhostType /\ ListenerTypes /\ Said
  BY TypesSplit DEF TypeInv
<1>2. <<>> \in Texts /\ turn.eager \in BOOLEAN
  BY <1>1 DEF Texts, TurnType
<1>3. CASE FluxStart
  <2>1. turn' \in TurnType /\ ListenerTypes' /\ Ongoing
    <3>1. PICK partial \in BOOLEAN :
             /\ turn' = [BeginTurn(turn) EXCEPT !.final = <<>>, !.clock = @ \/ partial]
             /\ IF partial THEN Interim ELSE Nothing
      BY <1>3 DEF FluxStart
    <3>2. turn' \in TurnType
      <4>. DEFINE t == BeginTurn(turn)
      <4>1. t \in TurnType
        BY <1>1, TurnsTyped
      <4>2. turn' = [t EXCEPT !.final = <<>>, !.clock = t.clock \/ partial]
        BY <3>1
      <4>. HIDE DEF t
      <4>3. (t.clock \/ partial) \in BOOLEAN
        OBVIOUS
      <4>. QED
        BY <1>2, <4>1, <4>2, <4>3 DEF TurnType
    <3>. QED
      BY <1>1, <1>2, <1>3, <3>1, <3>2, ListenerTyped DEF FluxStart
  <2>. QED
    BY <1>1, <2>1, VoiceTyped DEF ReceiverTyped
<1>4. CASE FluxUpdate
  <2>1. turn' \in TurnType /\ ListenerTypes'
    BY <1>1, <1>2, <1>4, PartialTyped, ListenerTyped DEF FluxUpdate
  <2>. QED
    BY <1>1, <1>4, <2>1, VoiceTyped DEF FluxUpdate, ReceiverTyped
<1>5. CASE FluxEager
  <2>1. turn' \in TurnType
    BY <1>1, <1>5 DEF FluxEager, TurnType
  <2>2. ListenerTypes'
    BY <1>1, <1>2, <1>5, ListenerTyped DEF FluxEager
  <2>. QED
    BY <1>1, <1>5, <2>1, <2>2, VoiceTyped DEF FluxEager, ReceiverTyped
<1>6. CASE FluxResumed
  <2>1. turn' \in TurnType
    BY <1>1, <1>6 DEF FluxResumed, TurnType
  <2>2. ListenerTypes'
    BY <1>1, <1>2, <1>6, ListenerTyped DEF FluxResumed
  <2>. QED
    BY <1>1, <1>6, <2>1, <2>2, VoiceTyped DEF FluxResumed, ReceiverTyped
<1>7. CASE FluxEnd
  <2>1. turn' \in TurnType
    <3>1. Reset(turn) \in TurnType /\ turn' = [Reset(turn) EXCEPT !.eager = FALSE]
      BY <1>1, <1>7, TurnsTyped DEF FluxEnd
    <3>. QED
      BY <3>1 DEF TurnType
  <2>2. CASE Finalised /\ Transcript(<<voice.n>>, turn.eager)
    <3>1. <<voice.n>> \in Texts
      BY <1>1, <2>2, TalkTyped DEF Finalised
    <3>2. ListenerTypes'
      BY <1>1, <1>2, <2>2, <3>1, ListenerTyped
    <3>. QED
      BY <1>1, <2>1, <2>2, <3>2, VoiceTyped DEF ReceiverTyped
  <2>3. CASE Falls /\ (TurnResumed \/ Nothing)
    <3>1. ListenerTypes'
      BY <1>1, <1>2, <2>3, ListenerTyped
    <3>. QED
      BY <1>1, <2>1, <2>3, <3>1, VoiceTyped DEF ReceiverTyped
  <2>. QED
    BY <1>7, <2>2, <2>3 DEF FluxEnd
<1>. QED
  BY <1>3, <1>4, <1>5, <1>6, <1>7 DEF FluxReceiver

(* The clients that send a segment when it is final, and whose turn stays a    *)
(* turn.                                                                       *)
LEMMA OneTyped ==
  ASSUME TypeInv, turn' \in TurnType,
         \/ Ongoing /\ (Nothing \/ Interim)
         \/ Finalised /\ (Nothing \/ Transcript(<<voice.n>>, FALSE))
         \/ Falls /\ (Nothing \/ SpeechEnded \/ Transcript(turn.final, FALSE))
  PROVE  ReceiverTyped
<1>1. /\ voice \in VoiceType /\ turn \in TurnType /\ ghost \in GhostType /\ ListenerTypes /\ Said
  BY TypesSplit DEF TypeInv
<1>2. turn.final \in Texts
  BY <1>1 DEF TurnType
<1>3. voice' \in VoiceType /\ ghost' \in GhostType /\ Said'
  BY <1>1, VoiceTyped
<1>4. ListenerTypes'
  <2>1. CASE Nothing \/ Interim \/ SpeechEnded \/ Transcript(turn.final, FALSE)
    BY <1>1, <1>2, <2>1, ListenerTyped
  <2>2. CASE Finalised /\ Transcript(<<voice.n>>, FALSE)
    <3>1. <<voice.n>> \in Texts
      BY <1>1, <2>2, TalkTyped DEF Finalised
    <3>. QED
      BY <1>1, <2>2, <3>1, ListenerTyped
  <2>. QED
    BY <2>1, <2>2
<1>. QED
  BY <1>3, <1>4 DEF ReceiverTyped

LEMMA GladiaTyped == ASSUME TypeInv, GladiaReceiver PROVE ReceiverTyped
<1>1. voice \in VoiceType /\ turn \in TurnType
  BY TypesSplit DEF TypeInv
<1>2. turn' \in TurnType
  BY <1>1, TurnsTyped, PartialTyped DEF GladiaReceiver
<1>. QED
  BY <1>2, OneTyped DEF GladiaReceiver

LEMMA SmallestTyped == ASSUME TypeInv, SmallestReceiver PROVE ReceiverTyped
<1>1. voice \in VoiceType /\ turn \in TurnType /\ Said
  BY TypesSplit DEF TypeInv
<1>. DEFINE t == NotePartial(turn)
<1>2. t \in TurnType
  BY <1>1, PartialTyped
<1>3. CASE Ongoing /\ turn' = t /\ Interim
  BY <1>2, <1>3, OneTyped
<1>4. CASE /\ Finalised /\ Transcript(<<voice.n>>, FALSE)
           /\ turn' = [t EXCEPT !.final = Append(@, voice.n), !.sent = TRUE, !.interim = 0]
  <2>. HIDE DEF t
  <2>1. voice.n \in 1..Segments
    BY <1>1, <1>4, TalkTyped DEF Finalised
  <2>2. Append(t.final, voice.n) \in Texts
    BY <1>2, <2>1 DEF TurnType, Texts
  <2>3. 0 \in 0..Segments
    BY SegmentsAssumption
  <2>4. turn' \in TurnType
    BY <1>2, <1>4, <2>2, <2>3 DEF TurnType
  <2>. QED
    BY <1>4, <2>4, OneTyped
<1>. QED
  BY <1>3, <1>4 DEF SmallestReceiver

LEMMA ElevenlabsTyped == ASSUME TypeInv, ElevenlabsReceiver PROVE ReceiverTyped
<1>1. voice \in VoiceType /\ turn \in TurnType /\ Said
  BY TypesSplit DEF TypeInv
<1>. DEFINE t == NotePartial(turn)
<1>2. t \in TurnType
  BY <1>1, PartialTyped
<1>3. CASE /\ Ongoing /\ Interim
           /\ turn' = [t EXCEPT !.final = <<voice.n>>, !.sent = FALSE, !.open = TRUE]
  <2>. HIDE DEF t
  <2>1. <<voice.n>> \in Texts
    BY <1>1, <1>3, TalkTyped DEF Ongoing
  <2>2. turn' \in TurnType
    BY <1>2, <1>3, <2>1 DEF TurnType
  <2>. QED
    BY <1>3, <2>2, OneTyped
<1>4. CASE /\ Finalised
           /\ \/ turn' = turn /\ Nothing
              \/ /\ turn' \in {ElevenReset(turn), [ClearTurn(turn) EXCEPT !.sent = FALSE]}
                 /\ Transcript(<<voice.n>>, FALSE)
  <2>1. turn' \in TurnType
    BY <1>1, <1>4, TurnsTyped, NotesTyped
  <2>. QED
    BY <1>4, <2>1, OneTyped
<1>. QED
  BY <1>3, <1>4 DEF ElevenlabsReceiver

LEMMA PixaTyped == ASSUME TypeInv, PixaReceiver PROVE ReceiverTyped
<1>1. voice \in VoiceType /\ turn \in TurnType /\ Said
  BY TypesSplit DEF TypeInv
<1>2. CASE /\ Ongoing /\ Interim
           /\ turn' = [turn EXCEPT !.clock = TRUE, !.final = <<voice.n>>]
  <2>1. <<voice.n>> \in Texts
    BY <1>1, <1>2, TalkTyped DEF Ongoing
  <2>2. turn' \in TurnType
    BY <1>1, <1>2, <2>1 DEF TurnType
  <2>. QED
    BY <1>2, <2>2, OneTyped
<1>3. CASE Finalised /\ turn' = PixaReset(turn) /\ Transcript(<<voice.n>>, FALSE)
  BY <1>1, <1>3, TurnsTyped, OneTyped
<1>. QED
  BY <1>2, <1>3 DEF PixaReceiver

LEMMA SarvamTyped == ASSUME TypeInv, SarvamReceiver PROVE ReceiverTyped
<1>1. voice \in VoiceType /\ turn \in TurnType /\ <<>> \in Texts
  BY TypesSplit DEF TypeInv, Texts
<1>2. turn' \in TurnType
  BY <1>1 DEF SarvamReceiver, TurnType
<1>. QED
  BY <1>2, OneTyped DEF SarvamReceiver

LEMMA AssemblyaiTyped == ASSUME TypeInv, AssemblyaiReceiver PROVE ReceiverTyped
<1>1. voice \in VoiceType /\ turn \in TurnType /\ 0 \in 0..Segments
  BY TypesSplit, SegmentsAssumption DEF TypeInv
<1>2. turn' \in TurnType
  BY <1>1 DEF AssemblyaiReceiver, TurnType, VoiceType
<1>. QED
  BY <1>2, OneTyped DEF AssemblyaiReceiver

LEMMA GoogleTyped == ASSUME TypeInv, GoogleReceiver PROVE ReceiverTyped
<1>1. turn \in TurnType
  BY TypesSplit DEF TypeInv
<1>. QED
  BY <1>1, OneTyped DEF GoogleReceiver

LEMMA AzureTyped == ASSUME TypeInv, AzureReceiver PROVE ReceiverTyped
<1>1. voice \in VoiceType /\ turn \in TurnType /\ 0 \in 0..Segments
  BY TypesSplit, SegmentsAssumption DEF TypeInv
<1>2. turn' \in TurnType
  BY <1>1 DEF AzureReceiver, AzureRecognizing, AzureRecognized, TurnType, VoiceType
<1>. QED
  BY <1>2, OneTyped DEF AzureReceiver, AzureRecognizing, AzureRecognized

(* The first of the owed texts, and the others. *)
LEMMA OwedTyped ==
  ASSUME voice \in VoiceType, voice.owed # <<>>
  PROVE  /\ Head(voice.owed) \in 1..Segments /\ <<Head(voice.owed)>> \in Texts
         /\ Tail(voice.owed) \in Texts /\ Head(voice.owed) \in 0..Segments
  BY SegmentsAssumption DEF VoiceType, Texts

LEMMA OpenaiTyped == ASSUME TypeInv, OpenaiReceiver PROVE ReceiverTyped
<1>1. /\ voice \in VoiceType /\ turn \in TurnType /\ ghost \in GhostType /\ ListenerTypes /\ Said
      /\ <<>> \in Texts
  BY TypesSplit DEF TypeInv, Texts
<1>2. CASE OpenaiSpeechStarted
  <2>1. turn' \in TurnType
    <3>1. BeginTurn(turn) \in TurnType /\ turn' = [BeginTurn(turn) EXCEPT !.active = TRUE]
      BY <1>1, <1>2, TurnsTyped DEF OpenaiSpeechStarted
    <3>. QED
      BY <3>1, NotesTyped DEF TurnType
  <2>. QED
    BY <1>2, <2>1, OneTyped DEF OpenaiSpeechStarted
<1>3. CASE OpenaiSpeechStopped
  <2>1. Append(voice.owed, voice.n) \in Texts
    BY <1>1, <1>3, TalkTyped DEF OpenaiSpeechStopped, VoiceType, Texts
  <2>2. voice' \in VoiceType /\ turn' \in TurnType /\ Said'
    BY <1>1, <1>3, <2>1 DEF OpenaiSpeechStopped, VoiceType, TurnType, Said, Talking
  <2>3. ListenerTypes'
    BY <1>1, <1>3, ListenerTyped DEF OpenaiSpeechStopped
  <2>. QED
    BY <1>1, <1>3, <2>2, <2>3 DEF OpenaiSpeechStopped, ReceiverTyped
<1>4. CASE OpenaiDelta
  <2>1. turn' \in TurnType
    BY <1>1, <1>4, OwedTyped DEF OpenaiDelta, TurnType
  <2>2. ListenerTypes'
    BY <1>1, <1>4, ListenerTyped DEF OpenaiDelta
  <2>. QED
    BY <1>1, <1>4, <2>1, <2>2 DEF OpenaiDelta, ReceiverTyped, Said, Talking
<1>5. ASSUME voice.owed # <<>>, Settle PROVE voice' \in VoiceType /\ Said'
  BY <1>1, <1>5, OwedTyped DEF Settle, VoiceType, Said, Talking
<1>6. CASE OpenaiCompleted
  <2>1. turn' \in TurnType /\ ghost' \in GhostType
    BY <1>1, <1>6, OwedTyped, TurnsTyped DEF OpenaiCompleted, GhostType
  <2>2. ListenerTypes'
    BY <1>1, <1>6, OwedTyped, ListenerTyped DEF OpenaiCompleted
  <2>. QED
    BY <1>5, <1>6, <2>1, <2>2 DEF OpenaiCompleted, ReceiverTyped
<1>7. CASE OpenaiFailed
  <2>1. ListenerTypes'
    BY <1>1, <1>7, ListenerTyped DEF OpenaiFailed
  <2>. QED
    BY <1>1, <1>5, <1>7, <2>1, TurnsTyped DEF OpenaiFailed, ReceiverTyped
<1>. QED
  BY <1>2, <1>3, <1>4, <1>6, <1>7 DEF OpenaiReceiver

(* The segments of a text. *)
LEMMA TextElements ==
  ASSUME NEW text \in Texts
  PROVE  /\ Len(text) \in Nat /\ DOMAIN text = 1..Len(text)
         /\ \A i \in DOMAIN text : text[i] \in 1..Segments
         /\ ToSet(text) \subseteq 1..Segments
<1>. DEFINE S == 1..Segments
<1>1. text \in Seq(S)
  BY DEF Texts
<1>. HIDE DEF S
<1>2. /\ Len(text) \in Nat /\ DOMAIN text = 1..Len(text)
      /\ \A i \in 1..Len(text) : text[i] \in S
  BY <1>1
<1>3. ToSet(text) \subseteq S
  BY <1>2 DEF ToSet
<1>. QED
  BY <1>2, <1>3 DEF S

(* What the time limits send is a text. *)
LEMMA PendingTyped == ASSUME turn \in TurnType PROVE Pending \in Texts \/ Pending = <<>>
<1>1. turn.interim # 0 => <<turn.interim>> \in Texts
  BY SegmentsAssumption DEF TurnType, Texts
<1>. QED
  BY <1>1 DEF Pending, TurnType

LEMMA ForcedTyped ==
  ASSUME TypeInv, NEW p, NEW text \in Texts, NEW t \in TurnType, ForceFinalize(p, text, t)
  PROVE  ReceiverTyped /\ ClientTypes'
<1>1. /\ voice \in VoiceType /\ ghost \in GhostType /\ ListenerTypes /\ Said /\ ClientTypes
  BY TypesSplit DEF TypeInv
<1>2. ToSet(text) \subseteq 1..Segments
  BY TextElements
<1>3. ghost' \in GhostType
  BY <1>1, <1>2 DEF ForceFinalize, GhostType
<1>4. ListenerTypes'
  BY <1>1, ListenerTyped DEF ForceFinalize
<1>. QED
  BY <1>1, <1>3, <1>4 DEF ForceFinalize, ReceiverTyped, Said, Talking, ClientTypes, client

LEMMA TimeoutTyped == ASSUME TypeInv, UtteranceTimeout PROVE ReceiverTyped /\ ClientTypes'
<1>1. /\ voice \in VoiceType /\ turn \in TurnType /\ ghost \in GhostType /\ ListenerTypes
      /\ ClientTypes /\ Said
  BY TypesSplit DEF TypeInv
<1>2. Pending \in Texts /\ turn.final \in Texts
  <2>1. <<>> \in Texts
    BY DEF Texts
  <2>2. turn.final \in Texts
    BY <1>1 DEF TurnType
  <2>. QED
    BY <1>1, <2>1, <2>2, PendingTyped
<1>3. CASE OpenaiTimeout
  BY <1>1, <1>3, TurnsTyped
     DEF OpenaiTimeout, ReceiverTyped, ListenerTypes, listener, ClientTypes, client, Said, Talking
<1>4. CASE DeepgramTimeout \/ GladiaTimeout \/ SmallestTimeout \/ ElevenlabsTimeout \/ PixaTimeout
  BY <1>1, <1>2, <1>4, ForcedTyped, TurnsTyped
     DEF DeepgramTimeout, GladiaTimeout, SmallestTimeout, ElevenlabsTimeout, PixaTimeout
<1>. QED
  BY <1>3, <1>4 DEF UtteranceTimeout

LEMMA SenderTyped == ASSUME TypeInv, SendAudio PROVE TypeInv'
<1>1. /\ voice \in VoiceType /\ turn \in TurnType /\ ghost \in GhostType /\ ListenerTypes
      /\ ClientTypes /\ Said /\ CloseInv
  BY TypesSplit DEF TypeInv
<1>2. BeginTurn(turn) \in TurnType /\ Opened \in TurnType /\ [turn EXCEPT !.committed = TRUE] \in TurnType
  BY <1>1, TurnsTyped, NotesTyped DEF Opened
<1>3. ASSUME NEW p, NEW opened \in TurnType, NEW ended \in TurnType, NEW cut, Sender(p, opened, ended, cut)
      PROVE  TypeInv'
  <2>1. turn' \in TurnType /\ ClientTypes'
    BY <1>1, <1>3 DEF Sender, ClientTypes
  <2>2. CloseInv' /\ Said' /\ ListenerTypes'
    BY <1>1, <1>3 DEF Sender, CloseInv, Said, Talking, ListenerTypes, listener
  <2>3. UNCHANGED <<voice, ghost>>
    BY <1>3 DEF Sender
  <2>. QED
    BY <1>1, <2>1, <2>2, <2>3, TypesSplit DEF TypeInv, TypeOK, ClientTypes, ListenerTypes, VoiceType, TurnType, GhostType
<1>. QED
  BY <1>1, <1>2, <1>3
     DEF SendAudio, DeepgramSender, GladiaSender, SmallestSender, ElevenlabsSender, SarvamSender,
         AssemblyaiSender, PixaSender, OpenaiSender, GoogleSender, AzureSender

LEMMA TypeStep == TypeInv /\ [Next]_vars => TypeInv'
<1>. SUFFICES ASSUME TypeInv, [Next]_vars PROVE TypeInv'
  OBVIOUS
<1>1. /\ voice \in VoiceType /\ turn \in TurnType /\ ghost \in GhostType /\ ListenerTypes
      /\ ClientTypes /\ Said /\ CloseInv
  BY TypesSplit DEF TypeInv
<1>2. ASSUME ReceiverTyped, ClientTypes', UNCHANGED <<stage, closes>> PROVE TypeInv'
  BY <1>1, <1>2, TypesSplit
     DEF TypeInv, ReceiverTyped, CloseInv, TypeOK, ClientTypes, ListenerTypes, VoiceType, TurnType, GhostType
<1>3. CASE \/ DeepgramReceiver \/ FluxReceiver \/ GladiaReceiver \/ SmallestReceiver
           \/ ElevenlabsReceiver \/ PixaReceiver \/ SarvamReceiver \/ AssemblyaiReceiver
           \/ OpenaiReceiver \/ GoogleReceiver \/ AzureReceiver
  <2>1. ReceiverTyped
    BY <1>3, DeepgramTyped, FluxTyped, GladiaTyped, SmallestTyped, ElevenlabsTyped, PixaTyped,
       SarvamTyped, AssemblyaiTyped, OpenaiTyped, GoogleTyped, AzureTyped
  <2>2. Receives /\ UNCHANGED client
    BY <1>3 DEF DeepgramReceiver, FluxReceiver, GladiaReceiver, SmallestReceiver, ElevenlabsReceiver,
                PixaReceiver, SarvamReceiver, AssemblyaiReceiver, OpenaiReceiver, GoogleReceiver,
                AzureReceiver, Receives
  <2>3. UNCHANGED closes
    BY <1>3 DEF DeepgramReceiver, FluxReceiver, GladiaReceiver, SmallestReceiver, ElevenlabsReceiver,
                PixaReceiver, SarvamReceiver, AssemblyaiReceiver, OpenaiReceiver, GoogleReceiver,
                AzureReceiver, NovaSpeechStarted, NovaInterim, NovaFinal, NovaSpeechFinal,
                NovaBlankFinal, NovaUtteranceEnd, FluxStart, FluxUpdate, FluxEager, FluxResumed,
                FluxEnd, OpenaiSpeechStarted, OpenaiSpeechStopped, OpenaiDelta, OpenaiCompleted,
                OpenaiFailed, AzureRecognizing, AzureRecognized, Interim, Transcript, SpeechEnded,
                EagerEnd, TurnResumed, Nothing, listener
  <2>. QED
    BY <1>1, <1>2, <2>1, <2>2, <2>3 DEF client, ClientTypes
<1>4. CASE UtteranceTimeout
  <2>1. UNCHANGED <<stage, closes>>
    BY <1>4 DEF UtteranceTimeout, OpenaiTimeout, DeepgramTimeout, GladiaTimeout, SmallestTimeout,
                ElevenlabsTimeout, PixaTimeout, ForceFinalize, Transcript, client, listener
  <2>. QED
    BY <1>2, <1>4, <2>1, TimeoutTyped
<1>5. CASE Speak
  <2>1. voice.n \in 0..Segments /\ voice.n < Segments /\ voice.n + 1 \in 1..Segments
    BY <1>1, <1>5, SegmentsAssumption DEF Speak, VoiceType
  <2>3. voice' \in VoiceType /\ voice'.n # 0
    <3>1. voice' = [voice EXCEPT !.n = voice.n + 1, !.stage = "talk"]
      BY <1>5 DEF Speak
    <3>2. voice.n + 1 \in 0..Segments /\ voice.n + 1 # 0
      BY <2>1
    <3>. QED
      BY <1>1, <3>1, <3>2 DEF VoiceType
  <2>2. UNCHANGED <<client, turn, listener, ghost>>
    BY <1>5 DEF Speak
  <2>. QED
    BY <1>1, <1>2, <2>2, <2>3 DEF ReceiverTyped, client, listener, ClientTypes, ListenerTypes, Said
<1>6. CASE UNCHANGED vars
  BY <1>1, <1>2, <1>6 DEF vars, ReceiverTyped, ClientTypes, ListenerTypes, Said, Talking
<1>7. ASSUME UNCHANGED <<voice, turn, ghost, heard, speaking, asked>>, ClientTypes', CloseInv',
             closes' \in 0..2
      PROVE  TypeInv'
  BY <1>1, <1>7, TypesSplit
     DEF TypeInv, TypeOK, ClientTypes, ListenerTypes, VoiceType, TurnType, GhostType, Said, Talking
<1>8. Run.watch \in BOOLEAN /\ Run.unmade \in BOOLEAN /\ Run.dropped \in BOOLEAN
      /\ Run.guard \in BOOLEAN /\ Run.fails \in {1, 2}
  <2>1. provider \in Clients
    BY <1>1, ProvidersAssumption DEF ClientTypes
  <2>. QED
    BY <2>1 DEF Run, DeepgramRun, FluxRun, GladiaRun, SmallestRun, ElevenlabsRun, SarvamRun,
                AssemblyaiRun, PixaRun, OpenaiRun, GoogleRun, AzureRun, Clients
<1>9. CASE Connect
  BY <1>1, <1>7, <1>8, <1>9 DEF Connect, listener, ClientTypes, CloseInv, ListenerTypes
<1>10. CASE ConnectFails
  BY <1>1, <1>7, <1>8, <1>10 DEF ConnectFails, Closed, ClientTypes, CloseInv, ListenerTypes
<1>11. CASE LinkEnds \/ Toggle
  BY <1>1, <1>7, <1>11 DEF LinkEnds, Toggle, listener, ClientTypes, CloseInv, ListenerTypes
<1>12. CASE SessionEnds
  BY <1>1, <1>7, <1>12 DEF SessionEnds, Closed, ClientTypes, CloseInv, ListenerTypes
<1>14. CASE Finish
  <2>1. closes' \in 0..2 /\ stage' = "done"
    BY <1>1, <1>14 DEF Finish, Closed, CloseInv, ListenerTypes
  <2>2. UNCHANGED <<voice, turn, ghost, heard, speaking, asked>> /\ ClientTypes'
    BY <1>1, <1>14 DEF Finish, Closed, ClientTypes
  <2>. QED
    BY <1>7, <2>1, <2>2 DEF CloseInv
<1>13. CASE ReceiverEnds
  <2>1. error' \in BOOLEAN /\ watch' \in BOOLEAN
    BY <1>1, <1>8, <1>13 DEF ReceiverEnds, ClientTypes
  <2>. QED
    BY <1>1, <1>7, <1>13, <2>1 DEF ReceiverEnds, listener, ClientTypes, CloseInv, ListenerTypes
<1>. QED
  BY <1>3, <1>4, <1>5, <1>6, <1>9, <1>10, <1>11, <1>12, <1>13, <1>14, SenderTyped DEF Next

LEMMA TypeInvKept == Spec => []TypeInv
<1>1. Init => TypeInv
  <2>. SUFFICES ASSUME Init PROVE TypeInv
    OBVIOUS
  <2>1. <<>> \in Texts /\ 0 \in 0..Segments
    BY SegmentsAssumption DEF Texts
  <2>2. voice \in VoiceType /\ turn \in TurnType /\ ghost \in GhostType
    BY <2>1 DEF Init, FreshTurn, VoiceType, TurnType, GhostType
  <2>3. ClientTypes
    BY DEF Init, ClientTypes
  <2>4. Said
    BY DEF Init, Said, Talking
  <2>6. ListenerTypes
    <3>1. heard \in Texts
      BY <2>1 DEF Init
    <3>2. closes = 0 /\ speaking = FALSE /\ asked = "no"
      BY DEF Init
    <3>3. closes \in 0..2
      BY <3>2
    <3>. QED
      BY <3>1, <3>2, <3>3 DEF ListenerTypes
  <2>5. CloseInv
    BY DEF Init, CloseInv
  <2>. QED
    BY <2>2, <2>3, <2>4, <2>5, <2>6, TypesSplit DEF TypeInv
<1>. QED
  BY <1>1, TypeStep, PTL DEF Spec

(* Every variable has its type. *)
THEOREM TypeCorrect == Spec => []TypeOK
<1>1. TypeInv => TypeOK
  BY DEF TypeInv
<1>. QED
  BY <1>1, TypeInvKept, PTL

-----------------------------------------------------------------------------
(* Texts. A text rises; it fits what was heard if that comes before it, but    *)
(* for segments that were forced, and if it is of what has been spoken.        *)
Rising(s) == \A i, j \in DOMAIN s : i < j => s[i] < s[j]
Follows(text, hd, forced) ==
  \A i \in DOMAIN hd, k \in DOMAIN text :
    hd[i] <= text[k] /\ (hd[i] = text[k] => text[k] \in forced)
Fits(text, hd, forced, n) ==
  Rising(text) /\ Follows(text, hd, forced) /\ \A k \in DOMAIN text : text[k] <= n

(* What was heard: in order, of what was spoken, known and not twice.          *)
Good(hd, said, forced, n) ==
  /\ \A i \in DOMAIN hd : hd[i] <= n /\ hd[i] \in said \union forced
  /\ \A i, j \in DOMAIN hd : i < j => hd[i] <= hd[j]
  /\ \A i, j \in DOMAIN hd : i < j /\ hd[i] = hd[j] => hd[i] \in forced

(* The segments of two texts in a row. *)
LEMMA Joined ==
  ASSUME NEW a \in Texts, NEW b \in Texts
  PROVE  /\ a \o b \in Texts /\ DOMAIN (a \o b) = 1..(Len(a) + Len(b))
         /\ \A i \in DOMAIN a : (a \o b)[i] = a[i]
         /\ \A i \in DOMAIN (a \o b) : i \in DOMAIN a
              \/ (i - Len(a) \in DOMAIN b /\ (a \o b)[i] = b[i - Len(a)])
         /\ ToSet(a \o b) = ToSet(a) \union ToSet(b)
<1>. DEFINE S == 1..Segments
<1>1. a \in Seq(S) /\ b \in Seq(S)
  BY DEF Texts
<1>. HIDE DEF S
<1>2. a \o b \in Seq(S) /\ Len(a) \in Nat /\ Len(b) \in Nat
      /\ DOMAIN a = 1..Len(a) /\ DOMAIN b = 1..Len(b) /\ Len(a \o b) = Len(a) + Len(b)
      /\ DOMAIN (a \o b) = 1..(Len(a) + Len(b))
  BY <1>1
<1>3. \A i \in 1..Len(a) : (a \o b)[i] = a[i]
  BY <1>1, <1>2
<1>4. \A i \in 1..(Len(a) + Len(b)) : i > Len(a) => (a \o b)[i] = b[i - Len(a)]
  BY <1>1, <1>2
<1>5. \A i \in DOMAIN (a \o b) : i \in DOMAIN a \/ (i - Len(a) \in DOMAIN b /\ (a \o b)[i] = b[i - Len(a)])
  BY <1>2, <1>4
<1>6. \A j \in DOMAIN b : j + Len(a) \in DOMAIN (a \o b) /\ (a \o b)[j + Len(a)] = b[j]
  <2>. SUFFICES ASSUME NEW j \in 1..Len(b)
                PROVE  j + Len(a) \in 1..(Len(a) + Len(b)) /\ (a \o b)[j + Len(a)] = b[j]
    BY <1>2
  <2>1. j + Len(a) \in 1..(Len(a) + Len(b)) /\ j + Len(a) > Len(a) /\ (j + Len(a)) - Len(a) = j
    BY <1>2
  <2>. QED
    BY <1>4, <2>1
<1>7. \A i \in DOMAIN a : i \in DOMAIN (a \o b)
  BY <1>2
<1>8. ToSet(a \o b) = ToSet(a) \union ToSet(b)
  <2>1. \A x \in ToSet(a \o b) : x \in ToSet(a) \union ToSet(b)
    BY <1>2, <1>3, <1>5 DEF ToSet
  <2>2. \A x \in ToSet(a) : x \in ToSet(a \o b)
    BY <1>2, <1>3, <1>7 DEF ToSet
  <2>3. \A x \in ToSet(b) : x \in ToSet(a \o b)
    BY <1>6 DEF ToSet
  <2>. QED
    BY <2>1, <2>2, <2>3
<1>. QED
  BY <1>2, <1>3, <1>5, <1>8 DEF Texts, S

(* A text that fits can be heard. *)
LEMMA HearText ==
  ASSUME NEW hd \in Texts, NEW text \in Texts, NEW said, NEW forced, NEW more, NEW also,
         NEW n \in Nat, Good(hd, said, forced, n), Fits(text, hd, also, n),
         said \subseteq more, forced \subseteq also, ToSet(text) \subseteq more \union also
  PROVE  Good(hd \o text, more, also, n)
<1>. DEFINE h == hd \o text
<1>1. /\ DOMAIN h = 1..(Len(hd) + Len(text))
      /\ \A i \in DOMAIN hd : h[i] = hd[i]
      /\ \A i \in DOMAIN h : i \in DOMAIN hd \/ (i - Len(hd) \in DOMAIN text /\ h[i] = text[i - Len(hd)])
  BY Joined
<1>2. /\ Len(hd) \in Nat /\ DOMAIN hd = 1..Len(hd)
      /\ Len(text) \in Nat /\ DOMAIN text = 1..Len(text)
      /\ \A i \in DOMAIN hd : hd[i] \in Int
      /\ \A k \in DOMAIN text : text[k] \in Int /\ text[k] \in more \union also
  BY TextElements DEF ToSet
<1>. HIDE DEF h
<1>3. \A i \in DOMAIN h : h[i] <= n /\ h[i] \in more \union also
  BY <1>1, <1>2 DEF Good, Fits
<1>4. ASSUME NEW i \in DOMAIN h, NEW j \in DOMAIN h, i < j
      PROVE  h[i] <= h[j] /\ (h[i] = h[j] => h[i] \in also)
  <2>0. i \in Int /\ j \in Int
    BY <1>1
  <2>1. CASE i \in DOMAIN hd /\ j \in DOMAIN hd
    BY <1>1, <1>4, <2>1 DEF Good
  <2>2. CASE i \in DOMAIN hd /\ j \notin DOMAIN hd
    <3>1. j - Len(hd) \in DOMAIN text /\ h[j] = text[j - Len(hd)] /\ h[i] = hd[i]
      BY <1>1, <2>2
    <3>. QED
      BY <2>2, <3>1 DEF Fits, Follows
  <2>3. CASE i \notin DOMAIN hd /\ j \notin DOMAIN hd
    <3>1. /\ i - Len(hd) \in DOMAIN text /\ h[i] = text[i - Len(hd)]
          /\ j - Len(hd) \in DOMAIN text /\ h[j] = text[j - Len(hd)]
          /\ i - Len(hd) < j - Len(hd)
      BY <1>1, <1>2, <1>4, <2>0, <2>3
    <3>2. h[i] < h[j] /\ h[i] \in Int /\ h[j] \in Int
      BY <1>2, <3>1 DEF Fits, Rising
    <3>. QED
      BY <3>2
  <2>4. i \notin DOMAIN hd => j \notin DOMAIN hd
    BY <1>1, <1>2, <1>4, <2>0
  <2>. QED
    BY <2>1, <2>2, <2>3, <2>4
<1>. QED
  BY <1>3, <1>4 DEF Good, h

(* A segment that was not finalised can be heard, if none after it was spoken. *)
LEMMA LastFits ==
  ASSUME NEW hd \in Texts, NEW said, NEW forced, NEW n \in 1..Segments,
         Good(hd, said, forced, n), n \notin said
  PROVE  Fits(<<n>>, hd, forced, n)
<1>1. n \in Int /\ <<n>>[1] = n /\ DOMAIN <<n>> = {1}
  BY SegmentsAssumption
<1>. QED
  BY <1>1 DEF Fits, Rising, Follows, Good

(* An empty text fits, and one that fitted fits when more was spoken or forced. *)
LEMMA EmptyFits ==
  ASSUME NEW hd, NEW forced, NEW n
  PROVE  Fits(<<>>, hd, forced, n)
  BY DEF Fits, Rising, Follows

LEMMA StillFits ==
  ASSUME NEW text \in Texts, NEW hd, NEW forced, NEW also, NEW n \in Nat, NEW m \in Nat,
         Fits(text, hd, forced, n), forced \subseteq also, n <= m
  PROVE  Fits(text, hd, also, m)
<1>1. \A k \in DOMAIN text : text[k] \in Int
  BY TextElements
<1>2. \A k \in DOMAIN text : text[k] <= m
  BY <1>1 DEF Fits
<1>. QED
  BY <1>2 DEF Fits, Follows

LEMMA StillGood ==
  ASSUME NEW hd \in Texts, NEW said, NEW forced, NEW more, NEW also, NEW n \in Nat, NEW m \in Nat,
         Good(hd, said, forced, n), said \subseteq more, forced \subseteq also, n <= m
  PROVE  Good(hd, more, also, m)
<1>1. \A k \in DOMAIN hd : hd[k] \in Int
  BY TextElements
<1>. QED
  BY <1>1 DEF Good

-----------------------------------------------------------------------------
(* What keeps the words that are heard right: the segment being said is not    *)
(* final; what was heard is good; what the time limit could send fits it; the  *)
(* texts OpenAI still owes fit it too; and final_transcript is what each       *)
(* client makes of it.                                                         *)
Forcing == {"deepgram", "gladia", "smallest", "elevenlabs", "pixa"}

VoiceInv ==
  /\ \A s \in ghost.said : s <= voice.n
  /\ Talking => voice.n \notin ghost.said
  /\ audio = "none" => voice.stage = "quiet" /\ turn.final = <<>>

HeardInv == Good(heard, ghost.said, ghost.forced, voice.n)

OwedInv ==
  IF provider # "openai" THEN voice.owed = <<>>
  ELSE /\ ghost.forced = {} /\ Fits(voice.owed, heard, {}, voice.n)
       /\ \A k \in DOMAIN voice.owed : /\ voice.owed[k] \notin ghost.said
                                       /\ Talking => voice.owed[k] < voice.n

PendingFits ==
  provider \in Forcing /\ ~turn.sent => Fits(Pending, heard, ghost.forced, voice.n)

FinalInv ==
  /\ provider \notin {"deepgram", "smallest", "elevenlabs", "pixa"} => turn.final = <<>>
  /\ provider = "deepgram" => /\ turn.sent => turn.final = <<>>
                              /\ ToSet(turn.final) \subseteq ghost.said
  /\ provider = "smallest" => /\ turn.final # <<>> => turn.sent
                              /\ listening => ToSet(turn.final) \subseteq ToSet(heard)
  /\ provider = "elevenlabs" => ~turn.sent
  /\ provider = "pixa" => turn.interim = 0
  /\ provider \in {"elevenlabs", "pixa"} =>
       turn.final = <<>> \/ (turn.final = <<voice.n>> /\ Talking)

WordsInv == VoiceInv /\ HeardInv /\ OwedInv /\ PendingFits /\ FinalInv /\ NothingLost

(* What the variables are. *)
LEMMA Typed ==
  ASSUME TypeInv
  PROVE  /\ heard \in Texts /\ voice.n \in Nat /\ turn.final \in Texts /\ turn.sent \in BOOLEAN
         /\ turn.interim \in 0..Segments
         /\ ghost.said \subseteq 1..Segments /\ ghost.forced \subseteq 1..Segments
         /\ Talking => voice.n \in 1..Segments /\ <<voice.n>> \in Texts
         /\ closes \in Nat /\ provider \in Providers /\ <<>> \in Texts
         /\ voice.owed \in Texts /\ voice \in VoiceType /\ ghost \in GhostType /\ turn \in TurnType
<1>1. /\ voice \in VoiceType /\ turn \in TurnType /\ ghost \in GhostType /\ ListenerTypes
      /\ ClientTypes /\ Said
  BY TypesSplit DEF TypeInv
<1>2. voice.n \in Nat
  BY <1>1, SegmentsAssumption DEF VoiceType
<1>3. <<>> \in Texts
  BY DEF Texts
<1>4. Talking => voice.n \in 1..Segments /\ <<voice.n>> \in Texts
  BY <1>1, TalkTyped
<1>. QED
  BY <1>1, <1>2, <1>3, <1>4 DEF ListenerTypes, VoiceType, TurnType, GhostType, ClientTypes

(* A text of one segment. *)
LEMMA OneOf == ASSUME NEW s PROVE ToSet(<<s>>) = {s}
  BY DEF ToSet

LEMMA NoneOf == ToSet(<<>>) = {}
  BY DEF ToSet

(* The step that hears a text that fits. *)
LEMMA HearStep ==
  ASSUME TypeInv, HeardInv, NEW text \in Texts, NEW e, Transcript(text, e),
         Fits(text, heard, ghost'.forced, voice.n), voice'.n = voice.n,
         ghost.said \subseteq ghost'.said, ghost.forced \subseteq ghost'.forced,
         ToSet(text) \subseteq ghost'.said \union ghost'.forced
  PROVE  /\ HeardInv' /\ (listening' <=> listening)
         /\ listening => ToSet(heard') = ToSet(heard) \union ToSet(text)
<1>1. heard \in Texts /\ voice.n \in Nat
  BY Typed
<1>2. listening' <=> listening
  BY DEF Transcript, listening
<1>3. CASE listening
  <2>1. heard' = heard \o text
    BY <1>3 DEF Transcript
  <2>2. ToSet(heard') = ToSet(heard) \union ToSet(text)
    BY <1>1, <2>1, Joined
  <2>3. HeardInv'
    BY <1>1, <2>1, HearText DEF HeardInv
  <2>. QED
    BY <1>2, <2>2, <2>3
<1>4. CASE ~listening
  <2>1. heard' = heard
    BY <1>4 DEF Transcript
  <2>. QED
    BY <1>1, <1>2, <1>4, <2>1, StillGood DEF HeardInv
<1>. QED
  BY <1>3, <1>4

(* A segment that is final is heard as it is. *)
LEMMA FinalHeard ==
  ASSUME TypeInv, WordsInv, UNCHANGED audio, Finalised, NEW e, Transcript(<<voice.n>>, e),
         listening => ToSet(turn.final) \cap ghost.said \subseteq ToSet(heard) \union ToSet(turn'.final)
  PROVE  VoiceInv' /\ HeardInv' /\ NothingLost'
         /\ (listening' <=> listening) /\ (listening => ToSet(heard') = ToSet(heard) \union {voice.n})
<1>1. /\ heard \in Texts /\ voice.n \in 1..Segments /\ <<voice.n>> \in Texts /\ voice.n \in Nat
      /\ voice \in VoiceType /\ ghost \in GhostType
  BY Typed DEF Finalised
<1>2. /\ voice'.n = voice.n /\ voice'.stage = "said" /\ ghost'.said = ghost.said \union {voice.n}
      /\ ghost'.forced = ghost.forced
  BY <1>1 DEF Finalised, VoiceType, GhostType
<1>3. Fits(<<voice.n>>, heard, ghost.forced, voice.n)
  BY <1>1, LastFits DEF WordsInv, HeardInv, VoiceInv, Finalised
<1>4. ToSet(<<voice.n>>) = {voice.n}
  BY OneOf
<1>5. /\ HeardInv' /\ (listening' <=> listening)
      /\ listening => ToSet(heard') = ToSet(heard) \union {voice.n}
  BY <1>1, <1>2, <1>3, <1>4, HearStep DEF WordsInv
<1>6. VoiceInv'
  BY <1>1, <1>2 DEF WordsInv, VoiceInv, Talking, Finalised
<1>7. NothingLost'
  BY <1>2, <1>5 DEF WordsInv, NothingLost
<1>. QED
  BY <1>5, <1>6, <1>7

(* A step after which the same was heard. *)
LEMMA SameHeard ==
  ASSUME TypeInv, WordsInv, UNCHANGED <<audio, heard, closes>>, Ongoing \/ Falls,
         listening => ToSet(turn.final) \cap ghost.said \subseteq ToSet(heard) \union ToSet(turn'.final)
  PROVE  VoiceInv' /\ HeardInv' /\ NothingLost' /\ voice'.n = voice.n /\ UNCHANGED ghost
         /\ (listening' <=> listening)
<1>1. voice \in VoiceType
  BY Typed
<1>2. /\ voice'.n = voice.n /\ UNCHANGED ghost /\ voice.stage # "quiet"
      /\ Talking' => Talking
  BY <1>1 DEF Ongoing, Falls, Talking, VoiceType
<1>3. VoiceInv'
  BY <1>2 DEF WordsInv, VoiceInv
<1>4. HeardInv'
  BY <1>2 DEF WordsInv, HeardInv
<1>5. listening' <=> listening
  BY DEF listening
<1>. QED
  BY <1>2, <1>3, <1>4, <1>5 DEF WordsInv, NothingLost

(* The owed texts are OpenAI's. *)
LEMMA NotOwed ==
  ASSUME TypeInv, WordsInv, provider # "openai", UNCHANGED provider,
         Ongoing \/ Falls \/ Finalised \/ UNCHANGED voice
  PROVE  OwedInv'
<1>1. voice \in VoiceType
  BY Typed
<1>2. voice'.owed = voice.owed
  BY <1>1 DEF Ongoing, Falls, Finalised, VoiceType
<1>. QED
  BY <1>2 DEF WordsInv, OwedInv

(* What the clients clear. *)
LEMMA Clears ==
  ASSUME NEW t \in TurnType
  PROVE  /\ Reset(t).final = <<>> /\ Reset(t).interim = 0 /\ Reset(t).sent = TRUE
         /\ ClearTurn(t).final = <<>> /\ ClearTurn(t).interim = 0 /\ ClearTurn(t).sent = t.sent
         /\ BeginTurn(t).final = t.final /\ BeginTurn(t).interim = 0 /\ BeginTurn(t).sent = FALSE
         /\ ElevenReset(t).final = <<>> /\ ElevenReset(t).interim = 0 /\ ElevenReset(t).sent = FALSE
         /\ PixaReset(t).final = <<>> /\ PixaReset(t).sent = TRUE /\ PixaReset(t).interim = t.interim
         /\ OpenaiReset(t).final = t.final
         /\ Reset(t).eager = t.eager /\ ClearTurn(t).eager = t.eager /\ BeginTurn(t).eager = t.eager
         /\ ElevenReset(t).eager = t.eager /\ PixaReset(t).eager = t.eager
         /\ OpenaiReset(t).eager = t.eager
  BY DEF TurnType, Reset, ClearTurn, BeginTurn, ElevenReset, PixaReset, OpenaiReset

LEMMA Noted ==
  ASSUME NEW t \in TurnType
  PROVE  /\ NotePartial(t).final = t.final /\ NotePartial(t).interim = voice.n
         /\ NotePartial(t).sent = t.sent /\ NotePartial(t).eager = t.eager
  BY DEF TurnType, NotePartial

(* A turn of which nothing is pending, or whose text was sent. *)
LEMMA NothingPending ==
  ASSUME turn'.sent \/ (turn'.final = <<>> /\ turn'.interim = 0)
  PROVE  PendingFits'
<1>1. CASE turn'.sent
  BY <1>1 DEF PendingFits
<1>2. CASE turn'.final = <<>> /\ turn'.interim = 0
  BY <1>2, EmptyFits DEF PendingFits, Pending
<1>. QED
  BY <1>1, <1>2

(* A partial text of the segment being said fits. *)
LEMMA PartialPending ==
  ASSUME TypeInv, WordsInv, Ongoing, UNCHANGED heard,
         \/ turn'.final = <<voice.n>>
         \/ turn'.final = <<>> /\ turn'.interim \in {0, voice.n}
  PROVE  PendingFits'
<1>1. heard \in Texts /\ voice.n \in 1..Segments
  BY Typed DEF Ongoing
<1>2. Fits(<<voice.n>>, heard, ghost.forced, voice.n) /\ UNCHANGED <<voice, ghost>>
  BY <1>1, LastFits DEF WordsInv, HeardInv, VoiceInv, Ongoing
<1>3. Pending' = <<voice.n>> \/ Pending' = <<>>
  BY DEF Pending
<1>. QED
  BY <1>2, <1>3, EmptyFits DEF PendingFits

(* What was pending is still. *)
LEMMA SamePending ==
  ASSUME WordsInv, UNCHANGED <<provider, heard, ghost>>, voice'.n = voice.n,
         turn'.final = turn.final, turn'.interim = turn.interim, turn'.sent = turn.sent
  PROVE  PendingFits'
<1>1. Pending' = Pending
  BY DEF Pending
<1>. QED
  BY <1>1 DEF WordsInv, PendingFits

LEMMA GladiaStep == ASSUME TypeInv, WordsInv, GladiaReceiver PROVE WordsInv'
<1>1. /\ turn \in TurnType /\ provider = "gladia" /\ UNCHANGED <<provider, audio>>
  BY Typed DEF GladiaReceiver, Receives, client
<1>2. turn.final = <<>> /\ ToSet(turn.final) = {}
  BY <1>1, NoneOf DEF WordsInv, FinalInv
<1>0. /\ Reset(turn).final = <<>> /\ Reset(turn).sent
      /\ BeginTurn(turn).final = <<>> /\ BeginTurn(turn).interim = 0
      /\ NotePartial(turn).final = <<>> /\ NotePartial(turn).interim = voice.n
  BY <1>1, <1>2, Clears, Noted
<1>3. turn'.final = <<>>
  BY <1>0, <1>2 DEF GladiaReceiver
<1>4. FinalInv' /\ OwedInv'
  <2>1. OwedInv'
    BY <1>1, NotOwed DEF GladiaReceiver
  <2>. QED
    BY <1>1, <1>3, <2>1 DEF FinalInv
<1>5. CASE Finalised /\ turn' = Reset(turn) /\ Transcript(<<voice.n>>, FALSE)
  <2>1. turn'.sent
    BY <1>1, <1>5, Clears
  <2>2. PendingFits'
    BY <2>1, NothingPending
  <2>. QED
    BY <1>1, <1>2, <1>4, <1>5, <2>2, FinalHeard DEF WordsInv
<1>6. CASE Ongoing /\ ((turn' = BeginTurn(turn) /\ Nothing) \/ (turn' = NotePartial(turn) /\ Interim))
  <2>1. UNCHANGED <<heard, closes>>
    BY <1>6 DEF Nothing, Interim, listener
  <2>2. turn'.interim \in {0, voice.n}
    BY <1>0, <1>6
  <2>3. PendingFits'
    BY <1>3, <1>6, <2>1, <2>2, PartialPending
  <2>. QED
    BY <1>1, <1>2, <1>4, <1>6, <2>1, <2>3, SameHeard DEF WordsInv
<1>7. CASE Falls /\ turn' = turn /\ Nothing
  <2>1. UNCHANGED <<heard, closes>>
    BY <1>7 DEF Nothing, listener
  <2>2. VoiceInv' /\ HeardInv' /\ NothingLost' /\ voice'.n = voice.n /\ UNCHANGED ghost
    BY <1>1, <1>2, <1>7, <2>1, SameHeard
  <2>3. PendingFits'
    BY <1>1, <1>7, <2>1, <2>2, SamePending
  <2>. QED
    BY <1>4, <2>2, <2>3 DEF WordsInv
<1>8. \/ Finalised /\ turn' = Reset(turn) /\ Transcript(<<voice.n>>, FALSE)
      \/ Ongoing /\ ((turn' = BeginTurn(turn) /\ Nothing) \/ (turn' = NotePartial(turn) /\ Interim))
      \/ Falls /\ turn' = turn /\ Nothing
  BY DEF GladiaReceiver
<1>. QED
  BY <1>5, <1>6, <1>7, <1>8

(* The clients that keep no final text and have no time limit. *)
LEMMA PlainStep ==
  ASSUME TypeInv, WordsInv, provider \in {"flux", "sarvam", "assemblyai", "google", "azure"},
         UNCHANGED <<provider, audio>>, turn'.final = <<>>,
         \/ Ongoing /\ UNCHANGED <<heard, closes>>
         \/ Falls /\ UNCHANGED <<heard, closes>>
         \/ \E e \in BOOLEAN : Finalised /\ Transcript(<<voice.n>>, e)
  PROVE  WordsInv'
<1>1. turn.final = <<>> /\ ToSet(turn.final) = {}
  BY NoneOf DEF WordsInv, FinalInv
<1>2. FinalInv' /\ PendingFits'
  BY DEF FinalInv, PendingFits, Forcing
<1>3. OwedInv'
  BY NotOwed
<1>4. VoiceInv' /\ HeardInv' /\ NothingLost'
  BY <1>1, FinalHeard, SameHeard
<1>. QED
  BY <1>2, <1>3, <1>4 DEF WordsInv

LEMMA SmallestStep == ASSUME TypeInv, WordsInv, SmallestReceiver PROVE WordsInv'
<1>1. /\ turn \in TurnType /\ provider = "smallest" /\ UNCHANGED <<provider, audio>>
      /\ voice \in VoiceType /\ turn.final \in Texts
  BY Typed DEF SmallestReceiver, Receives, client
<1>2. OwedInv'
  BY <1>1, NotOwed DEF SmallestReceiver
<1>3. CASE Ongoing /\ turn' = NotePartial(turn) /\ Interim
  <2>1. UNCHANGED <<heard, closes>>
    BY <1>3 DEF Interim
  <2>2. /\ turn'.final = turn.final /\ turn'.sent = turn.sent /\ turn'.interim = voice.n
    BY <1>1, <1>3, Noted
  <2>3. VoiceInv' /\ HeardInv' /\ NothingLost' /\ UNCHANGED ghost /\ (listening' <=> listening)
    BY <1>1, <1>3, <2>1, <2>2, SameHeard DEF WordsInv, FinalInv
  <2>4. PendingFits'
    <3>1. CASE turn.final = <<>>
      BY <1>3, <2>1, <2>2, <3>1, PartialPending
    <3>2. CASE turn.final # <<>>
      <4>1. turn'.sent
        BY <1>1, <2>2, <3>2 DEF WordsInv, FinalInv
      <4>. QED
        BY <4>1, NothingPending
    <3>. QED
      BY <3>1, <3>2
  <2>5. FinalInv'
    BY <1>1, <2>1, <2>2, <2>3 DEF WordsInv, FinalInv
  <2>. QED
    BY <1>2, <2>3, <2>4, <2>5 DEF WordsInv
<1>4. CASE /\ Finalised /\ Transcript(<<voice.n>>, FALSE)
           /\ turn' = [NotePartial(turn) EXCEPT !.final = Append(@, voice.n), !.sent = TRUE, !.interim = 0]
  <2>0. voice.n \in 1..Segments /\ <<voice.n>> \in Texts
    BY <1>4, Typed DEF Finalised
  <2>1. turn'.final = Append(turn.final, voice.n) /\ turn'.sent
    <3>. DEFINE t == NotePartial(turn)
    <3>1. t \in TurnType /\ t.final = turn.final
      BY <1>1, PartialTyped
    <3>2. turn' = [t EXCEPT !.final = Append(t.final, voice.n), !.sent = TRUE, !.interim = 0]
      BY <1>4
    <3>. HIDE DEF t
    <3>. QED
      BY <3>1, <3>2 DEF TurnType
  <2>2. ToSet(turn'.final) = ToSet(turn.final) \union {voice.n}
    <3>1. Append(turn.final, voice.n) = turn.final \o <<voice.n>>
      BY <1>1, <2>0 DEF Texts
    <3>. QED
      BY <1>1, <2>0, <2>1, <3>1, Joined, OneOf
  <2>3. VoiceInv' /\ HeardInv' /\ NothingLost'
         /\ (listening' <=> listening) /\ (listening => ToSet(heard') = ToSet(heard) \union {voice.n})
    BY <1>1, <1>4, <2>2, FinalHeard
  <2>4. PendingFits'
    BY <2>1, NothingPending
  <2>5. FinalInv'
    BY <1>1, <2>1, <2>2, <2>3 DEF WordsInv, FinalInv
  <2>. QED
    BY <1>2, <2>3, <2>4, <2>5 DEF WordsInv
<1>. QED
  BY <1>3, <1>4 DEF SmallestReceiver

LEMMA ElevenlabsStep == ASSUME TypeInv, WordsInv, ElevenlabsReceiver PROVE WordsInv'
<1>1. /\ turn \in TurnType /\ provider = "elevenlabs" /\ UNCHANGED <<provider, audio>>
      /\ voice \in VoiceType /\ turn.final \in Texts
  BY Typed DEF ElevenlabsReceiver, Receives, client
<1>2. OwedInv'
  BY <1>1, NotOwed DEF ElevenlabsReceiver
<1>3. ~turn.sent /\ (turn.final = <<>> \/ (turn.final = <<voice.n>> /\ Talking))
  BY <1>1 DEF WordsInv, FinalInv
<1>4. ToSet(turn.final) \cap ghost.said = {}
  <2>1. CASE turn.final = <<>>
    BY <2>1, NoneOf
  <2>2. CASE turn.final = <<voice.n>> /\ Talking
    <3>1. ToSet(turn.final) = {voice.n}
      BY <2>2, OneOf
    <3>. QED
      BY <2>2, <3>1 DEF WordsInv, VoiceInv
  <2>. QED
    BY <1>3, <2>1, <2>2
<1>5. CASE /\ Ongoing /\ Interim
           /\ turn' = [NotePartial(turn) EXCEPT !.final = <<voice.n>>, !.sent = FALSE, !.open = TRUE]
  <2>1. UNCHANGED <<heard, closes>>
    BY <1>5 DEF Interim
  <2>2. turn'.final = <<voice.n>> /\ ~turn'.sent
    <3>. DEFINE t == NotePartial(turn)
    <3>1. t \in TurnType
      BY <1>1, PartialTyped
    <3>2. turn' = [t EXCEPT !.final = <<voice.n>>, !.sent = FALSE, !.open = TRUE]
      BY <1>5
    <3>. HIDE DEF t
    <3>. QED
      BY <3>1, <3>2 DEF TurnType
  <2>3. PendingFits'
    BY <1>5, <2>1, <2>2, PartialPending
  <2>4. VoiceInv' /\ HeardInv' /\ NothingLost'
    BY <1>1, <1>4, <1>5, <2>1, SameHeard
  <2>5. FinalInv'
    BY <1>1, <1>5, <2>2 DEF FinalInv, Ongoing, Talking
  <2>. QED
    BY <1>2, <2>3, <2>4, <2>5 DEF WordsInv
<1>6. CASE /\ Finalised /\ Transcript(<<voice.n>>, FALSE)
           /\ turn' \in {ElevenReset(turn), [ClearTurn(turn) EXCEPT !.sent = FALSE]}
  <2>1. turn'.final = <<>> /\ ~turn'.sent /\ turn'.interim = 0
    <3>. DEFINE t == ClearTurn(turn)
    <3>1. /\ t \in TurnType /\ t.final = <<>> /\ t.interim = 0
          /\ ElevenReset(turn).final = <<>> /\ ElevenReset(turn).sent = FALSE
          /\ ElevenReset(turn).interim = 0
      BY <1>1, Clears, TurnsTyped
    <3>2. turn' = ElevenReset(turn) \/ turn' = [t EXCEPT !.sent = FALSE]
      BY <1>6
    <3>. HIDE DEF t
    <3>. QED
      BY <3>1, <3>2 DEF TurnType
  <2>2. VoiceInv' /\ HeardInv' /\ NothingLost'
    BY <1>1, <1>4, <1>6, FinalHeard
  <2>3. PendingFits'
    BY <2>1, NothingPending
  <2>4. FinalInv'
    BY <1>1, <2>1 DEF FinalInv
  <2>. QED
    BY <1>2, <2>2, <2>3, <2>4 DEF WordsInv
<1>. QED
  BY <1>3, <1>5, <1>6 DEF ElevenlabsReceiver

LEMMA PixaStep == ASSUME TypeInv, WordsInv, PixaReceiver PROVE WordsInv'
<1>1. /\ turn \in TurnType /\ provider = "pixa" /\ UNCHANGED <<provider, audio>>
      /\ voice \in VoiceType /\ turn.final \in Texts
  BY Typed DEF PixaReceiver, Receives, client
<1>2. OwedInv'
  BY <1>1, NotOwed DEF PixaReceiver
<1>3. turn.interim = 0 /\ (turn.final = <<>> \/ (turn.final = <<voice.n>> /\ Talking))
  BY <1>1 DEF WordsInv, FinalInv
<1>4. ToSet(turn.final) \cap ghost.said = {}
  <2>1. CASE turn.final = <<>>
    BY <2>1, NoneOf
  <2>2. CASE turn.final = <<voice.n>> /\ Talking
    <3>1. ToSet(turn.final) = {voice.n}
      BY <2>2, OneOf
    <3>. QED
      BY <2>2, <3>1 DEF WordsInv, VoiceInv
  <2>. QED
    BY <1>3, <2>1, <2>2
<1>5. CASE /\ Ongoing /\ Interim
           /\ turn' = [turn EXCEPT !.clock = TRUE, !.final = <<voice.n>>]
  <2>1. UNCHANGED <<heard, closes>>
    BY <1>5 DEF Interim
  <2>2. turn'.final = <<voice.n>> /\ turn'.interim = turn.interim
    BY <1>1, <1>5 DEF TurnType
  <2>3. PendingFits'
    BY <1>5, <2>1, <2>2, PartialPending
  <2>4. VoiceInv' /\ HeardInv' /\ NothingLost'
    BY <1>1, <1>4, <1>5, <2>1, SameHeard
  <2>5. FinalInv'
    BY <1>1, <1>3, <1>5, <2>2 DEF FinalInv, Ongoing, Talking
  <2>. QED
    BY <1>2, <2>3, <2>4, <2>5 DEF WordsInv
<1>6. CASE Finalised /\ turn' = PixaReset(turn) /\ Transcript(<<voice.n>>, FALSE)
  <2>1. turn'.final = <<>> /\ turn'.sent /\ turn'.interim = turn.interim
    BY <1>1, <1>6, Clears
  <2>2. VoiceInv' /\ HeardInv' /\ NothingLost'
    BY <1>1, <1>4, <1>6, FinalHeard
  <2>3. PendingFits'
    BY <2>1, NothingPending
  <2>4. FinalInv'
    BY <1>1, <1>3, <2>1 DEF FinalInv
  <2>. QED
    BY <1>2, <2>2, <2>3, <2>4 DEF WordsInv
<1>. QED
  BY <1>5, <1>6 DEF PixaReceiver

LEMMA FluxStep == ASSUME TypeInv, WordsInv, FluxReceiver PROVE WordsInv'
<1>1. /\ turn \in TurnType /\ provider = "flux" /\ UNCHANGED <<provider, audio>>
      /\ turn.eager \in BOOLEAN
  BY Typed DEF FluxReceiver, Receives, client, TurnType
<1>2. turn.final = <<>>
  BY <1>1 DEF WordsInv, FinalInv
<1>3. /\ BeginTurn(turn) \in TurnType /\ Reset(turn) \in TurnType
      /\ Reset(turn).final = <<>> /\ NotePartial(turn).final = <<>>
  BY <1>1, <1>2, TurnsTyped, Clears, Noted
<1>4. CASE FluxStart
  <2>1. Ongoing /\ UNCHANGED <<heard, closes>>
    BY <1>4 DEF FluxStart, Interim, Nothing, listener
  <2>2. turn'.final = <<>>
    BY <1>3, <1>4 DEF FluxStart, TurnType
  <2>. QED
    BY <1>1, <2>1, <2>2, PlainStep
<1>5. CASE FluxUpdate
  BY <1>1, <1>3, <1>5, PlainStep DEF FluxUpdate, Interim
<1>6. CASE FluxEager \/ FluxResumed
  <2>1. Ongoing /\ UNCHANGED <<heard, closes>>
    BY <1>6 DEF FluxEager, FluxResumed, EagerEnd, TurnResumed
  <2>2. turn'.final = <<>>
    BY <1>1, <1>2, <1>6 DEF FluxEager, FluxResumed, TurnType
  <2>. QED
    BY <1>1, <2>1, <2>2, PlainStep
<1>7. CASE FluxEnd
  <2>1. turn'.final = <<>>
    BY <1>3, <1>7 DEF FluxEnd, TurnType
  <2>2. \/ \E e \in BOOLEAN : Finalised /\ Transcript(<<voice.n>>, e)
        \/ Falls /\ UNCHANGED <<heard, closes>>
    BY <1>1, <1>7 DEF FluxEnd, TurnResumed, Nothing, listener
  <2>. QED
    BY <1>1, <2>1, <2>2, PlainStep
<1>. QED
  BY <1>4, <1>5, <1>6, <1>7 DEF FluxReceiver

LEMMA SarvamStep == ASSUME TypeInv, WordsInv, SarvamReceiver PROVE WordsInv'
<1>1. /\ turn \in TurnType /\ provider = "sarvam" /\ UNCHANGED <<provider, audio>>
  BY Typed DEF SarvamReceiver, Receives, client
<1>2. turn.final = <<>>
  BY <1>1 DEF WordsInv, FinalInv
<1>3. turn'.final = <<>>
  BY <1>1, <1>2 DEF SarvamReceiver, TurnType
<1>4. \/ Ongoing /\ UNCHANGED <<heard, closes>>
      \/ Falls /\ UNCHANGED <<heard, closes>>
      \/ Finalised /\ Transcript(<<voice.n>>, FALSE)
  BY <1>2 DEF SarvamReceiver, Nothing, listener
<1>. QED
  BY <1>1, <1>3, <1>4, PlainStep

LEMMA AssemblyaiStep == ASSUME TypeInv, WordsInv, AssemblyaiReceiver PROVE WordsInv'
<1>1. /\ turn \in TurnType /\ provider = "assemblyai" /\ UNCHANGED <<provider, audio>>
  BY Typed DEF AssemblyaiReceiver, Receives, client
<1>2. turn.final = <<>>
  BY <1>1 DEF WordsInv, FinalInv
<1>3. turn'.final = <<>>
  BY <1>1, <1>2 DEF AssemblyaiReceiver, TurnType
<1>4. \/ Ongoing /\ UNCHANGED <<heard, closes>>
      \/ Finalised /\ Transcript(<<voice.n>>, FALSE)
  BY DEF AssemblyaiReceiver, Interim
<1>. QED
  BY <1>1, <1>3, <1>4, PlainStep

LEMMA GoogleStep == ASSUME TypeInv, WordsInv, GoogleReceiver PROVE WordsInv'
<1>1. /\ turn' = turn /\ provider = "google" /\ UNCHANGED <<provider, audio>>
  BY DEF GoogleReceiver, Receives, client
<1>2. turn'.final = <<>>
  BY <1>1 DEF WordsInv, FinalInv
<1>3. \/ Ongoing /\ UNCHANGED <<heard, closes>>
      \/ Finalised /\ Transcript(<<voice.n>>, FALSE)
  BY DEF GoogleReceiver, Interim
<1>. QED
  BY <1>1, <1>2, <1>3, PlainStep

LEMMA AzureStep == ASSUME TypeInv, WordsInv, AzureReceiver PROVE WordsInv'
<1>1. /\ turn \in TurnType /\ provider = "azure" /\ UNCHANGED <<provider, audio>>
  BY Typed DEF AzureReceiver, Receives, client
<1>2. turn.final = <<>>
  BY <1>1 DEF WordsInv, FinalInv
<1>3. turn'.final = <<>>
  BY <1>1, <1>2 DEF AzureReceiver, AzureRecognizing, AzureRecognized, TurnType
<1>4. \/ Ongoing /\ UNCHANGED <<heard, closes>>
      \/ Finalised /\ Transcript(<<voice.n>>, FALSE)
  BY DEF AzureReceiver, AzureRecognizing, AzureRecognized, Interim
<1>. QED
  BY <1>1, <1>3, <1>4, PlainStep

(* A text that fits, followed by the segment that is being said. *)
LEMMA AppendFits ==
  ASSUME NEW text \in Texts, NEW hd \in Texts, NEW said, NEW forced, NEW n \in 1..Segments,
         Good(hd, said, forced, n), n \notin said, n \notin ToSet(text),
         Fits(text, hd, forced, n)
  PROVE  /\ Append(text, n) \in Texts /\ Fits(Append(text, n), hd, forced, n)
         /\ ToSet(Append(text, n)) = ToSet(text) \union {n}
<1>. DEFINE t == Append(text, n)
<1>1. <<n>> \in Texts /\ text \o <<n>> = t /\ Len(<<n>>) = 1 /\ <<n>>[1] = n /\ DOMAIN <<n>> = {1}
  BY DEF Texts
<1>2. /\ t \in Texts /\ DOMAIN t = 1..(Len(text) + 1)
      /\ \A i \in DOMAIN text : t[i] = text[i]
      /\ \A i \in DOMAIN t : i \in DOMAIN text \/ t[i] = n
      /\ ToSet(t) = ToSet(text) \union {n}
  <2>. HIDE DEF t
  <2>1. /\ t \in Texts /\ DOMAIN t = 1..(Len(text) + Len(<<n>>))
        /\ \A i \in DOMAIN text : t[i] = text[i]
        /\ \A i \in DOMAIN t : i \in DOMAIN text \/ (i - Len(text) \in DOMAIN <<n>> /\ t[i] = <<n>>[i - Len(text)])
        /\ ToSet(t) = ToSet(text) \union ToSet(<<n>>)
    <3>. DEFINE b == <<n>>
    <3>1. b \in Texts /\ text \o b = t
      BY <1>1
    <3>. HIDE DEF b
    <3>2. /\ text \o b \in Texts /\ DOMAIN (text \o b) = 1..(Len(text) + Len(b))
          /\ \A i \in DOMAIN text : (text \o b)[i] = text[i]
          /\ \A i \in DOMAIN (text \o b) : i \in DOMAIN text
               \/ (i - Len(text) \in DOMAIN b /\ (text \o b)[i] = b[i - Len(text)])
          /\ ToSet(text \o b) = ToSet(text) \union ToSet(b)
      BY <3>1, Joined
    <3>3. /\ t \in Texts /\ DOMAIN t = 1..(Len(text) + Len(b))
          /\ \A i \in DOMAIN text : t[i] = text[i]
          /\ \A i \in DOMAIN t : i \in DOMAIN text
               \/ (i - Len(text) \in DOMAIN b /\ t[i] = b[i - Len(text)])
          /\ ToSet(t) = ToSet(text) \union ToSet(b)
      BY <3>1, <3>2
    <3>. QED
      BY <3>3 DEF b
  <2>2. ToSet(<<n>>) = {n}
    BY OneOf
  <2>3. \A i \in DOMAIN t : i \in DOMAIN text \/ t[i] = n
    BY <1>1, <2>1
  <2>. QED
    BY <1>1, <2>1, <2>2, <2>3
<1>. HIDE DEF t
<1>3. /\ Len(text) \in Nat /\ DOMAIN text = 1..Len(text) /\ n \in Int
      /\ \A i \in DOMAIN text : text[i] \in Int /\ text[i] <= n /\ text[i] # n
  <2>1. /\ Len(text) \in Nat /\ DOMAIN text = 1..Len(text)
        /\ \A i \in DOMAIN text : text[i] \in 1..Segments
    BY TextElements
  <2>2. \A i \in DOMAIN text : text[i] \in ToSet(text)
    BY DEF ToSet
  <2>3. \A i \in 1..Segments : i \in Int
    BY SegmentsAssumption
  <2>. QED
    BY <2>1, <2>2, <2>3 DEF Fits
<1>4. Fits(<<n>>, hd, forced, n)
  BY LastFits
<1>5. Rising(t)
  <2>. SUFFICES ASSUME NEW i \in DOMAIN t, NEW j \in DOMAIN t, i < j PROVE t[i] < t[j]
    BY DEF Rising
  <2>1. i \in DOMAIN text
    BY <1>2, <1>3
  <2>2. t[i] \in Int /\ t[i] < n
    BY <1>2, <1>3, <2>1
  <2>. QED
    BY <1>2, <2>1, <2>2 DEF Fits, Rising
<1>6. Follows(t, hd, forced)
  <2>1. \A i \in DOMAIN hd : hd[i] <= n /\ (hd[i] = n => n \in forced)
    BY <1>1, <1>4 DEF Fits, Follows
  <2>. QED
    BY <1>2, <2>1 DEF Fits, Follows
<1>7. \A k \in DOMAIN t : t[k] <= n
  BY <1>2, <1>3
<1>. QED
  BY <1>2, <1>5, <1>6, <1>7 DEF Fits, t

LEMMA DeepgramStep == ASSUME TypeInv, WordsInv, DeepgramReceiver PROVE WordsInv'
<1>1. /\ turn \in TurnType /\ provider = "deepgram" /\ UNCHANGED <<provider, audio>>
      /\ voice \in VoiceType /\ ghost \in GhostType /\ turn.final \in Texts /\ heard \in Texts
      /\ turn.sent \in BOOLEAN
  BY Typed DEF DeepgramReceiver, Receives, client
<1>2. /\ turn.sent => turn.final = <<>>
      /\ ToSet(turn.final) \subseteq ghost.said
  BY <1>1 DEF WordsInv, FinalInv
<1>3. Fits(turn.final, heard, ghost.forced, voice.n)
  BY <1>1, <1>2, EmptyFits DEF WordsInv, PendingFits, Pending, Forcing
<1>4. ASSUME UNCHANGED heard \/ turn'.final = <<>>,
             ToSet(turn'.final) \subseteq ghost'.said, turn'.sent => turn'.final = <<>>
      PROVE  FinalInv'
  BY <1>1, <1>4 DEF FinalInv
<1>5. OwedInv'
  BY <1>1, NotOwed
     DEF DeepgramReceiver, NovaSpeechStarted, NovaInterim, NovaFinal, NovaSpeechFinal,
         NovaBlankFinal, NovaUtteranceEnd
<1>. DEFINE text == NovaAppend.final
<1>6. ASSUME Finalised
      PROVE  /\ text \in Texts /\ Fits(text, heard, ghost.forced, voice.n)
             /\ ToSet(text) = ToSet(turn.final) \union {voice.n}
             /\ NovaAppend.sent = FALSE /\ NovaAppend \in TurnType
             /\ voice'.n = voice.n /\ ghost'.said = ghost.said \union {voice.n}
             /\ UNCHANGED audio /\ ghost'.forced = ghost.forced /\ voice'.stage = "said"
             /\ voice.stage # "quiet"
  <2>1. voice.n \in 1..Segments
    BY <1>6, Typed DEF Finalised
  <2>2. /\ Append(turn.final, voice.n) \in Texts
        /\ Fits(Append(turn.final, voice.n), heard, ghost.forced, voice.n)
        /\ ToSet(Append(turn.final, voice.n)) = ToSet(turn.final) \union {voice.n}
    <3>1. voice.n \notin ghost.said /\ voice.n \notin ToSet(turn.final)
      BY <1>2, <1>6 DEF WordsInv, VoiceInv, Finalised
    <3>. QED
      BY <1>1, <1>3, <2>1, <3>1, AppendFits DEF WordsInv, HeardInv
  <2>3. text = Append(turn.final, voice.n) /\ NovaAppend.sent = FALSE /\ NovaAppend \in TurnType
    <3>. DEFINE t == NotePartial(turn)
    <3>1. t \in TurnType /\ t.final = turn.final
      BY <1>1, PartialTyped
    <3>2. NovaAppend = [t EXCEPT !.final = Append(t.final, voice.n), !.sent = FALSE]
      BY DEF NovaAppend
    <3>. HIDE DEF t
    <3>. QED
      BY <2>2, <3>1, <3>2 DEF TurnType
  <2>4. /\ voice'.n = voice.n /\ ghost'.said = ghost.said \union {voice.n}
        /\ ghost'.forced = ghost.forced /\ voice'.stage = "said" /\ voice.stage # "quiet"
    BY <1>1, <1>6 DEF Finalised, Talking, VoiceType, GhostType
  <2>. QED
    BY <1>1, <2>2, <2>3, <2>4
<1>. HIDE DEF text
<1>61. ASSUME Finalised PROVE VoiceInv'
  <2>1. \A s \in ghost'.said : s <= voice'.n
    <3>1. voice.n \in Nat
      BY Typed
    <3>. QED
      BY <1>6, <1>61, <3>1 DEF WordsInv, VoiceInv
  <2>. QED
    BY <1>6, <1>61, <2>1 DEF WordsInv, VoiceInv, Talking
<1>7. ASSUME Ongoing, UNCHANGED <<heard, closes>>, turn'.final = turn.final,
             \/ turn'.interim = 0 /\ turn'.sent = FALSE
             \/ turn'.interim = voice.n /\ turn'.sent = turn.sent
      PROVE  WordsInv'
  <2>1. VoiceInv' /\ HeardInv' /\ NothingLost' /\ UNCHANGED <<ghost, voice>>
    BY <1>1, <1>7, SameHeard DEF Ongoing
  <2>2. FinalInv'
    BY <1>2, <1>4, <1>7, <2>1
  <2>3. PendingFits'
    <3>1. CASE turn.final = <<>>
      BY <1>7, <3>1, PartialPending
    <3>2. CASE turn.final # <<>>
      <4>1. Pending' = turn.final
        BY <1>7, <3>2 DEF Pending
      <4>. QED
        BY <1>3, <1>7, <2>1, <4>1 DEF PendingFits
    <3>. QED
      BY <3>1, <3>2
  <2>. QED
    BY <1>5, <2>1, <2>2, <2>3 DEF WordsInv
<1>8. CASE NovaSpeechStarted
  BY <1>1, <1>7, <1>8, Clears DEF NovaSpeechStarted, Nothing, listener
<1>9. CASE NovaInterim
  BY <1>1, <1>7, <1>9, Noted DEF NovaInterim, Interim
<1>10. CASE NovaFinal
  <2>1. turn'.final = text /\ turn'.sent = FALSE /\ UNCHANGED <<heard, closes>> /\ Finalised
    BY <1>6, <1>10 DEF NovaFinal, Interim, text
  <2>2. heard \in Texts /\ voice.n \in Nat
    BY Typed
  <2>3. HeardInv'
    BY <1>6, <2>1, <2>2, StillGood DEF WordsInv, HeardInv
  <2>4. FinalInv'
    BY <1>2, <1>4, <1>6, <2>1
  <2>5. NothingLost'
    BY <1>6, <2>1 DEF WordsInv, NothingLost, listening
  <2>6. PendingFits'
    <3>1. text # <<>>
      BY <1>6, <2>1, NoneOf
    <3>2. Pending' = text
      BY <2>1, <3>1 DEF Pending
    <3>. QED
      BY <1>6, <2>1, <3>2 DEF PendingFits
  <2>. QED
    BY <1>5, <1>61, <2>1, <2>3, <2>4, <2>5, <2>6 DEF WordsInv
<1>11. \A t \in TurnType : /\ [ClearTurn(t) EXCEPT !.sent = TRUE].final = <<>>
                           /\ [ClearTurn(t) EXCEPT !.sent = TRUE].interim = 0
                           /\ [ClearTurn(t) EXCEPT !.sent = TRUE].sent = TRUE
  <2>. SUFFICES ASSUME NEW t \in TurnType
                PROVE  /\ [ClearTurn(t) EXCEPT !.sent = TRUE].final = <<>>
                       /\ [ClearTurn(t) EXCEPT !.sent = TRUE].interim = 0
                       /\ [ClearTurn(t) EXCEPT !.sent = TRUE].sent = TRUE
    OBVIOUS
  <2>. DEFINE c == ClearTurn(t)
  <2>1. c \in TurnType /\ c.final = <<>> /\ c.interim = 0
    BY Clears, TurnsTyped
  <2>. HIDE DEF c
  <2>2. /\ [c EXCEPT !.sent = TRUE].final = <<>>
        /\ [c EXCEPT !.sent = TRUE].interim = 0
        /\ [c EXCEPT !.sent = TRUE].sent = TRUE
    BY <2>1 DEF TurnType
  <2>. QED
    BY <2>2 DEF c
<1>12. ASSUME turn'.final = <<>>, turn'.interim = 0 PROVE FinalInv' /\ PendingFits'
  BY <1>4, <1>12, NothingPending, NoneOf
<1>13. CASE NovaSpeechFinal
  <2>1. turn'.final = <<>> /\ turn'.interim = 0 /\ Finalised /\ Transcript(text, FALSE)
    BY <1>6, <1>11, <1>13 DEF NovaSpeechFinal, text
  <2>2. /\ HeardInv' /\ (listening' <=> listening)
        /\ listening => ToSet(heard') = ToSet(heard) \union ToSet(text)
    BY <1>2, <1>6, <2>1, HearStep DEF WordsInv
  <2>3. NothingLost'
    BY <1>6, <2>1, <2>2 DEF WordsInv, NothingLost
  <2>. QED
    BY <1>5, <1>12, <1>61, <2>1, <2>2, <2>3 DEF WordsInv
<1>14. ASSUME \/ Falls
              \/ UNCHANGED <<voice, ghost>> /\ voice.stage = "said",
              turn'.final = <<>>, turn'.interim = 0, Transcript(turn.final, FALSE)
       PROVE  WordsInv'
  <2>1. voice'.n = voice.n /\ UNCHANGED ghost /\ ~Talking' /\ voice.stage # "quiet"
    BY <1>1, <1>14 DEF Falls, Talking, VoiceType
  <2>2. /\ HeardInv' /\ (listening' <=> listening)
        /\ listening => ToSet(heard') = ToSet(heard) \union ToSet(turn.final)
    BY <1>1, <1>2, <1>3, <1>14, <2>1, HearStep DEF WordsInv
  <2>3. NothingLost' /\ VoiceInv'
    BY <1>1, <2>1, <2>2 DEF WordsInv, NothingLost, VoiceInv
  <2>. QED
    BY <1>5, <1>12, <1>14, <2>2, <2>3 DEF WordsInv
<1>15. CASE NovaBlankFinal
  BY <1>1, <1>11, <1>14, <1>15 DEF NovaBlankFinal
<1>16. CASE NovaUtteranceEnd
  <2>1. CASE ~turn.sent /\ turn.final # <<>>
    BY <1>1, <1>11, <1>14, <1>16, <2>1 DEF NovaUtteranceEnd
  <2>2. CASE ~(~turn.sent /\ turn.final # <<>>)
    <3>1. turn.final = <<>>
      BY <1>2, <2>2
    <3>2. /\ Falls /\ UNCHANGED <<heard, closes>> /\ turn'.final = <<>> /\ turn'.interim = 0
      <4>1. Falls /\ turn' = ClearTurn(turn) /\ SpeechEnded
        BY <1>16, <2>2 DEF NovaUtteranceEnd
      <4>. QED
        BY <1>1, <4>1, Clears DEF SpeechEnded
    <3>3. VoiceInv' /\ HeardInv' /\ NothingLost'
      BY <1>1, <3>1, <3>2, NoneOf, SameHeard
    <3>. QED
      BY <1>5, <1>12, <3>2, <3>3 DEF WordsInv
  <2>. QED
    BY <2>1, <2>2
<1>. QED
  BY <1>8, <1>9, <1>10, <1>13, <1>15, <1>16 DEF DeepgramReceiver

(* The first segment of a text that fits, and the others after it was heard. *)
LEMMA HeadFits ==
  ASSUME NEW text \in Texts, NEW hd \in Texts, NEW n, Fits(text, hd, {}, n), text # <<>>
  PROVE  /\ Head(text) \in 1..Segments /\ <<Head(text)>> \in Texts /\ Tail(text) \in Texts
         /\ Head(text) = text[1] /\ 1 \in DOMAIN text
         /\ Fits(<<Head(text)>>, hd, {}, n) /\ Fits(Tail(text), hd, {}, n)
         /\ Fits(Tail(text), hd \o <<Head(text)>>, {}, n)
         /\ \A k \in DOMAIN Tail(text) : /\ k + 1 \in DOMAIN text /\ Tail(text)[k] = text[k + 1]
                                         /\ Head(text) # Tail(text)[k]
<1>. DEFINE t == Tail(text)
            s == Head(text)
            one == <<s>>
<1>1. /\ Len(text) \in Nat /\ DOMAIN text = 1..Len(text)
      /\ \A i \in DOMAIN text : text[i] \in 1..Segments /\ text[i] \in Int
  BY TextElements, SegmentsAssumption
<1>2. Len(text) # 0 /\ s = text[1] /\ t \in Texts /\ Len(t) = Len(text) - 1
      /\ \A k \in 1..(Len(text) - 1) : t[k] = text[k + 1]
  BY DEF Texts
<1>3. 1 \in DOMAIN text /\ s \in 1..Segments /\ s \in Int
  BY <1>1, <1>2
<1>4. one \in Texts /\ DOMAIN one = {1} /\ one[1] = s
  BY <1>3 DEF Texts
<1>. HIDE DEF t, s, one
<1>5. DOMAIN t = 1..(Len(text) - 1) /\ Len(t) \in Nat
  BY <1>2, TextElements
<1>6. \A k \in DOMAIN t : k \in Int /\ k + 1 \in DOMAIN text /\ t[k] = text[k + 1] /\ t[k] \in Int
  BY <1>1, <1>2, <1>5
<1>7. \A k \in DOMAIN t : s < t[k] /\ s # t[k]
  <2>. SUFFICES ASSUME NEW k \in DOMAIN t PROVE s < t[k] /\ s # t[k]
    OBVIOUS
  <2>1. k + 1 \in DOMAIN text /\ t[k] = text[k + 1] /\ 1 < k + 1 /\ t[k] \in Int
    BY <1>5, <1>6
  <2>2. s < t[k]
    BY <1>2, <1>3, <2>1 DEF Fits, Rising
  <2>. QED
    BY <1>3, <2>1, <2>2
<1>8. Fits(one, hd, {}, n)
  <2>1. Rising(one)
    BY <1>4 DEF Rising
  <2>. QED
    BY <1>2, <1>3, <1>4, <2>1 DEF Fits, Follows
<1>9. Rising(t) /\ (\A k \in DOMAIN t : t[k] <= n)
  <2>1. \A k \in DOMAIN t : t[k] <= n
    BY <1>6 DEF Fits
  <2>2. ASSUME NEW i \in DOMAIN t, NEW j \in DOMAIN t, i < j PROVE t[i] < t[j]
    <3>1. i + 1 < j + 1
      BY <1>6, <2>2
    <3>. QED
      BY <1>6, <3>1 DEF Fits, Rising
  <2>. QED
    BY <2>1, <2>2 DEF Rising
<1>10. Follows(t, hd, {})
  BY <1>6 DEF Fits, Follows
<1>11. Follows(t, hd \o one, {})
  <2>1. \A i \in DOMAIN (hd \o one) :
           (i \in DOMAIN hd /\ (hd \o one)[i] = hd[i]) \/ (hd \o one)[i] = s
    <3>1. /\ \A i \in DOMAIN hd : (hd \o one)[i] = hd[i]
          /\ \A i \in DOMAIN (hd \o one) : i \in DOMAIN hd
               \/ (i - Len(hd) \in DOMAIN one /\ (hd \o one)[i] = one[i - Len(hd)])
      BY <1>4, Joined
    <3>. QED
      BY <1>4, <3>1
  <2>2. \A k \in DOMAIN t : s <= t[k] /\ s # t[k]
    BY <1>3, <1>6, <1>7
  <2>. QED
    BY <1>10, <2>1, <2>2 DEF Follows
<1>12. Fits(t, hd, {}, n) /\ Fits(t, hd \o one, {}, n)
  BY <1>9, <1>10, <1>11 DEF Fits
<1>. QED
  BY <1>2, <1>3, <1>4, <1>6, <1>7, <1>8, <1>12 DEF t, s, one

LEMMA OpenaiStep == ASSUME TypeInv, WordsInv, OpenaiReceiver PROVE WordsInv'
<1>1. /\ turn \in TurnType /\ provider = "openai" /\ UNCHANGED <<provider, audio>>
      /\ voice \in VoiceType /\ ghost \in GhostType /\ heard \in Texts /\ voice.n \in Nat
      /\ voice.owed \in Texts
  BY Typed DEF OpenaiReceiver, Receives, client
<1>2. turn.final = <<>> /\ ToSet(turn.final) = {}
  BY <1>1, NoneOf DEF WordsInv, FinalInv
<1>3. /\ ghost.forced = {} /\ Fits(voice.owed, heard, {}, voice.n)
      /\ \A k \in DOMAIN voice.owed : voice.owed[k] \notin ghost.said
                                      /\ (Talking => voice.owed[k] < voice.n)
  BY <1>1 DEF WordsInv, OwedInv
<1>4. turn'.final = <<>> => PendingFits' /\ FinalInv'
  BY <1>1 DEF PendingFits, FinalInv, Forcing
<1>5. BeginTurn(turn) \in TurnType /\ BeginTurn(turn).final = <<>> /\ OpenaiReset(turn).final = <<>>
  BY <1>1, <1>2, TurnsTyped, Clears
<1>6. CASE OpenaiSpeechStarted
  <2>1. Ongoing /\ UNCHANGED <<heard, closes, voice, ghost>> /\ turn'.final = <<>>
    BY <1>5, <1>6 DEF OpenaiSpeechStarted, Nothing, listener, Ongoing, TurnType
  <2>2. OwedInv'
    BY <1>1, <2>1 DEF WordsInv, OwedInv, Talking
  <2>3. VoiceInv' /\ HeardInv' /\ NothingLost'
    BY <1>1, <1>2, <2>1, SameHeard
  <2>. QED
    BY <1>4, <2>1, <2>2, <2>3 DEF WordsInv
<1>7. CASE OpenaiSpeechStopped
  <2>1. /\ UNCHANGED <<heard, closes, ghost>> /\ turn'.final = <<>>
        /\ voice'.n = voice.n /\ voice'.stage = "quiet" /\ Talking
        /\ voice'.owed = Append(voice.owed, voice.n)
    BY <1>1, <1>2, <1>7 DEF OpenaiSpeechStopped, SpeechEnded, VoiceType, TurnType
  <2>2. voice.n \in 1..Segments /\ voice.n \notin ghost.said
    BY <2>1, Typed DEF WordsInv, VoiceInv
  <2>3. voice.n \notin ToSet(voice.owed)
    BY <1>1, <1>3, <2>1, TextElements DEF ToSet
  <2>4. /\ Fits(voice'.owed, heard, {}, voice.n)
        /\ ToSet(voice'.owed) = ToSet(voice.owed) \union {voice.n}
    BY <1>1, <1>3, <2>1, <2>2, <2>3, AppendFits DEF WordsInv, HeardInv
  <2>5. \A k \in DOMAIN voice'.owed : voice'.owed[k] \notin ghost.said
    BY <1>3, <2>2, <2>4 DEF ToSet
  <2>6. OwedInv'
    BY <1>1, <1>3, <2>1, <2>4, <2>5 DEF OwedInv, Talking
  <2>7. VoiceInv' /\ HeardInv' /\ NothingLost'
    BY <1>1, <1>2, <2>1 DEF WordsInv, VoiceInv, HeardInv, NothingLost, listening, Talking
  <2>. QED
    BY <1>4, <2>1, <2>6, <2>7 DEF WordsInv
<1>8. CASE OpenaiDelta
  <2>1. UNCHANGED <<heard, closes, voice, ghost>> /\ turn'.final = <<>>
    BY <1>1, <1>2, <1>8 DEF OpenaiDelta, Interim, TurnType
  <2>. QED
    BY <1>1, <1>2, <1>4, <2>1
       DEF WordsInv, VoiceInv, HeardInv, NothingLost, OwedInv, listening, Talking
<1>9. ASSUME voice.owed # <<>>, Settle, turn'.final = <<>>
      PROVE  /\ \A k \in DOMAIN voice'.owed : voice'.owed[k] \notin ghost.said \union {Head(voice.owed)}
                                              /\ (Talking => voice'.owed[k] < voice.n)
             /\ Fits(voice'.owed, heard, {}, voice.n)
             /\ Fits(voice'.owed, heard \o <<Head(voice.owed)>>, {}, voice.n)
             /\ Fits(<<Head(voice.owed)>>, heard, {}, voice.n)
             /\ <<Head(voice.owed)>> \in Texts /\ voice'.n = voice.n /\ (Talking' <=> Talking)
             /\ Head(voice.owed) \notin ghost.said /\ Head(voice.owed) <= voice.n
             /\ voice'.stage = voice.stage
             /\ Talking => Head(voice.owed) # voice.n
  <2>1. voice'.owed = Tail(voice.owed) /\ voice'.n = voice.n /\ voice'.stage = voice.stage
    BY <1>1, <1>9 DEF Settle, VoiceType
  <2>2. /\ Head(voice.owed) \in 1..Segments /\ <<Head(voice.owed)>> \in Texts
        /\ Head(voice.owed) = voice.owed[1] /\ 1 \in DOMAIN voice.owed
        /\ Fits(<<Head(voice.owed)>>, heard, {}, voice.n) /\ Fits(Tail(voice.owed), heard, {}, voice.n)
        /\ Fits(Tail(voice.owed), heard \o <<Head(voice.owed)>>, {}, voice.n)
        /\ \A k \in DOMAIN Tail(voice.owed) :
             /\ k + 1 \in DOMAIN voice.owed /\ Tail(voice.owed)[k] = voice.owed[k + 1]
             /\ Head(voice.owed) # Tail(voice.owed)[k]
    BY <1>1, <1>3, <1>9, HeadFits
  <2>3. \A k \in DOMAIN voice'.owed : voice'.owed[k] \notin ghost.said \union {Head(voice.owed)}
                                      /\ (Talking => voice'.owed[k] < voice.n)
    BY <1>3, <2>1, <2>2
  <2>4. /\ Head(voice.owed) \notin ghost.said /\ Head(voice.owed) <= voice.n
        /\ Talking => Head(voice.owed) # voice.n
    BY <1>1, <1>3, <2>2 DEF Fits
  <2>. QED
    BY <2>1, <2>2, <2>3, <2>4 DEF Talking
<1>10. ASSUME voice.owed # <<>>, Settle, turn'.final = <<>>, UNCHANGED <<ghost, heard, closes>>
       PROVE  WordsInv'
  <2>1. OwedInv'
    BY <1>1, <1>3, <1>9, <1>10 DEF OwedInv
  <2>2. VoiceInv' /\ HeardInv' /\ NothingLost'
    BY <1>1, <1>2, <1>9, <1>10
       DEF WordsInv, VoiceInv, HeardInv, NothingLost, listening
  <2>. QED
    BY <1>4, <1>10, <2>1, <2>2 DEF WordsInv
<1>11. CASE OpenaiFailed
  BY <1>5, <1>10, <1>11 DEF OpenaiFailed, Nothing, listener
<1>12. CASE OpenaiCompleted
  <2>1. CASE UNCHANGED <<ghost, turn>> /\ Nothing
    BY <1>2, <1>10, <1>12, <2>1 DEF OpenaiCompleted, Nothing, listener
  <2>2. CASE /\ ghost' = [ghost EXCEPT !.said = @ \union {Head(voice.owed)}]
             /\ turn' = OpenaiReset(turn) /\ Transcript(<<Head(voice.owed)>>, FALSE)
    <3>. DEFINE s == Head(voice.owed)
    <3>1. /\ ghost'.said = ghost.said \union {s} /\ ghost'.forced = {}
          /\ turn'.final = <<>> /\ voice.owed # <<>> /\ Settle
      BY <1>1, <1>3, <1>5, <1>12, <2>2 DEF OpenaiCompleted, GhostType
    <3>2. /\ \A k \in DOMAIN voice'.owed : voice'.owed[k] \notin ghost'.said
                                            /\ (Talking => voice'.owed[k] < voice.n)
          /\ Fits(voice'.owed, heard, {}, voice.n) /\ Fits(voice'.owed, heard \o <<s>>, {}, voice.n)
          /\ Fits(<<s>>, heard, {}, voice.n) /\ <<s>> \in Texts
          /\ voice'.n = voice.n /\ (Talking' <=> Talking) /\ s <= voice.n
          /\ voice'.stage = voice.stage /\ (Talking => s # voice.n)
      BY <1>9, <3>1
    <3>3. ToSet(<<s>>) = {s}
      BY OneOf
    <3>. HIDE DEF s
    <3>4. /\ HeardInv' /\ (listening' <=> listening)
          /\ listening => ToSet(heard') = ToSet(heard) \union {s}
      BY <1>3, <2>2, <3>1, <3>2, <3>3, HearStep DEF WordsInv, s
    <3>5. heard' = heard \/ heard' = heard \o <<s>>
      BY <2>2 DEF Transcript, s
    <3>6. OwedInv'
      BY <1>1, <3>1, <3>2, <3>5 DEF OwedInv
    <3>7. VoiceInv' /\ NothingLost'
      BY <1>1, <1>2, <3>1, <3>2, <3>4 DEF WordsInv, VoiceInv, NothingLost
    <3>. QED
      BY <1>4, <3>1, <3>4, <3>6, <3>7 DEF WordsInv
  <2>. QED
    BY <1>12, <2>1, <2>2 DEF OpenaiCompleted
<1>. QED
  BY <1>6, <1>7, <1>8, <1>11, <1>12 DEF OpenaiReceiver

(* A time limit sends what is pending, and only what is pending. *)
LEMMA ForcedStep ==
  ASSUME TypeInv, WordsInv, NEW p \in Forcing, NEW text \in Texts, NEW t, ForceFinalize(p, text, t),
         text = Pending \/ (text = turn.final /\ turn.final # <<>>),
         t.final = <<>>, t.interim = 0 \/ t.sent, provider = "elevenlabs" => ~t.sent,
         provider = "pixa" => t.interim = 0
  PROVE  WordsInv'
<1>1. /\ heard \in Texts /\ voice.n \in Nat /\ ghost \in GhostType /\ turn.final \in Texts
      /\ provider = p /\ ~turn.sent /\ text # <<>>
      /\ UNCHANGED <<provider, audio, voice>> /\ turn' = t /\ Transcript(text, FALSE)
  BY Typed DEF ForceFinalize, client, Armed
<1>2. /\ ghost'.said = ghost.said
      /\ ghost'.forced = ghost.forced \union (ToSet(text) \ ghost.said)
  BY <1>1 DEF ForceFinalize, GhostType
<1>3. text = Pending /\ (turn.final # <<>> => text = turn.final)
  BY <1>1 DEF Pending
<1>4. Fits(text, heard, ghost.forced, voice.n)
  BY <1>1, <1>3 DEF WordsInv, PendingFits
<1>5. Fits(text, heard, ghost'.forced, voice.n)
  BY <1>1, <1>2, <1>4, StillFits
<1>6. ToSet(text) \subseteq ghost'.said \union ghost'.forced
  BY <1>2
<1>7. /\ HeardInv' /\ (listening' <=> listening)
      /\ listening => ToSet(heard') = ToSet(heard) \union ToSet(text)
  BY <1>1, <1>2, <1>5, <1>6, HearStep DEF WordsInv
<1>8. NothingLost'
  <2>1. ToSet(turn.final) \subseteq ToSet(text)
    BY <1>3, NoneOf
  <2>. QED
    BY <1>2, <1>7, <2>1 DEF WordsInv, NothingLost
<1>9. VoiceInv'
  BY <1>1, <1>2 DEF WordsInv, VoiceInv, Talking
<1>10. PendingFits'
  BY <1>1, NothingPending
<1>11. FinalInv'
  BY <1>1, NoneOf DEF FinalInv
<1>12. OwedInv'
  BY <1>1, NotOwed DEF Forcing
<1>. QED
  BY <1>7, <1>8, <1>9, <1>10, <1>11, <1>12 DEF WordsInv

LEMMA TimeoutStep == ASSUME TypeInv, WordsInv, UtteranceTimeout PROVE WordsInv'
<1>1. turn \in TurnType /\ turn.final \in Texts /\ Pending \in Texts
  <2>1. turn \in TurnType /\ turn.final \in Texts /\ <<>> \in Texts
    BY Typed
  <2>. QED
    BY <2>1, PendingTyped
<1>2. /\ Reset(turn).final = <<>> /\ Reset(turn).interim = 0
      /\ ElevenReset(turn).final = <<>> /\ ElevenReset(turn).interim = 0 /\ ElevenReset(turn).sent = FALSE
      /\ PixaReset(turn).final = <<>> /\ PixaReset(turn).interim = turn.interim /\ PixaReset(turn).sent
      /\ OpenaiReset(turn).final = turn.final
  BY <1>1, Clears
<1>3. CASE DeepgramTimeout
  <2>1. provider = "deepgram"
    BY <1>3 DEF DeepgramTimeout, ForceFinalize
  <2>. QED
    BY <1>1, <1>2, <1>3, <2>1, ForcedStep DEF DeepgramTimeout, Forcing
<1>4. CASE GladiaTimeout
  <2>1. provider = "gladia"
    BY <1>4 DEF GladiaTimeout, ForceFinalize
  <2>. QED
    BY <1>1, <1>2, <1>4, <2>1, ForcedStep DEF GladiaTimeout, Forcing
<1>5. CASE SmallestTimeout
  <2>1. provider = "smallest"
    BY <1>5 DEF SmallestTimeout, ForceFinalize
  <2>. QED
    BY <1>1, <1>2, <1>5, <2>1, ForcedStep DEF SmallestTimeout, Forcing
<1>6. CASE ElevenlabsTimeout
  <2>1. provider = "elevenlabs"
    BY <1>6 DEF ElevenlabsTimeout, ForceFinalize
  <2>. QED
    BY <1>1, <1>2, <1>6, <2>1, ForcedStep DEF ElevenlabsTimeout, Forcing
<1>7. CASE PixaTimeout
  <2>1. provider = "pixa" /\ turn.final # <<>>
    BY <1>7 DEF PixaTimeout, ForceFinalize
  <2>2. turn.interim = 0
    BY <2>1 DEF WordsInv, FinalInv
  <2>. QED
    BY <1>1, <1>2, <1>7, <2>1, <2>2, ForcedStep DEF PixaTimeout, Forcing
<1>8. CASE OpenaiTimeout
  <2>1. /\ provider = "openai" /\ turn'.final = turn.final
        /\ UNCHANGED <<provider, audio, voice, ghost, heard, closes>>
    BY <1>2, <1>8 DEF OpenaiTimeout, client, listener
  <2>2. VoiceInv' /\ HeardInv' /\ NothingLost' /\ OwedInv'
    BY <2>1 DEF WordsInv, VoiceInv, HeardInv, NothingLost, OwedInv, listening, Talking
  <2>3. PendingFits' /\ FinalInv'
    BY <2>1 DEF WordsInv, PendingFits, FinalInv, Forcing
  <2>. QED
    BY <2>2, <2>3 DEF WordsInv
<1>. QED
  BY <1>3, <1>4, <1>5, <1>6, <1>7, <1>8 DEF UtteranceTimeout

(* Steps that leave the words alone, the connection's and the sender's. *)
LEMMA QuietStep ==
  ASSUME TypeInv, WordsInv, UNCHANGED <<provider, voice, ghost, heard>>, closes' >= closes,
         closes' \in Nat, audio' = "none" => audio = "none",
         turn'.final = turn.final, turn'.interim = turn.interim, turn'.sent = turn.sent
  PROVE  WordsInv'
<1>1. closes \in Nat /\ (listening' => listening)
  <2>1. closes \in Nat
    BY Typed
  <2>. QED
    BY <2>1 DEF listening
<1>2. VoiceInv' /\ HeardInv' /\ NothingLost' /\ OwedInv'
  BY <1>1 DEF WordsInv, VoiceInv, HeardInv, NothingLost, OwedInv, Talking
<1>3. PendingFits'
  BY SamePending
<1>4. FinalInv'
  BY <1>1 DEF WordsInv, FinalInv, Talking
<1>. QED
  BY <1>2, <1>3, <1>4 DEF WordsInv

LEMMA SenderStep == ASSUME TypeInv, WordsInv, SendAudio PROVE WordsInv'
<1>1. turn \in TurnType /\ closes \in Nat
  BY Typed
<1>2. ASSUME NEW p, NEW opened, NEW ended, NEW cut, Sender(p, opened, ended, cut),
             opened.final = turn.final, opened.interim = turn.interim, opened.sent = turn.sent,
             ended.final = turn.final, ended.interim = turn.interim, ended.sent = turn.sent
      PROVE  WordsInv'
  <2>1. /\ UNCHANGED <<provider, voice, ghost, heard, closes>> /\ audio' # "none"
        /\ turn' = opened \/ turn' = ended
    BY <1>2 DEF Sender, listener
  <2>. QED
    BY <1>1, <1>2, <2>1, QuietStep
<1>3. /\ Opened.final = turn.final /\ Opened.interim = turn.interim /\ Opened.sent = turn.sent
      /\ [turn EXCEPT !.committed = TRUE].final = turn.final
      /\ [turn EXCEPT !.committed = TRUE].interim = turn.interim
      /\ [turn EXCEPT !.committed = TRUE].sent = turn.sent
  BY <1>1 DEF Opened, TurnType
<1>4. CASE SmallestSender
  <2>1. /\ UNCHANGED <<provider, voice, ghost, heard, closes>> /\ audio' # "none"
        /\ provider = "smallest"
        /\ (audio = "none" /\ turn' = BeginTurn(turn)) \/ turn' = turn
    BY <1>4 DEF SmallestSender, Sender, listener
  <2>2. CASE audio = "none" /\ turn' = BeginTurn(turn)
    <3>1. turn.final = <<>>
      BY <2>2 DEF WordsInv, VoiceInv
    <3>2. turn'.final = <<>> /\ turn'.interim = 0
      BY <1>1, <2>2, <3>1, Clears
    <3>3. VoiceInv' /\ HeardInv' /\ NothingLost' /\ OwedInv'
      BY <2>1, <3>1, <3>2 DEF WordsInv, VoiceInv, HeardInv, NothingLost, OwedInv, listening, Talking
    <3>4. PendingFits' /\ FinalInv'
      BY <2>1, <3>2, NothingPending, NoneOf DEF FinalInv
    <3>. QED
      BY <3>3, <3>4 DEF WordsInv
  <2>3. CASE turn' = turn
    BY <1>1, <2>1, <2>3, QuietStep
  <2>. QED
    BY <2>1, <2>2, <2>3
<1>5. CASE \/ DeepgramSender \/ GladiaSender \/ ElevenlabsSender \/ SarvamSender
           \/ AssemblyaiSender \/ PixaSender \/ OpenaiSender \/ GoogleSender \/ AzureSender
  BY <1>2, <1>3, <1>5
     DEF DeepgramSender, GladiaSender, ElevenlabsSender, SarvamSender,
         AssemblyaiSender, PixaSender, OpenaiSender, GoogleSender, AzureSender
<1>. QED
  BY <1>4, <1>5 DEF SendAudio

LEMMA SpeakStep == ASSUME TypeInv, WordsInv, Speak PROVE WordsInv'
<1>1. /\ voice \in VoiceType /\ voice.n \in Nat /\ heard \in Texts /\ voice.owed \in Texts
      /\ turn \in TurnType /\ <<>> \in Texts
      /\ ghost.said \subseteq 1..Segments
  BY Typed
<1>2. /\ voice'.n = voice.n + 1 /\ voice'.stage = "talk" /\ voice'.owed = voice.owed
      /\ UNCHANGED <<provider, audio, turn, ghost, heard, closes>>
      /\ ~Talking /\ audio = "sent" /\ voice'.n \in Nat /\ voice.n <= voice'.n
  BY <1>1 DEF Speak, VoiceType, client, listener, Talking
<1>3. VoiceInv'
  <2>1. \A s \in ghost.said : s \in Int /\ s <= voice.n
    BY <1>1, SegmentsAssumption DEF WordsInv, VoiceInv
  <2>2. \A s \in ghost.said : s <= voice'.n /\ s # voice'.n
    BY <1>1, <1>2, <2>1
  <2>. QED
    BY <1>2, <2>2 DEF VoiceInv
<1>4. HeardInv'
  BY <1>1, <1>2, StillGood DEF WordsInv, HeardInv
<1>5. NothingLost'
  BY <1>2 DEF WordsInv, NothingLost, listening
<1>6. FinalInv'
  BY <1>2 DEF WordsInv, FinalInv, listening
<1>7. PendingFits'
  <2>1. Pending \in Texts
    BY <1>1, PendingTyped
  <2>2. Pending' = Pending
    BY <1>2 DEF Pending
  <2>. QED
    BY <1>1, <1>2, <2>1, <2>2, StillFits DEF WordsInv, PendingFits
<1>8. OwedInv'
  <2>1. CASE provider # "openai"
    BY <1>2, <2>1 DEF WordsInv, OwedInv
  <2>2. CASE provider = "openai"
    <3>1. /\ ghost.forced = {} /\ Fits(voice.owed, heard, {}, voice.n)
          /\ \A k \in DOMAIN voice.owed : voice.owed[k] \notin ghost.said
      BY <2>2 DEF WordsInv, OwedInv
    <3>2. Fits(voice.owed, heard, {}, voice'.n)
      BY <1>1, <1>2, <3>1, StillFits
    <3>3. \A k \in DOMAIN voice.owed : voice.owed[k] < voice'.n
      <4>1. \A k \in DOMAIN voice.owed : voice.owed[k] \in Int
        BY <1>1, TextElements
      <4>. QED
        BY <1>1, <1>2, <3>1, <4>1 DEF Fits
    <3>. QED
      BY <1>2, <2>2, <3>1, <3>2, <3>3 DEF OwedInv
  <2>. QED
    BY <2>1, <2>2
<1>. QED
  BY <1>3, <1>4, <1>5, <1>6, <1>7, <1>8 DEF WordsInv

LEMMA WordsStep == TypeInv /\ WordsInv /\ [Next]_vars => WordsInv'
<1>. SUFFICES ASSUME TypeInv, WordsInv, [Next]_vars PROVE WordsInv'
  OBVIOUS
<1>1. closes \in Nat
  BY Typed
<1>2. CASE Connect \/ LinkEnds \/ Toggle \/ ReceiverEnds \/ UNCHANGED vars
  <2>1. UNCHANGED <<provider, voice, ghost, heard, closes, audio, turn>>
    BY <1>2 DEF Connect, LinkEnds, Toggle, ReceiverEnds, listener, vars
  <2>. QED
    BY <1>1, <2>1, QuietStep
<1>3. CASE ConnectFails \/ SessionEnds \/ Finish
  <2>1. Run.fails \in Nat
    <3>1. provider \in Clients
      BY Typed, ProvidersAssumption
    <3>. QED
      BY <3>1 DEF Run, DeepgramRun, FluxRun, GladiaRun, SmallestRun, ElevenlabsRun, SarvamRun,
                  AssemblyaiRun, PixaRun, OpenaiRun, GoogleRun, AzureRun, Clients
  <2>2. /\ UNCHANGED <<provider, voice, ghost, heard, audio, turn>>
        /\ \E k \in Nat : closes' = closes + k
    BY <1>3, <2>1 DEF ConnectFails, SessionEnds, Finish, Closed
  <2>3. closes' \in Nat /\ closes' >= closes
    BY <1>1, <2>2
  <2>. QED
    BY <2>2, <2>3, QuietStep
<1>. QED
  BY <1>2, <1>3, SpeakStep, SenderStep, TimeoutStep, DeepgramStep, FluxStep, GladiaStep, SmallestStep,
     ElevenlabsStep, PixaStep, SarvamStep, AssemblyaiStep, OpenaiStep, GoogleStep, AzureStep DEF Next

(* The listener hears what the provider has finalised: nothing of it is lost,  *)
(* it comes in the order it was spoken, and only what a time limit had sent    *)
(* comes again; with every provider and however many segments are spoken.      *)
THEOREM WordsAreHeard == Spec => []WordsHeard
<1>1. Init => WordsInv
  <2>. SUFFICES ASSUME Init PROVE WordsInv
    OBVIOUS
  <2>1. /\ heard = <<>> /\ voice.owed = <<>> /\ turn.final = <<>> /\ turn.interim = 0
        /\ turn.sent = FALSE /\ ghost.said = {} /\ ghost.forced = {} /\ voice.stage = "quiet"
    BY DEF Init, FreshTurn
  <2>2. Good(heard, {}, {}, voice.n) /\ Fits(<<>>, heard, {}, voice.n) /\ ToSet(turn.final) = {}
    BY <2>1, NoneOf, EmptyFits DEF Good
  <2>3. Pending = <<>>
    BY <2>1 DEF Pending
  <2>4. VoiceInv /\ HeardInv /\ NothingLost /\ OwedInv
    BY <2>1, <2>2 DEF VoiceInv, HeardInv, NothingLost, OwedInv, Talking
  <2>5. PendingFits /\ FinalInv
    BY <2>1, <2>2, <2>3 DEF PendingFits, FinalInv
  <2>. QED
    BY <2>4, <2>5 DEF WordsInv
<1>2. TypeInv /\ WordsInv => WordsHeard
  BY Typed DEF WordsInv, HeardInv, Good, WordsHeard, RepeatOnlyIfForced, SpokenOrder
<1>. QED
  BY <1>1, <1>2, WordsStep, TypeInvKept, PTL DEF Spec

-----------------------------------------------------------------------------
(* Speculative answers: only flux lets the listener start one, and it has the  *)
(* mark of one that is still to be confirmed or withdrawn.                     *)
EagerInv == (asked # "no" => provider = "flux") /\ EagerSettled

(* The packets of the other clients start none. *)
LEMMA NotAsked ==
  ASSUME EagerInv, provider # "flux", UNCHANGED provider,
         NEW text, Interim \/ Transcript(text, FALSE) \/ SpeechEnded \/ Nothing
  PROVE  EagerInv'
<1>1. asked = "no"
  BY DEF EagerInv
<1>2. asked' = "no"
  BY <1>1 DEF Interim, Transcript, Ignored, Answered, MayCancel, SpeechEnded, Nothing, listener
<1>. QED
  BY <1>2 DEF EagerInv, EagerSettled

(* A packet that starts no answer leaves a pending one as it was, or none. *)
LEMMA EagerNotStarted ==
  ASSUME EagerSettled, UNCHANGED closes, asked' = "yes" => asked = "yes",
         turn.eager => turn'.eager
  PROVE  EagerSettled'
<1>1. listening' = listening
  BY DEF listening
<1>. QED
  BY <1>1 DEF EagerSettled

(* Nor does a step that pushes no packet but the closed ones. *)
LEMMA EagerKept ==
  ASSUME EagerInv, closes \in Nat, closes' \in Nat, closes' >= closes,
         UNCHANGED <<provider, asked>>, turn'.eager = turn.eager
  PROVE  EagerInv'
<1>1. listening' => listening
  BY DEF listening
<1>. QED
  BY <1>1 DEF EagerInv, EagerSettled

LEMMA EagerFlux == ASSUME TypeInv, EagerInv, FluxReceiver PROVE EagerInv'
<1>1. /\ turn \in TurnType /\ provider = "flux" /\ provider' = "flux" /\ turn.eager \in BOOLEAN
      /\ BeginTurn(turn) \in TurnType /\ Reset(turn) \in TurnType
      /\ NotePartial(turn).eager = turn.eager /\ BeginTurn(turn).eager = turn.eager
  BY Typed, TurnsTyped, Clears, Noted DEF FluxReceiver, Receives, client, TurnType
<1>2. SUFFICES EagerSettled'
  BY <1>1 DEF EagerInv
<1>3. EagerSettled
  BY DEF EagerInv
<1>4. CASE FluxStart
  <2>1. UNCHANGED closes /\ (asked' = "yes" => asked = "yes")
    BY <1>4 DEF FluxStart, Interim, MayCancel, Nothing, listener
  <2>2. ~turn.eager
    BY <1>4 DEF FluxStart
  <2>. QED
    BY <1>3, <2>1, <2>2, EagerNotStarted
<1>5. CASE FluxUpdate
  <2>1. UNCHANGED closes /\ (asked' = "yes" => asked = "yes")
    BY <1>5 DEF FluxUpdate, Interim, MayCancel
  <2>2. turn'.eager = turn.eager
    BY <1>1, <1>5 DEF FluxUpdate
  <2>. QED
    BY <1>3, <2>1, <2>2, EagerNotStarted
<1>6. CASE FluxEager
  <2>1. turn'.eager
    BY <1>1, <1>6 DEF FluxEager, TurnType
  <2>. QED
    BY <2>1 DEF EagerSettled
<1>7. CASE FluxResumed
  <2>1. ~(listening /\ asked' = "yes") /\ UNCHANGED closes
    BY <1>7 DEF FluxResumed, TurnResumed
  <2>. QED
    BY <2>1 DEF EagerSettled, listening
<1>8. CASE FluxEnd
  (* The confirmation consumes the answer, or leaves it stale; the end of a    *)
  (* turn without words withdraws it.                                          *)
  <2>1. CASE turn.eager
    <3>1. CASE Finalised /\ Transcript(<<voice.n>>, turn.eager)
      <4>1. UNCHANGED closes /\ (listening => asked' # "yes")
        BY <2>1, <3>1 DEF Transcript, Ignored, Answered
      <4>. QED
        BY <4>1 DEF EagerSettled, listening
    <3>2. CASE TurnResumed
      <4>1. UNCHANGED closes /\ (listening => asked' # "yes")
        BY <3>2 DEF TurnResumed
      <4>. QED
        BY <4>1 DEF EagerSettled, listening
    <3>. QED
      BY <1>8, <2>1, <3>1, <3>2 DEF FluxEnd
  <2>2. CASE ~turn.eager
    <3>1. UNCHANGED closes /\ (asked' = "yes" => asked = "yes")
      BY <1>8, <2>2 DEF FluxEnd, Transcript, Ignored, Answered, MayCancel, Nothing, listener
    <3>. QED
      BY <1>3, <2>2, <3>1, EagerNotStarted
  <2>. QED
    BY <1>1, <2>1, <2>2
<1>. QED
  BY <1>4, <1>5, <1>6, <1>7, <1>8 DEF FluxReceiver

LEMMA EagerStep == TypeInv /\ EagerInv /\ [Next]_vars => EagerInv'
<1>. SUFFICES ASSUME TypeInv, EagerInv, [Next]_vars PROVE EagerInv'
  OBVIOUS
<1>1. closes \in Nat /\ turn \in TurnType
  BY Typed
<1>2. CASE DeepgramReceiver
  BY <1>2, NotAsked
     DEF DeepgramReceiver, Receives, client, NovaSpeechStarted, NovaInterim, NovaFinal,
         NovaSpeechFinal, NovaBlankFinal, NovaUtteranceEnd
<1>3. CASE \/ GladiaReceiver \/ SmallestReceiver \/ ElevenlabsReceiver \/ PixaReceiver
           \/ SarvamReceiver \/ AssemblyaiReceiver
  BY <1>3, NotAsked
     DEF GladiaReceiver, SmallestReceiver, ElevenlabsReceiver, PixaReceiver, SarvamReceiver,
         AssemblyaiReceiver, Receives, client
<1>4. CASE OpenaiReceiver \/ GoogleReceiver \/ AzureReceiver
  BY <1>4, NotAsked
     DEF OpenaiReceiver, OpenaiSpeechStarted, OpenaiSpeechStopped, OpenaiDelta, OpenaiCompleted,
         OpenaiFailed, GoogleReceiver, AzureReceiver, AzureRecognizing, AzureRecognized,
         Receives, client
<1>5. CASE UtteranceTimeout
  <2>1. CASE OpenaiTimeout
    BY <2>1, NotAsked DEF OpenaiTimeout, client, Nothing
  <2>2. CASE \/ DeepgramTimeout \/ GladiaTimeout \/ SmallestTimeout \/ ElevenlabsTimeout
             \/ PixaTimeout
    BY <2>2, NotAsked
       DEF DeepgramTimeout, GladiaTimeout, SmallestTimeout, ElevenlabsTimeout, PixaTimeout,
           ForceFinalize, client
  <2>. QED
    BY <1>5, <2>1, <2>2 DEF UtteranceTimeout
<1>6. CASE SendAudio
  <2>1. UNCHANGED <<provider, asked, closes>>
    BY <1>6 DEF SendAudio, DeepgramSender, GladiaSender, SmallestSender, ElevenlabsSender,
                SarvamSender, AssemblyaiSender, PixaSender, OpenaiSender, GoogleSender,
                AzureSender, Sender, listener
  <2>2. /\ Opened.eager = turn.eager /\ BeginTurn(turn).eager = turn.eager
        /\ [turn EXCEPT !.committed = TRUE].eager = turn.eager
    BY <1>1, Clears DEF Opened, TurnType
  <2>3. turn'.eager = turn.eager
    BY <1>6, <2>2 DEF SendAudio, DeepgramSender, GladiaSender, SmallestSender, ElevenlabsSender,
                      SarvamSender, AssemblyaiSender, PixaSender, OpenaiSender, GoogleSender,
                      AzureSender, Sender
  <2>4. closes' >= closes /\ closes' \in Nat
    BY <1>1, <2>1
  <2>. QED
    BY <1>1, <2>1, <2>3, <2>4, EagerKept
<1>7. CASE Speak \/ Connect \/ LinkEnds \/ Toggle \/ ReceiverEnds \/ UNCHANGED vars
  <2>1. UNCHANGED <<provider, asked, closes, turn>>
    BY <1>7 DEF Speak, Connect, LinkEnds, Toggle, ReceiverEnds, listener, client, vars
  <2>2. closes' >= closes /\ closes' \in Nat
    BY <1>1, <2>1
  <2>. QED
    BY <1>1, <2>1, <2>2, EagerKept
<1>8. CASE ConnectFails \/ SessionEnds \/ Finish
  <2>1. Run.fails \in Nat
    <3>1. provider \in Clients
      BY Typed, ProvidersAssumption
    <3>. QED
      BY <3>1 DEF Run, DeepgramRun, FluxRun, GladiaRun, SmallestRun, ElevenlabsRun, SarvamRun,
                  AssemblyaiRun, PixaRun, OpenaiRun, GoogleRun, AzureRun, Clients
  <2>2. /\ UNCHANGED <<provider, asked, turn>>
        /\ \E k \in Nat : closes' = closes + k
    BY <1>8, <2>1 DEF ConnectFails, SessionEnds, Finish, Closed
  <2>3. closes' \in Nat /\ closes' >= closes
    BY <1>1, <2>2
  <2>. QED
    BY <1>1, <2>2, <2>3, EagerKept
<1>. QED
  BY <1>2, <1>3, <1>4, <1>5, <1>6, <1>7, <1>8, EagerFlux DEF Next

(* A speculative answer the listener has started is always still to be         *)
(* confirmed or withdrawn by the client.                                       *)
THEOREM EagerAnswersSettled == Spec => []EagerSettled
<1>1. Init => EagerInv
  BY DEF Init, EagerInv, EagerSettled
<1>2. EagerInv => EagerSettled
  BY DEF EagerInv
<1>. QED
  BY <1>1, <1>2, EagerStep, TypeInvKept, PTL DEF Spec
=============================================================================
