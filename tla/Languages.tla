----------------------------- MODULE Languages ------------------------------
(* A multilingual call: the pools that hold one transcriber and one            *)
(* synthesizer per language (src/bolna/transcriber/transcriber_pool.py,        *)
(* src/bolna/synthesizer/synthesizer_pool.py) and switch_language() of the     *)
(* task manager, called by the LLM's tool and by the language detector of      *)
(* src/bolna/lid, which run concurrently: a switch waits for the old           *)
(* synthesizer's generator task, which it has cancelled, to end.               *)
EXTENDS Naturals, Sequences, FiniteSets, SequencesExt

CONSTANTS Labels,       \* languages that have a transcriber
          VoiceLabels,  \* languages that have a synthesizer
          First,        \* the language the call starts in
          MaxSwitches,  \* bound: calls of switch_language
          MaxDrops,     \* bound: transcribers that close
          MaxOut        \* bound: packets in the synthesizers' output queue

ASSUME FirstAssumption == First \in Labels \intersect VoiceLabels
ASSUME BoundsAssumption == MaxSwitches \in Nat /\ MaxDrops \in Nat /\ MaxOut \in Nat

VARIABLES
  ear,       \* TranscriberPool.active_label
  voice,     \* SynthesizerPool.active_label
  language,  \* self.language of the task manager
  kind,      \* class of each transcriber, see Alive
  up,        \* the transcribers whose connection is up
  closed,    \* transcriber_connection_closed packets not yet read
  ended,     \* the listener has ended the call
  gens,      \* generator tasks that run: task id -> label
  current,   \* id of _gen_task
  cancelled, \* ids of cancelled generator tasks that still run
  out,       \* _output_queue: audio of a label, or the switch sentinel
  worker,    \* the callers of switch_language: idle, or waiting for a generator
  lid,       \* the detector: pending language and count, cooldown, mode
  switches,  \* calls of switch_language so far
  drops,     \* transcribers closed so far
  ghost      \* what makes the pools disagree: overlapping or half-made switches

ears == <<ear, kind, up, closed, ended, drops>>
voices == <<voice, gens, current, cancelled, out>>
vars == <<ear, voice, language, kind, up, closed, ended, gens, current, cancelled, out,
          worker, lid, switches, drops, ghost>>

None == "none"
Sentinel == "switch"
Workers == {"tool", "lid"}
Idle == [state |-> "idle", label |-> None, waits |-> 0]
AllIdle == \A w \in Workers : worker[w] = Idle

Init ==
  /\ ear = First /\ voice = First /\ language = First
  /\ kind \in [Labels -> {"websocket", "google", "azure"}]
  /\ up = Labels /\ closed = 0 /\ ended = FALSE
  /\ gens = [i \in {1} |-> First] /\ current = 1 /\ cancelled = {}
  /\ out = <<>>
  /\ worker = [w \in Workers |-> Idle]
  /\ lid \in [lang : {None}, count : {0}, cooling : {FALSE}, mode : {"shadow", "active"}]
  /\ switches = 0 /\ drops = 0 /\ ghost = {}

-----------------------------------------------------------------------------
(* Transcribers. *)

(* transcription_task, exists and is not done: a websocket client's task ends  *)
(* when it has pushed its closed packet; google's runs as long as audio comes, *)
(* whatever became of the stream in its thread; azure's is never made.         *)
TaskDone(l) == kind[l] = "websocket" /\ l \notin up
Alive(l) == kind[l] = "google" \/ (kind[l] = "websocket" /\ l \in up)

(* A provider closes a connection: a standby it gets no audio on, or the       *)
(* active one.                                                                 *)
Drop(l) ==
  /\ ~ended /\ l \in up /\ drops < MaxDrops
  /\ up' = up \ {l} /\ closed' = closed + 1 /\ drops' = drops + 1
  /\ UNCHANGED <<ear, kind, ended, voices, language, worker, lid, switches, ghost>>

HearAnyClosed ==   \* mutant
  /\ ~ended /\ closed > 0
  /\ closed' = closed - 1
  /\ ended' = TRUE
  /\ UNCHANGED <<ear, kind, up, drops, voices, language, worker, lid, switches, ghost>>

(* The listener reads a closed packet: it goes on if the transcriber that is   *)
(* active now is alive, whichever has closed.                                  *)
HearClosed ==
  /\ ~ended /\ closed > 0
  /\ closed' = closed - 1
  /\ ended' = ~Alive(ear)
  /\ UNCHANGED <<ear, kind, up, drops, voices, language, worker, lid, switches, ghost>>

(* TranscriberPool.switch(): a dead target is run again first.                 *)
EarAt(l) ==
  /\ ear' = l
  /\ up' = IF TaskDone(l) THEN up \union {l} ELSE up
  /\ UNCHANGED <<kind, closed, ended, drops>>

SwitchEar(l) == IF l = ear THEN UNCHANGED ears ELSE EarAt(l)

-----------------------------------------------------------------------------
(* Synthesizers. *)

(* _run_generate(): audio of the running generators goes to the one queue. *)
Generate(i) ==
  /\ ~ended /\ i \in DOMAIN gens \ cancelled /\ Len(out) < MaxOut
  /\ out' = Append(out, gens[i])
  /\ UNCHANGED <<ears, voice, gens, current, cancelled, language, worker, lid, switches, ghost>>

(* A cancelled generator task ends. *)
GeneratorEnds(i) ==
  /\ i \in cancelled
  /\ gens' = [j \in DOMAIN gens \ {i} |-> gens[j]]
  /\ cancelled' = cancelled \ {i}
  /\ UNCHANGED <<ears, voice, current, out, language, worker, lid, switches, ghost>>

(* generate() hands the task manager the next packet, or returns and is        *)
(* entered again.                                                              *)
Listen ==
  /\ ~ended /\ out # <<>> /\ out' = Tail(out)
  /\ UNCHANGED <<ears, voice, gens, current, cancelled, language, worker, lid, switches, ghost>>

(* SynthesizerPool.switch(), after the old generator: the new one, and the     *)
(* sentinel, which ends generate().                                            *)
Tasks == 1..(MaxSwitches + 1)
NewTask == current + 1

NewVoiceSilently(l) ==   \* mutant
  /\ voice' = l
  /\ current' = NewTask
  /\ gens' = [i \in DOMAIN gens \union {NewTask} |-> IF i = NewTask THEN l ELSE gens[i]]
  /\ UNCHANGED <<out, cancelled>>

NewVoice(l) ==
  /\ voice' = l
  /\ current' = NewTask
  /\ gens' = [i \in DOMAIN gens \union {NewTask} |-> IF i = NewTask THEN l ELSE gens[i]]
  /\ out' = Append(out, Sentinel)
  /\ UNCHANGED cancelled

-----------------------------------------------------------------------------
(* switch_language(): the transcriber at once, the synthesizer after the old   *)
(* generator has ended, then self.language and the prompt.                     *)

(* ValueError of a pool that lacks the label: the tool reports it, the         *)
(* detector logs it.                                                           *)
EarUnknown(l) == l \notin Labels
VoiceUnknown(l) == l # voice /\ l \notin VoiceLabels

Overlap(w) == IF \E x \in Workers \ {w} : worker[x] # Idle THEN {"overlap"} ELSE {}

BeginSwitch(w, l) ==
  /\ worker[w] = Idle /\ ~ended /\ switches < MaxSwitches
  /\ switches' = switches + 1
  /\ IF EarUnknown(l)
     THEN UNCHANGED <<ears, voices, worker, language>> /\ ghost' = ghost
     ELSE /\ SwitchEar(l)
          /\ IF VoiceUnknown(l)
             THEN UNCHANGED <<voices, worker, language>> /\ ghost' = ghost \union {"half"}
             ELSE /\ ghost' = ghost \union Overlap(w)
                  /\ IF l = voice
                     THEN language' = l /\ UNCHANGED <<voices, worker>>
                     ELSE /\ cancelled' = cancelled \union ({current} \intersect DOMAIN gens)
                          /\ worker' = [worker EXCEPT ![w] =
                                          [state |-> "joining", label |-> l, waits |-> current]]
                          /\ UNCHANGED <<voice, gens, current, out, language>>

EndSwitchRereads(w) ==   \* mutant
  /\ worker[w].state = "joining" /\ current \notin DOMAIN gens
  /\ NewVoice(worker[w].label)
  /\ language' = worker[w].label
  /\ worker' = [worker EXCEPT ![w] = Idle]
  /\ UNCHANGED <<ears, lid, switches, ghost>>

EndSwitchOldPrompt(w) ==   \* mutant
  /\ worker[w].state = "joining" /\ worker[w].waits \notin DOMAIN gens
  /\ NewVoice(worker[w].label)
  /\ worker' = [worker EXCEPT ![w] = Idle]
  /\ UNCHANGED <<ears, lid, switches, ghost, language>>

EndSwitch(w) ==
  /\ worker[w].state = "joining" /\ worker[w].waits \notin DOMAIN gens
  /\ NewVoice(worker[w].label)
  /\ language' = worker[w].label
  /\ worker' = [worker EXCEPT ![w] = Idle]
  /\ UNCHANGED <<ears, lid, switches, ghost>>

(* The LLM calls the tool for another language than the current one. *)
CallTool(l) ==
  /\ l # language
  /\ BeginSwitch("tool", l)
  /\ UNCHANGED lid

-----------------------------------------------------------------------------
(* _handle_lid_signal(): a detected language, with confidence. *)
Signal(l) ==
  /\ worker["lid"] = Idle /\ ~ended
  /\ \/ /\ l = ear
        /\ lid' = [lid EXCEPT !.lang = None, !.count = 0]
        /\ UNCHANGED <<ears, voices, worker, language, switches, ghost>>
     \/ /\ l # ear /\ ~lid.cooling /\ lid.lang # l
        /\ lid' = [lid EXCEPT !.lang = l, !.count = 1]
        /\ UNCHANGED <<ears, voices, worker, language, switches, ghost>>
     \/ /\ l # ear /\ ~lid.cooling /\ lid.lang = l
        /\ lid' = [lid EXCEPT !.lang = None, !.count = 0, !.cooling = TRUE]
        /\ IF lid.mode = "active" THEN BeginSwitch("lid", l)
           ELSE UNCHANGED <<ears, voices, worker, language, switches, ghost>>

(* _LID_COOLDOWN_S has passed. *)
CooldownEnds ==
  /\ lid.cooling
  /\ lid' = [lid EXCEPT !.cooling = FALSE]
  /\ UNCHANGED <<ears, voices, worker, language, switches, ghost>>

Next ==
  \/ \E l \in Labels : Drop(l) \/ Signal(l)
  \/ \E l \in Labels \union VoiceLabels : CallTool(l)
  \/ \E i \in DOMAIN gens : Generate(i) \/ GeneratorEnds(i)
  \/ \E w \in Workers : EndSwitch(w)
  \/ HearClosed \/ Listen \/ CooldownEnds

Spec == Init /\ [][Next]_vars

(* A cancelled task ends, and whoever waits for it goes on. *)
LiveSpec ==
  /\ Spec
  /\ \A i \in Tasks : WF_vars(i \in DOMAIN gens /\ GeneratorEnds(i))
  /\ \A w \in Workers : WF_vars(EndSwitch(w))

-----------------------------------------------------------------------------
(* Every variable has its type. *)
TypeOK ==
  /\ ear \in Labels /\ voice \in VoiceLabels /\ language \in Labels \intersect VoiceLabels
  /\ kind \in [Labels -> {"websocket", "google", "azure"}]
  /\ up \subseteq Labels /\ closed \in Nat /\ ended \in BOOLEAN
  /\ DOMAIN gens \subseteq Nat /\ \A i \in DOMAIN gens : gens[i] \in VoiceLabels
  /\ current \in Nat /\ cancelled \subseteq DOMAIN gens
  /\ out \in Seq(VoiceLabels \union {Sentinel})
  /\ worker \in [Workers -> [state : {"idle", "joining"},
                             label : {None} \union (Labels \intersect VoiceLabels), waits : Nat]]
  /\ lid \in [lang : Labels \union {None}, count : 0..1, cooling : BOOLEAN,
              mode : {"shadow", "active"}]
  /\ switches \in Nat /\ drops \in Nat /\ ghost \subseteq {"overlap", "half"}

(* Between switches, the caller is heard and answered in the language of the   *)
(* prompt, unless two switches overlapped or one of the pools lacked the label.*)
PoolsAgree == AllIdle /\ ghost = {} => ear = voice /\ voice = language

(* One synthesizer's generator at most feeds the output queue, the active      *)
(* voice's, unless two switches overlapped.                                    *)
OneVoice ==
  "overlap" \notin ghost =>
    \A i \in DOMAIN gens \ cancelled : i = current /\ gens[i] = voice

(* The audio the task manager will take after the last switch is the new       *)
(* voice's: what the old one left lies before the sentinel.                    *)
NoOldVoice ==
  "overlap" \notin ghost =>
    \A i \in DOMAIN out :
      (\A j \in i..Len(out) : out[j] # Sentinel) => out[i] = voice

(* One voice speaks, and it is the active one's. *)
VoiceIsActive == OneVoice /\ NoOldVoice

(* The call is not deaf: when the active transcriber, a websocket client, has  *)
(* closed, its packet is still to be read, or the call has ended.              *)
DeathNoticed == kind[ear] = "websocket" /\ ear \notin up => ended \/ closed > 0

(* The end of a standby transcriber ends no call whose active one is up        *)
(* (a call whose active transcriber is azure's has no task to tell it by).     *)
StandbyMayClose == [][ended' /\ ~ended /\ kind[ear] # "azure" => ear \notin up]_vars

(* The call ends when its active transcriber closes, and not when another does.*)
DeathEndsCall == []DeathNoticed /\ StandbyMayClose

(* A switch that has begun is completed. *)
SwitchCompletes == \A w \in Workers : worker[w] # Idle ~> worker[w] = Idle

=============================================================================
