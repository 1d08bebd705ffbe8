-------------------------- MODULE LanguagesProofs ---------------------------
(* Theorems about Languages, for any languages of the two pools, any number    *)
(* of switches and of transcribers that close.                                 *)
EXTENDS Languages, TLAPS

(* Generator tasks are numbered as they are made, so a new one is new. *)
Numbered == \A i \in DOMAIN gens : i <= current

TypeInv == TypeOK /\ Numbered

LEMMA TypeInit == Init => TypeInv
<1>. SUFFICES ASSUME Init PROVE TypeInv
  OBVIOUS
<1>1. ear \in Labels /\ voice \in VoiceLabels /\ language \in Labels \intersect VoiceLabels
  BY FirstAssumption DEF Init
<1>2. /\ DOMAIN gens \subseteq Nat /\ \A i \in DOMAIN gens : gens[i] \in VoiceLabels
      /\ current \in Nat /\ cancelled \subseteq DOMAIN gens /\ Numbered
  BY FirstAssumption DEF Init, Numbered
<1>3. worker \in [Workers -> [state : {"idle", "joining"},
                              label : {None} \union (Labels \intersect VoiceLabels), waits : Nat]]
  BY DEF Init, Idle
<1>4. out \in Seq(VoiceLabels \union {Sentinel}) /\ up \subseteq Labels /\ ghost \subseteq {"overlap", "half"}
  BY DEF Init
<1>5. lid \in [lang : Labels \union {None}, count : 0..1, cooling : BOOLEAN,
               mode : {"shadow", "active"}]
  <2>1. PICK n \in {None}, c \in {0}, b \in {FALSE}, m \in {"shadow", "active"} :
             lid = [lang |-> n, count |-> c, cooling |-> b, mode |-> m]
    BY DEF Init
  <2>. QED
    BY <2>1
<1>. QED
  BY <1>1, <1>2, <1>3, <1>4, <1>5 DEF Init, TypeInv, TypeOK

(* The two ways to change the voice keep the types of the synthesizers' pool.  *)
LEMMA NewVoiceTypes ==
  ASSUME TypeInv, NEW l \in VoiceLabels, NewVoice(l)
  PROVE  /\ voice' = l /\ current' = current + 1 /\ cancelled' = cancelled
         /\ DOMAIN gens' = DOMAIN gens \union {current'} /\ gens'[current'] = l
         /\ \A i \in DOMAIN gens : gens'[i] = gens[i]
         /\ out' \in Seq(VoiceLabels \union {Sentinel})
<1>1. current + 1 \notin DOMAIN gens /\ current \in Nat
  BY DEF TypeInv, TypeOK, Numbered
<1>2. gens' = [i \in DOMAIN gens \union {current + 1} |-> IF i = current + 1 THEN l ELSE gens[i]]
  BY DEF NewVoice, NewTask
<1>3. /\ DOMAIN gens' = DOMAIN gens \union {current + 1} /\ gens'[current + 1] = l
      /\ \A i \in DOMAIN gens : gens'[i] = gens[i]
  BY <1>1, <1>2
<1>4. out' \in Seq(VoiceLabels \union {Sentinel})
  BY DEF NewVoice, TypeInv, TypeOK
<1>. QED
  BY <1>3, <1>4 DEF NewVoice, NewTask

LEMMA EarTypes ==
  ASSUME TypeInv, NEW l \in Labels, SwitchEar(l)
  PROVE  /\ ear' = l /\ up \subseteq up' /\ up' \subseteq Labels
         /\ (l # ear /\ kind[l] = "websocket" => l \in up')
         /\ (l = ear => up' = up)
         /\ UNCHANGED <<kind, closed, ended, drops>>
  BY DEF SwitchEar, EarAt, TaskDone, ears, TypeInv, TypeOK

(* What BeginSwitch does, by the label it is given. *)
Refused(l) ==
  /\ EarUnknown(l)
  /\ UNCHANGED <<ears, voices, worker, language, ghost>>
Halved(l) ==
  /\ ~EarUnknown(l) /\ VoiceUnknown(l) /\ SwitchEar(l)
  /\ ghost' = ghost \union {"half"}
  /\ UNCHANGED <<voices, worker, language>>
SameVoice(w, l) ==
  /\ ~EarUnknown(l) /\ ~VoiceUnknown(l) /\ l = voice /\ SwitchEar(l)
  /\ ghost' = ghost \union Overlap(w) /\ language' = l
  /\ UNCHANGED <<voices, worker>>
Joins(w, l) ==
  /\ ~EarUnknown(l) /\ ~VoiceUnknown(l) /\ l # voice /\ SwitchEar(l)
  /\ ghost' = ghost \union Overlap(w)
  /\ cancelled' = cancelled \union ({current} \intersect DOMAIN gens)
  /\ worker' = [worker EXCEPT ![w] = [state |-> "joining", label |-> l, waits |-> current]]
  /\ UNCHANGED <<voice, gens, current, out, language>>

LEMMA SwitchKinds ==
  ASSUME NEW w \in Workers, NEW l, BeginSwitch(w, l)
  PROVE  /\ worker[w] = Idle /\ switches' = switches + 1
         /\ Refused(l) \/ Halved(l) \/ SameVoice(w, l) \/ Joins(w, l)
<1>1. CASE EarUnknown(l)
  BY <1>1 DEF BeginSwitch, Refused
<1>2. CASE ~EarUnknown(l) /\ VoiceUnknown(l)
  BY <1>2 DEF BeginSwitch, Halved
<1>3. CASE ~EarUnknown(l) /\ ~VoiceUnknown(l) /\ l = voice
  BY <1>3 DEF BeginSwitch, SameVoice
<1>4. CASE ~EarUnknown(l) /\ ~VoiceUnknown(l) /\ l # voice
  BY <1>4 DEF BeginSwitch, Joins
<1>. QED
  BY <1>1, <1>2, <1>3, <1>4

LEMMA SwitchTypes ==
  ASSUME TypeInv, NEW w \in Workers, NEW l, BeginSwitch(w, l)
  PROVE  /\ ear' \in Labels /\ voice' \in VoiceLabels /\ language' \in Labels \intersect VoiceLabels
         /\ kind' = kind /\ up' \subseteq Labels /\ closed' = closed /\ ended' = ended
         /\ gens' = gens /\ current' = current /\ cancelled' \subseteq DOMAIN gens /\ out' = out
         /\ worker' \in [Workers -> [state : {"idle", "joining"},
                           label : {None} \union (Labels \intersect VoiceLabels), waits : Nat]]
         /\ switches' \in Nat /\ drops' = drops /\ ghost' \subseteq {"overlap", "half"}
<1>0. switches' \in Nat
  BY SwitchKinds DEF TypeInv, TypeOK
<1>1. Overlap(w) \subseteq {"overlap", "half"}
  BY DEF Overlap
<1>2. CASE Refused(l)
  BY <1>0, <1>2 DEF Refused, ears, voices, TypeInv, TypeOK
<1>3. CASE Halved(l)
  <2>1. l \in Labels
    BY <1>3 DEF Halved, EarUnknown
  <2>. QED
    BY <1>0, <1>3, <2>1, EarTypes DEF Halved, voices, TypeInv, TypeOK
<1>4. CASE SameVoice(w, l)
  <2>1. l \in Labels \intersect VoiceLabels
    BY <1>4 DEF SameVoice, EarUnknown, TypeInv, TypeOK
  <2>. QED
    BY <1>0, <1>1, <1>4, <2>1, EarTypes DEF SameVoice, voices, TypeInv, TypeOK
<1>5. CASE Joins(w, l)
  <2>1. l \in Labels \intersect VoiceLabels
    BY <1>5 DEF Joins, EarUnknown, VoiceUnknown
  <2>2. ear' \in Labels /\ up' \subseteq Labels /\ UNCHANGED <<kind, closed, ended, drops>>
    BY <1>5, <2>1, EarTypes DEF Joins
  <2>3. [state |-> "joining", label |-> l, waits |-> current]
          \in [state : {"idle", "joining"},
               label : {None} \union (Labels \intersect VoiceLabels), waits : Nat]
    BY <2>1 DEF TypeInv, TypeOK
  <2>4. worker' \in [Workers -> [state : {"idle", "joining"},
                       label : {None} \union (Labels \intersect VoiceLabels), waits : Nat]]
    BY <1>5, <2>3 DEF Joins, TypeInv, TypeOK
  <2>. QED
    BY <1>0, <1>1, <1>5, <2>2, <2>4 DEF Joins, TypeInv, TypeOK
<1>. QED
  BY <1>2, <1>3, <1>4, <1>5, SwitchKinds

LEMMA EndSwitchTypes ==
  ASSUME TypeInv, NEW w \in Workers, EndSwitch(w)
  PROVE  /\ worker[w].label \in Labels \intersect VoiceLabels \/ worker[w].label = None
         /\ worker[w].waits \in Nat
         /\ worker' \in [Workers -> [state : {"idle", "joining"},
                           label : {None} \union (Labels \intersect VoiceLabels), waits : Nat]]
<1>1. worker[w] \in [state : {"idle", "joining"},
                     label : {None} \union (Labels \intersect VoiceLabels), waits : Nat]
  BY DEF TypeInv, TypeOK
<1>2. Idle \in [state : {"idle", "joining"},
                label : {None} \union (Labels \intersect VoiceLabels), waits : Nat]
  BY DEF Idle
<1>. QED
  BY <1>1, <1>2 DEF EndSwitch, TypeInv, TypeOK

(* Who joins a generator has a label. *)
Labelled == \A w \in Workers : worker[w].state = "joining" => worker[w].label \in Labels \intersect VoiceLabels

LEMMA TypeStep == TypeInv /\ Labelled /\ [Next]_vars => TypeInv' /\ Labelled'
<1>. SUFFICES ASSUME TypeInv, Labelled, [Next]_vars PROVE TypeInv' /\ Labelled'
  OBVIOUS
<1>1. ASSUME NEW l \in Labels, Drop(l) PROVE TypeInv' /\ Labelled'
  BY <1>1 DEF Drop, voices, TypeInv, TypeOK, Numbered, Labelled
<1>2. ASSUME NEW w \in Workers, NEW l, BeginSwitch(w, l),
             lid' \in [lang : Labels \union {None}, count : 0..1, cooling : BOOLEAN,
                       mode : {"shadow", "active"}]
      PROVE TypeInv' /\ Labelled'
  <2>1. TypeInv'
    BY <1>2, SwitchTypes DEF TypeInv, TypeOK, Numbered
  <2>2. CASE worker' = worker
    BY <2>1, <2>2 DEF Labelled
  <2>3. CASE Joins(w, l)
    <3>1. l \in Labels \intersect VoiceLabels
      BY <2>3 DEF Joins, EarUnknown, VoiceUnknown
    <3>. QED
      BY <2>1, <2>3, <3>1 DEF Joins, Labelled, TypeInv, TypeOK
  <2>. QED
    BY <1>2, <2>2, <2>3, SwitchKinds DEF Refused, Halved, SameVoice
<1>3. ASSUME NEW l \in Labels, Signal(l) PROVE TypeInv' /\ Labelled'
  <2>1. lid' \in [lang : Labels \union {None}, count : 0..1, cooling : BOOLEAN,
                  mode : {"shadow", "active"}]
    <3>1. lid \in [lang : Labels \union {None}, count : 0..1, cooling : BOOLEAN,
                   mode : {"shadow", "active"}]
      BY DEF TypeInv, TypeOK
    <3>2. \/ lid' = [lid EXCEPT !.lang = None, !.count = 0]
          \/ lid' = [lid EXCEPT !.lang = l, !.count = 1]
          \/ lid' = [lid EXCEPT !.lang = None, !.count = 0, !.cooling = TRUE]
      BY <1>3 DEF Signal
    <3>3. PICK n \in Labels \union {None}, c \in 0..1, b \in BOOLEAN, m \in {"shadow", "active"} :
               lid = [lang |-> n, count |-> c, cooling |-> b, mode |-> m]
      BY <3>1
    <3>4. lid' \in {[lang |-> None, count |-> 0, cooling |-> b, mode |-> m],
                    [lang |-> l, count |-> 1, cooling |-> b, mode |-> m],
                    [lang |-> None, count |-> 0, cooling |-> TRUE, mode |-> m]}
      BY <3>2, <3>3
    <3>5. CASE lid' = [lang |-> None, count |-> 0, cooling |-> b, mode |-> m]
      BY <3>5
    <3>6. CASE lid' = [lang |-> l, count |-> 1, cooling |-> b, mode |-> m]
      BY <3>6
    <3>7. CASE lid' = [lang |-> None, count |-> 0, cooling |-> TRUE, mode |-> m]
      BY <3>7
    <3>. QED
      BY <3>4, <3>5, <3>6, <3>7
  <2>2. CASE UNCHANGED <<ears, voices, worker, language, switches, ghost>>
    BY <2>1, <2>2 DEF ears, voices, TypeInv, TypeOK, Numbered, Labelled
  <2>3. CASE BeginSwitch("lid", l)
    BY <1>2, <2>1, <2>3 DEF Workers
  <2>. QED
    BY <1>3, <2>2, <2>3 DEF Signal
<1>4. ASSUME NEW l, CallTool(l) PROVE TypeInv' /\ Labelled'
  BY <1>2, <1>4 DEF CallTool, Workers, TypeInv, TypeOK
<1>5. ASSUME NEW i \in DOMAIN gens, Generate(i) PROVE TypeInv' /\ Labelled'
  BY <1>5 DEF Generate, ears, TypeInv, TypeOK, Numbered, Labelled
<1>6. ASSUME NEW i \in DOMAIN gens, GeneratorEnds(i) PROVE TypeInv' /\ Labelled'
  BY <1>6 DEF GeneratorEnds, ears, TypeInv, TypeOK, Numbered, Labelled
<1>7. ASSUME NEW w \in Workers, EndSwitch(w) PROVE TypeInv' /\ Labelled'
  <2>1. worker[w].label \in Labels \intersect VoiceLabels
    BY <1>7 DEF EndSwitch, Labelled
  <2>2. NewVoice(worker[w].label)
    BY <1>7 DEF EndSwitch
  <2>3. current \in Nat /\ current' = current + 1
    BY <2>2 DEF NewVoice, NewTask, TypeInv, TypeOK
  <2>4. Numbered'
    BY <2>1, <2>2, <2>3, NewVoiceTypes DEF Numbered, TypeInv, TypeOK
  <2>5. /\ DOMAIN gens' \subseteq Nat /\ \A i \in DOMAIN gens' : gens'[i] \in VoiceLabels
        /\ cancelled' \subseteq DOMAIN gens'
    <3>1. /\ DOMAIN gens' = DOMAIN gens \union {current'} /\ gens'[current'] \in VoiceLabels
          /\ \A i \in DOMAIN gens : gens'[i] = gens[i]
          /\ cancelled' = cancelled
      BY <2>1, <2>2, NewVoiceTypes
    <3>. QED
      BY <2>3, <3>1 DEF TypeInv, TypeOK
  <2>6. Labelled'
    BY <1>7 DEF EndSwitch, Idle, Labelled, TypeInv, TypeOK
  <2>. QED
    BY <1>7, <2>1, <2>2, <2>3, <2>4, <2>5, <2>6, NewVoiceTypes, EndSwitchTypes
       DEF EndSwitch, ears, TypeInv, TypeOK
<1>8. CASE HearClosed
  BY <1>8 DEF HearClosed, Alive, voices, TypeInv, TypeOK, Numbered, Labelled
<1>9. CASE Listen
  BY <1>9 DEF Listen, ears, TypeInv, TypeOK, Numbered, Labelled
<1>10. CASE CooldownEnds
  BY <1>10 DEF CooldownEnds, ears, voices, TypeInv, TypeOK, Numbered, Labelled
<1>11. CASE UNCHANGED vars
  BY <1>11 DEF vars, TypeInv, TypeOK, Numbered, Labelled
<1>. QED
  BY <1>1, <1>3, <1>4, <1>5, <1>6, <1>7, <1>8, <1>9, <1>10, <1>11 DEF Next

(* Every variable of Languages keeps its type. *)
THEOREM TypeCorrect == Spec => []TypeOK
<1>1. Init => Labelled
  BY DEF Init, Labelled, Idle
<1>2. TypeInv => TypeOK
  BY DEF TypeInv
<1>. QED
  BY <1>1, <1>2, TypeInit, TypeStep, PTL DEF Spec

-----------------------------------------------------------------------------
(* A transcriber that closes leaves a packet, and switching to a dead one runs *)
(* it again.                                                                   *)
LEMMA DeathInit == Init => DeathNoticed
  BY FirstAssumption DEF Init, DeathNoticed

LEMMA DeathStep == TypeInv /\ DeathNoticed /\ [Next]_vars => DeathNoticed'
<1>. SUFFICES ASSUME TypeInv, DeathNoticed, [Next]_vars PROVE DeathNoticed'
  OBVIOUS
<1>1. CASE UNCHANGED ears
  BY <1>1 DEF ears, DeathNoticed
<1>2. ASSUME NEW l \in Labels, Drop(l) PROVE DeathNoticed'
  BY <1>2 DEF Drop, DeathNoticed, TypeInv, TypeOK
<1>3. CASE HearClosed
  BY <1>3 DEF HearClosed, Alive, DeathNoticed
<1>4. ASSUME NEW w \in Workers, NEW l, BeginSwitch(w, l) PROVE DeathNoticed'
  <2>1. CASE Refused(l)
    BY <1>1, <2>1 DEF Refused
  <2>2. CASE l \in Labels /\ SwitchEar(l)
    BY <2>2, EarTypes DEF DeathNoticed
  <2>. QED
    BY <1>4, <2>1, <2>2, SwitchKinds DEF Halved, SameVoice, Joins, EarUnknown
<1>5. ASSUME NEW l \in Labels, Signal(l) PROVE DeathNoticed'
  BY <1>1, <1>4, <1>5 DEF Signal, Workers
<1>6. ASSUME NEW l, CallTool(l) PROVE DeathNoticed'
  BY <1>4, <1>6 DEF CallTool, Workers
<1>. QED
  BY <1>1, <1>2, <1>3, <1>5, <1>6 DEF Next, Generate, GeneratorEnds, EndSwitch, Listen, CooldownEnds,
     vars, ears

(* The call ends only in HearClosed. *)
LEMMA EndStep ==
  TypeInv /\ [Next]_vars => (ended' /\ ~ended /\ kind[ear] # "azure" => ear \notin up)
<1>. SUFFICES ASSUME TypeInv, [Next]_vars, ended', ~ended, kind[ear] # "azure" PROVE ear \notin up
  OBVIOUS
<1>1. CASE HearClosed
  BY <1>1 DEF HearClosed, Alive, TypeInv, TypeOK
<1>2. ASSUME NEW w \in Workers, NEW l, BeginSwitch(w, l) PROVE ended' = ended
  BY <1>2, SwitchTypes
<1>. QED
  BY <1>1, <1>2 DEF Next, Drop, Signal, CallTool, Generate, GeneratorEnds, EndSwitch, Listen,
     CooldownEnds, vars, ears, Workers

(* The call of an active transcriber that has closed ends, or its packet is    *)
(* still to be read; and the end of a standby transcriber ends no call, in any *)
(* order of switches and closings (_listen_transcriber, TranscriberPool).      *)
THEOREM DeathIsTheEnd == Spec => DeathEndsCall
<1>1. Init => Labelled
  BY DEF Init, Labelled, Idle
<1>2. /\ TypeInv /\ Labelled /\ DeathNoticed /\ [Next]_vars
      => TypeInv' /\ Labelled' /\ DeathNoticed'
  BY TypeStep, DeathStep
<1>3. TypeInv /\ [Next]_vars => [ended' /\ ~ended /\ kind[ear] # "azure" => ear \notin up]_vars
  BY EndStep
<1>. QED
  BY <1>1, <1>2, <1>3, TypeInit, DeathInit, PTL DEF Spec, DeathEndsCall, StandbyMayClose

-----------------------------------------------------------------------------
(* Only one worker switches, and it has the label the ear has already. *)
OneWorker == \A v, w \in Workers : worker[v] # Idle /\ worker[w] # Idle => v = w
Agreed ==
  ghost = {} =>
    /\ voice = language /\ OneWorker
    /\ AllIdle => ear = voice
    /\ \A w \in Workers : worker[w] # Idle => worker[w].label = ear

LEMMA Overlaps ==
  ASSUME NEW w \in Workers, "overlap" \notin Overlap(w)
  PROVE  \A x \in Workers \ {w} : worker[x] = Idle
  BY DEF Overlap

LEMMA AgreedStep == TypeInv /\ Labelled /\ Agreed /\ [Next]_vars => Agreed'
<1>. SUFFICES ASSUME TypeInv, Labelled, Agreed, [Next]_vars, ghost' = {} PROVE Agreed'
  BY DEF Agreed
<1>. DEFINE Frame == UNCHANGED <<ear, voice, language, worker, ghost>>
<1>1. CASE Frame
  BY <1>1 DEF Agreed, OneWorker, AllIdle
<1>2. ASSUME NEW w \in Workers, NEW l, BeginSwitch(w, l) PROVE Agreed'
  <2>1. CASE Refused(l)
    BY <1>1, <2>1 DEF Refused, ears, voices
  <2>2. CASE Halved(l)
    BY <2>2 DEF Halved
  <2>3. ASSUME ~EarUnknown(l), ghost' = ghost \union Overlap(w)
        PROVE  /\ ghost = {} /\ Agreed /\ l \in Labels
               /\ \A x \in Workers : worker[x] = Idle
    BY <1>2, <2>3, SwitchKinds, Overlaps DEF EarUnknown
  <2>4. CASE SameVoice(w, l)
    <3>1. ear' = l /\ voice' = l /\ language' = l /\ worker' = worker
      BY <2>3, <2>4, EarTypes DEF SameVoice, voices
    <3>. QED
      BY <2>3, <2>4, <3>1 DEF SameVoice, Agreed, AllIdle, OneWorker
  <2>5. CASE Joins(w, l)
    <3>1. ear' = l /\ voice' = voice /\ language' = language
      BY <2>3, <2>5, EarTypes DEF Joins
    <3>2. /\ worker'[w] = [state |-> "joining", label |-> l, waits |-> current]
          /\ \A x \in Workers \ {w} : worker'[x] = Idle
      BY <2>3, <2>5 DEF Joins, TypeInv, TypeOK
    <3>3. worker'[w] # Idle /\ worker'[w].label = l
      BY <3>2 DEF Idle
    <3>. QED
      BY <2>3, <2>5, <3>1, <3>2, <3>3 DEF Joins, Agreed, AllIdle, OneWorker
  <2>. QED
    BY <1>2, <2>1, <2>2, <2>4, <2>5, SwitchKinds
<1>3. ASSUME NEW l \in Labels, Signal(l) PROVE Agreed'
  BY <1>1, <1>2, <1>3 DEF Signal, Workers, ears, voices
<1>4. ASSUME NEW l, CallTool(l) PROVE Agreed'
  BY <1>2, <1>4 DEF CallTool, Workers
<1>5. ASSUME NEW w \in Workers, EndSwitch(w) PROVE Agreed'
  <2>1. /\ voice' = worker[w].label /\ language' = worker[w].label /\ ear' = ear
        /\ ghost = {} /\ worker[w] # Idle
        /\ worker'[w] = Idle /\ \A x \in Workers \ {w} : worker'[x] = worker[x]
    BY <1>5 DEF EndSwitch, NewVoice, ears, Idle, TypeInv, TypeOK
  <2>2. worker[w].label = ear /\ OneWorker
    BY <2>1 DEF Agreed
  <2>3. \A x \in Workers : worker'[x] = Idle
    BY <2>1, <2>2 DEF OneWorker
  <2>. QED
    BY <2>1, <2>2, <2>3 DEF Agreed, AllIdle, OneWorker
<1>. QED
  BY <1>1, <1>3, <1>4, <1>5 DEF Next, Drop, Generate, GeneratorEnds, Listen, HearClosed,
     CooldownEnds, vars, ears, voices

(* While no switch is under way, the transcriber, the synthesizer and the      *)
(* prompt are of one language, whoever asked for the switches, unless two of   *)
(* them overlapped or one was refused half-way (switch_language).              *)
THEOREM PoolsStayAgreed == Spec => []PoolsAgree
<1>1. Init => Labelled /\ Agreed
  BY DEF Init, Labelled, Agreed, OneWorker, AllIdle, Idle
<1>2. TypeInv /\ Labelled /\ Agreed /\ [Next]_vars => TypeInv' /\ Labelled' /\ Agreed'
  BY TypeStep, AgreedStep
<1>3. Agreed => PoolsAgree
  BY DEF Agreed, PoolsAgree
<1>. QED
  BY <1>1, <1>2, <1>3, TypeInit, PTL DEF Spec

-----------------------------------------------------------------------------
(* Without overlap, the worker that switches waits for the generator of the    *)
(* voice, which it has cancelled.                                              *)
Joined ==
  \A w \in Workers : worker[w] # Idle =>
    worker[w].waits = current /\ (current \in DOMAIN gens => current \in cancelled)
VoiceInv == "overlap" \notin ghost => OneWorker /\ Joined /\ OneVoice /\ NoOldVoice

LEMMA VoiceStep == TypeInv /\ Labelled /\ VoiceInv /\ [Next]_vars => VoiceInv'
<1>. SUFFICES ASSUME TypeInv, Labelled, VoiceInv, [Next]_vars, "overlap" \notin ghost'
              PROVE  (OneWorker /\ Joined /\ OneVoice /\ NoOldVoice)'
  BY DEF VoiceInv
<1>. DEFINE Goal == (OneWorker /\ Joined /\ OneVoice /\ NoOldVoice)'
<1>1. CASE UNCHANGED <<voice, gens, current, cancelled, out, worker, ghost>>
  BY <1>1 DEF VoiceInv, OneWorker, Joined, OneVoice, NoOldVoice
<1>2. ASSUME NEW w \in Workers, NEW l, BeginSwitch(w, l) PROVE Goal
  <2>1. "overlap" \notin ghost
    BY <1>2, SwitchKinds DEF Refused, Halved, SameVoice, Joins
  <2>2. CASE UNCHANGED <<voices, worker>>
    BY <2>1, <2>2 DEF voices, VoiceInv, OneWorker, Joined, OneVoice, NoOldVoice
  <2>3. CASE Joins(w, l)
    <3>1. \A x \in Workers : worker[x] = Idle
      BY <1>2, <2>3, SwitchKinds, Overlaps DEF Joins
    <3>2. /\ worker'[w] = [state |-> "joining", label |-> l, waits |-> current]
          /\ \A x \in Workers \ {w} : worker'[x] = Idle
      BY <2>3, <3>1 DEF Joins, TypeInv, TypeOK
    <3>3. OneWorker' /\ Joined'
      BY <2>3, <3>2 DEF Joins, OneWorker, Joined
    <3>4. OneVoice' /\ NoOldVoice'
      BY <2>1, <2>3 DEF Joins, VoiceInv, OneVoice, NoOldVoice
    <3>. QED
      BY <3>3, <3>4
  <2>. QED
    BY <1>2, <2>2, <2>3, SwitchKinds DEF Refused, Halved, SameVoice
<1>3. ASSUME NEW l \in Labels, Signal(l) PROVE Goal
  BY <1>1, <1>2, <1>3 DEF Signal, Workers, ears, voices
<1>4. ASSUME NEW l, CallTool(l) PROVE Goal
  BY <1>2, <1>4 DEF CallTool, Workers
<1>5. ASSUME NEW i \in DOMAIN gens, Generate(i) PROVE Goal
  <2>1. /\ "overlap" \notin ghost /\ gens[i] = voice /\ out' = Append(out, voice)
        /\ UNCHANGED <<voice, gens, current, cancelled, worker>>
    BY <1>5 DEF Generate, VoiceInv, OneVoice
  <2>2. OneWorker' /\ Joined' /\ OneVoice'
    BY <2>1 DEF VoiceInv, OneWorker, Joined, OneVoice
  <2>3. ASSUME NEW k \in DOMAIN out', \A j \in k..Len(out') : out'[j] # Sentinel
        PROVE  out'[k] = voice
    <3>1. /\ out \in Seq(VoiceLabels \union {Sentinel}) /\ Len(out') = Len(out) + 1
          /\ out'[Len(out) + 1] = voice /\ \A j \in 1..Len(out) : out'[j] = out[j]
      BY <2>1 DEF TypeInv, TypeOK
    <3>2. CASE k = Len(out) + 1
      BY <3>1, <3>2
    <3>3. CASE k \in 1..Len(out)
      <4>1. \A j \in k..Len(out) : out[j] # Sentinel
        BY <2>3, <3>1, <3>3
      <4>. QED
        BY <2>1, <3>1, <3>3, <4>1 DEF VoiceInv, NoOldVoice
    <3>. QED
      BY <3>1, <3>2, <3>3, <2>1
  <2>. QED
    BY <2>1, <2>2, <2>3 DEF NoOldVoice
<1>6. ASSUME NEW i \in DOMAIN gens, GeneratorEnds(i) PROVE Goal
  <2>1. /\ "overlap" \notin ghost
        /\ DOMAIN gens' = DOMAIN gens \ {i} /\ \A j \in DOMAIN gens' : gens'[j] = gens[j]
        /\ cancelled' = cancelled \ {i} /\ i \in cancelled
        /\ UNCHANGED <<voice, current, out, worker>>
    BY <1>6 DEF GeneratorEnds
  <2>. QED
    BY <2>1 DEF VoiceInv, OneWorker, Joined, OneVoice, NoOldVoice
<1>7. CASE Listen
  <2>1. /\ "overlap" \notin ghost /\ out \in Seq(VoiceLabels \union {Sentinel}) /\ out # <<>>
        /\ out' = Tail(out) /\ UNCHANGED <<voice, gens, current, cancelled, worker>>
    BY <1>7 DEF Listen, TypeInv, TypeOK
  <2>2. OneWorker' /\ Joined' /\ OneVoice'
    BY <2>1 DEF VoiceInv, OneWorker, Joined, OneVoice
  <2>3. ASSUME NEW k \in DOMAIN out', \A j \in k..Len(out') : out'[j] # Sentinel
        PROVE  out'[k] = voice
    <3>1. Len(out') = Len(out) - 1 /\ \A j \in 1..Len(out') : out'[j] = out[j + 1]
      BY <2>1
    <3>2. k \in 1..Len(out') /\ k + 1 \in 1..Len(out)
      BY <2>1, <3>1
    <3>3. \A j \in (k + 1)..Len(out) : out[j] # Sentinel
      <4>. SUFFICES ASSUME NEW j \in (k + 1)..Len(out) PROVE out[j] # Sentinel
        OBVIOUS
      <4>1. j - 1 \in k..Len(out') /\ j - 1 \in 1..Len(out') /\ (j - 1) + 1 = j
        BY <2>1, <3>1, <3>2
      <4>. QED
        BY <2>3, <3>1, <4>1
    <3>4. out[k + 1] = voice
      BY <2>1, <3>2, <3>3 DEF VoiceInv, NoOldVoice
    <3>. QED
      BY <3>1, <3>2, <3>4
  <2>. QED
    BY <2>1, <2>2, <2>3 DEF NoOldVoice
<1>8. ASSUME NEW w \in Workers, EndSwitch(w) PROVE Goal
  <2>. DEFINE l == worker[w].label
  <2>1. /\ l \in VoiceLabels /\ NewVoice(l) /\ worker[w] # Idle /\ worker[w].waits \notin DOMAIN gens
        /\ worker'[w] = Idle /\ \A x \in Workers \ {w} : worker'[x] = worker[x]
        /\ "overlap" \notin ghost
    BY <1>8 DEF EndSwitch, Idle, Labelled, TypeInv, TypeOK
  <2>2. OneWorker /\ worker[w].waits = current /\ OneVoice /\ current \notin DOMAIN gens
    BY <2>1 DEF VoiceInv, Joined
  <2>3. \A x \in Workers : worker'[x] = Idle
    BY <2>1, <2>2 DEF OneWorker
  <2>4. OneWorker' /\ Joined'
    BY <2>3 DEF OneWorker, Joined
  <2>5. OneVoice'
    <3>1. /\ voice' = l /\ DOMAIN gens' = DOMAIN gens \union {current'} /\ gens'[current'] = l
          /\ \A i \in DOMAIN gens : gens'[i] = gens[i]
          /\ cancelled' = cancelled
      BY <2>1, NewVoiceTypes
    <3>2. \A i \in DOMAIN gens : i \in cancelled
      BY <2>1, <2>2 DEF OneVoice
    <3>. QED
      BY <3>1, <3>2 DEF OneVoice
  <2>6. NoOldVoice'
    <3>1. /\ out \in Seq(VoiceLabels \union {Sentinel}) /\ out' = Append(out, Sentinel)
          /\ Len(out') = Len(out) + 1 /\ out'[Len(out')] = Sentinel /\ DOMAIN out' = 1..Len(out')
      BY <2>1 DEF NewVoice, TypeInv, TypeOK
    <3>2. \A k \in DOMAIN out' : Len(out') \in k..Len(out')
      BY <3>1
    <3>. QED
      BY <3>1, <3>2 DEF NoOldVoice
  <2>. QED
    BY <2>4, <2>5, <2>6
<1>. QED
  BY <1>1, <1>3, <1>4, <1>5, <1>6, <1>7, <1>8 DEF Next, Drop, HearClosed, CooldownEnds, vars,
     ears, voices

(* The caller hears one voice at a time, and after a switch the new one's:     *)
(* the old generator is cancelled and joined before the new one starts, and    *)
(* the sentinel parts their audio (SynthesizerPool.switch, generate), unless   *)
(* two switches overlapped.                                                    *)
THEOREM OneVoiceSpeaks == Spec => []VoiceIsActive
<1>1. Init => Labelled /\ VoiceInv
  BY DEF Init, Labelled, VoiceInv, OneWorker, Joined, OneVoice, NoOldVoice, Idle
<1>2. TypeInv /\ Labelled /\ VoiceInv /\ [Next]_vars => TypeInv' /\ Labelled' /\ VoiceInv'
  BY TypeStep, VoiceStep
<1>3. VoiceInv => VoiceIsActive
  BY DEF VoiceInv, VoiceIsActive, OneVoice, NoOldVoice
<1>. QED
  BY <1>1, <1>2, <1>3, TypeInit, PTL DEF Spec
=============================================================================
