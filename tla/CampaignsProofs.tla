-------------------------- MODULE CampaignsProofs --------------------------
(***************************************************************************)
(* Theorems about Campaigns, for every value of its constants.             *)
(***************************************************************************)
EXTENDS Campaigns, TLAPS

LaunchRecord ==
    [pc : Launching, id : CampaignIds, rec : Record, launch : 1 .. MaxLaunches,
     k : 1 .. MaxAudience]
InAudience(q) == q.pc \in Launching => q.k <= Len(q.rec.contacts)
ReqType ==
    /\ req \in [Requests -> Request]
    /\ \A r \in Requests : InAudience(req[r])

-----------------------------------------------------------------------------
USE LaunchesAssumption, IdsAssumption, FaultsAssumption

(* An audience is a sequence of contacts of its length.                    *)
LEMMA AudienceSeq ==
    ASSUME NEW c \in Audiences
    PROVE  /\ c \in Seq(Contacts) /\ Len(c) \in 0 .. MaxAudience /\ DOMAIN c = 1 .. Len(c)
           /\ \A k \in 1 .. Len(c) : c[k] \in Contacts
<1>1. PICK n \in 0 .. MaxAudience : c \in [1 .. n -> Contacts]
  BY DEF Audiences
<1>2. n \in Nat
  OBVIOUS
<1>3. c \in Seq(Contacts) /\ Len(c) = n
  BY <1>1, <1>2
<1>. QED
  BY <1>1, <1>2, <1>3

(* The record of a request is of the kind its stage says.                  *)
LEMMA RequestKinds ==
    ASSUME NEW q \in Request
    PROVE  /\ q.pc \in Launching => q \in LaunchRecord
           /\ q.pc = "save" => q.id \in Entities
           /\ q.pc = "edit" => q.id \in CampaignIds /\ q.rec \in Record
           /\ q.pc \in Launching \cup {"idle", "save", "edit"}
  BY DEF Request, LaunchRecord, Launching, Idle

(* The requests keep their type when one of them gets a typed record.      *)
LEMMA BecomesTyped ==
    ASSUME ReqType, NEW r \in Requests, NEW q \in Request, InAudience(q), Becomes(r, q)
    PROVE  ReqType'
  BY DEF ReqType, Becomes, InAudience

(* Ending a request gives it the idle record.                              *)
LEMMA EndsTyped ==
    ASSUME ReqType, NEW r \in Requests, Becomes(r, Idle)
    PROVE  ReqType'
<1>1. Idle \in Request /\ InAudience(Idle)
  BY DEF Request, Idle, InAudience, Launching
<1>. QED
  BY <1>1, BecomesTyped

(* Going to another stage or place leaves the rest of the record, and the  *)
(* other requests, as they are.                                            *)
LEMMA GoesTyped ==
    ASSUME ReqType, NEW r \in Requests, req[r].pc \in Launching,
           NEW p \in Launching, NEW k \in 1 .. Len(req[r].rec.contacts), Goes(r, p, k)
    PROVE  /\ ReqType'
           /\ req'[r].pc = p /\ req'[r].k = k /\ req'[r].id = req[r].id
           /\ req'[r].rec = req[r].rec /\ req'[r].launch = req[r].launch
           /\ \A q \in Requests \ {r} : req'[q] = req[q]
<1>. DEFINE q == [req[r] EXCEPT !.pc = p, !.k = k]
<1>1. req[r] \in LaunchRecord
  BY RequestKinds DEF ReqType
<1>2. req[r].rec.contacts \in Audiences
  BY <1>1 DEF LaunchRecord, Record
<1>3. Len(req[r].rec.contacts) \in 0 .. MaxAudience
  BY <1>2, AudienceSeq
<1>4. k \in 1 .. MaxAudience /\ k <= Len(req[r].rec.contacts)
  BY <1>3
<1>5. /\ q \in LaunchRecord /\ q.pc = p /\ q.k = k
      /\ q.rec = req[r].rec /\ q.id = req[r].id /\ q.launch = req[r].launch
  BY <1>1, <1>4 DEF LaunchRecord
<1>6. q \in Request /\ InAudience(q)
  BY <1>4, <1>5 DEF Request, LaunchRecord, InAudience
<1>7. req' = [req EXCEPT ![r] = q]
  BY <1>1 DEF Goes, ReqType, LaunchRecord
<1>8. req'[r] = q /\ \A x \in Requests \ {r} : req'[x] = req[x]
  BY <1>7 DEF ReqType
<1>9. ReqType'
  BY <1>6, <1>7, BecomesTyped DEF Becomes
<1>. QED
  BY <1>5, <1>8, <1>9

(* A launching request is at a place of its audience, and its call is one. *)
LEMMA PlaceTyped ==
    ASSUME ReqType, NEW r \in Requests, req[r].pc \in Launching
    PROVE  /\ req[r] \in LaunchRecord
           /\ Len(req[r].rec.contacts) \in Nat
           /\ req[r].k \in 1 .. Len(req[r].rec.contacts)
           /\ Listed(r) \in Contacts
           /\ CallOf(r) \in Call
<1>1. req[r] \in LaunchRecord
  BY RequestKinds DEF ReqType
<1>2. /\ req[r].rec.contacts \in Audiences /\ req[r].k \in 1 .. MaxAudience
      /\ req[r].launch \in 1 .. MaxLaunches /\ req[r].id \in CampaignIds
  BY <1>1 DEF LaunchRecord, Record
<1>3. req[r].k <= Len(req[r].rec.contacts)
  BY DEF ReqType, InAudience
<1>4. Len(req[r].rec.contacts) \in Nat /\ req[r].k \in 1 .. Len(req[r].rec.contacts)
  BY <1>2, <1>3, AudienceSeq
<1>5. Listed(r) \in Contacts
  BY <1>2, <1>4, AudienceSeq DEF Listed
<1>6. CallOf(r) \in Call
  BY <1>2, <1>5 DEF CallOf, Call
<1>. QED
  BY <1>1, <1>4, <1>5, <1>6

-----------------------------------------------------------------------------
(* What every variable but the requests keeps.                             *)
RecordsType ==
    /\ entity \in [Entities -> {"new", "stored", "deleted"}]
    /\ campaign \in [CampaignIds -> Record]
    /\ calls \in SUBSET Call
    /\ sessions \in SUBSET Call
    /\ audit \in SUBSET Event
    /\ launches \in 0 .. MaxLaunches
    /\ missing \in [Requests -> SUBSET Entities]

(* The type invariant in those two parts.                                  *)
LEMMA TypeParts == TypeOK <=> RecordsType /\ ReqType
  BY DEF TypeOK, RecordsType, ReqType, InAudience

(* A payload and a status make a campaign record.                          *)
LEMMA WithStatusTyped ==
    ASSUME NEW p \in Payload, NEW s \in Status
    PROVE  WithStatus(p, s) \in Record
  BY DEF Payload, Record, WithStatus

(* A request for a launch starts at the first place of an audience.        *)
LEMMA LaunchTyped ==
    ASSUME TypeOK, NEW r \in Requests, NEW m \in CampaignIds, Launch(r, m)
    PROVE  LET q == [pc |-> "agent", id |-> m, rec |-> campaign[m],
                     launch |-> launches + 1, k |-> 1]
           IN  /\ q \in Request /\ InAudience(q)
               /\ Becomes(r, q)
               /\ launches' = launches + 1 /\ launches' \in 1 .. MaxLaunches
<1>1. launches < MaxLaunches /\ launches' = launches + 1 /\ launches \in 0 .. MaxLaunches
  BY DEF TypeOK, Launch
<1>2. launches + 1 \in 1 .. MaxLaunches
  BY <1>1
<1>3. campaign[m] \in Record /\ campaign[m].contacts \in Audiences
  BY DEF TypeOK, Record
<1>4. campaign[m].contacts \in Seq(Contacts) /\ campaign[m].contacts # <<>>
      /\ Len(campaign[m].contacts) \in 0 .. MaxAudience
  BY <1>3, AudienceSeq DEF Launch
<1>5. Len(campaign[m].contacts) # 0
  BY <1>4
<1>6. 1 \in 1 .. MaxAudience /\ 1 <= Len(campaign[m].contacts)
  BY <1>4, <1>5
<1>. DEFINE q == [pc |-> "agent", id |-> m, rec |-> campaign[m], launch |-> launches + 1, k |-> 1]
<1>7. q \in [pc : Launching, id : CampaignIds, rec : Record, launch : 1 .. MaxLaunches,
              k : 1 .. MaxAudience]
  BY <1>2, <1>3, <1>6 DEF Launching
<1>8. q \in Request /\ InAudience(q)
  BY <1>6, <1>7 DEF Request, InAudience
<1>9. Becomes(r, q)
  BY <1>1 DEF Launch
<1>. QED
  BY <1>1, <1>2, <1>8, <1>9

(* Every step keeps the types.                                             *)
LEMMA TypeStep == TypeOK /\ [Next]_vars => TypeOK'
<1>. SUFFICES ASSUME TypeOK, [Next]_vars PROVE RecordsType' /\ ReqType'
  BY TypeParts DEF TypeOK, RecordsType, ReqType, InAudience
<1>0. RecordsType /\ ReqType
  BY TypeParts
<1>1. ASSUME NEW r \in Requests, NEW x \in Entities, Create(r, x) PROVE RecordsType' /\ ReqType'
  BY <1>0, <1>1 DEF Create, Store, RecordsType, ReqType, InAudience
<1>2. ASSUME NEW r \in Requests, NEW x \in Entities, Update(r, x) PROVE RecordsType' /\ ReqType'
  <2>. DEFINE q == [pc |-> "save", id |-> x]
  <2>1. q \in Request /\ InAudience(q) /\ Becomes(r, q)
    BY <1>2 DEF Request, InAudience, Launching, Update
  <2>2. ReqType'
    BY <1>0, <2>1, BecomesTyped
  <2>. QED
    BY <1>0, <1>2, <2>2 DEF Update, RecordsType
<1>3. ASSUME NEW r \in Requests, NEW x \in Entities, Delete(r, x) PROVE RecordsType' /\ ReqType'
  BY <1>0, <1>3 DEF Delete, RecordsType, ReqType, InAudience
<1>4. ASSUME NEW r \in Requests, Save(r) PROVE RecordsType' /\ ReqType'
  <2>1. req[r].id \in Entities
    BY <1>0, <1>4, RequestKinds DEF ReqType, Save
  <2>2. ReqType'
    BY <1>0, <1>4, EndsTyped DEF Save
  <2>. QED
    BY <1>0, <1>4, <2>1, <2>2 DEF Save, Store, RecordsType
<1>5. ASSUME NEW r \in Requests, NEW m \in CampaignIds, NEW p \in Payload, CreateCampaign(r, m, p)
      PROVE  RecordsType' /\ ReqType'
  <2>1. WithStatus(p, "draft") \in Record
    BY WithStatusTyped DEF Status
  <2>. QED
    BY <1>0, <1>5, <2>1 DEF CreateCampaign, RecordsType, ReqType, InAudience
<1>6. ASSUME NEW r \in Requests, NEW m \in CampaignIds, NEW p \in Payload, UpdateCampaign(r, m, p)
      PROVE  RecordsType' /\ ReqType'
  <2>1. campaign[m].status \in Status
    BY <1>0 DEF RecordsType, Record
  <2>. DEFINE q == [pc |-> "edit", id |-> m, rec |-> WithStatus(p, campaign[m].status)]
  <2>2. q \in Request /\ InAudience(q) /\ Becomes(r, q)
    BY <1>6, <2>1, WithStatusTyped DEF Request, InAudience, Launching, UpdateCampaign
  <2>3. ReqType'
    BY <1>0, <2>2, BecomesTyped
  <2>. QED
    BY <1>0, <1>6, <2>3 DEF UpdateCampaign, RecordsType
<1>7. ASSUME NEW r \in Requests, SaveCampaign(r) PROVE RecordsType' /\ ReqType'
  <2>1. req[r].id \in CampaignIds /\ req[r].rec \in Record
    BY <1>0, <1>7, RequestKinds DEF ReqType, SaveCampaign
  <2>2. ReqType'
    BY <1>0, <1>7, EndsTyped DEF SaveCampaign
  <2>. QED
    BY <1>0, <1>7, <2>1, <2>2 DEF SaveCampaign, RecordsType
<1>8. ASSUME NEW r \in Requests, NEW m \in CampaignIds, Launch(r, m) PROVE RecordsType' /\ ReqType'
  <2>. DEFINE q == [pc |-> "agent", id |-> m, rec |-> campaign[m], launch |-> launches + 1, k |-> 1]
  <2>0. q \in Request /\ InAudience(q) /\ Becomes(r, q) /\ launches' \in 1 .. MaxLaunches
    BY <1>8, LaunchTyped
  <2>1. launches' \in 0 .. MaxLaunches /\ ReqType'
    <3>. HIDE DEF q
    <3>. QED
      BY <1>0, <2>0, BecomesTyped
  <2>2. missing' \in [Requests -> SUBSET Entities]
    BY <1>0, <1>8 DEF Launch, RecordsType
  <2>. QED
    BY <1>0, <1>8, <2>1, <2>2 DEF Launch, RecordsType
<1>9. ASSUME NEW r \in Requests, CheckAgent(r) \/ CheckContact(r) PROVE RecordsType' /\ ReqType'
  <2>0. req[r].pc \in Launching
    BY <1>9 DEF CheckAgent, CheckContact, Launching
  <2>1. Len(req[r].rec.contacts) \in Nat /\ req[r].k \in 1 .. Len(req[r].rec.contacts)
    BY <1>0, <2>0, PlaceTyped
  <2>a. 1 \in 1 .. Len(req[r].rec.contacts) /\ "contact" \in Launching /\ "dial" \in Launching
    BY <2>1 DEF Launching
  <2>2. CASE Ends(r)
    BY <1>0, <1>9, <2>2, EndsTyped DEF Ends, CheckAgent, CheckContact, RecordsType
  <2>3. CASE Goes(r, "contact", 1) /\ UNCHANGED missing
    <3>1. ReqType'
      BY <1>0, <2>0, <2>a, <2>3, GoesTyped
    <3>. QED
      BY <1>0, <1>9, <2>3, <3>1 DEF CheckAgent, CheckContact, RecordsType
  <2>4. CASE Goes(r, "dial", 1) /\ UNCHANGED missing
    <3>1. ReqType'
      BY <1>0, <2>0, <2>a, <2>4, GoesTyped
    <3>. QED
      BY <1>0, <1>9, <2>4, <3>1 DEF CheckAgent, CheckContact, RecordsType
  <2>5. CASE Goes(r, "contact", req[r].k + 1) /\ ~IsLast(r) /\ UNCHANGED missing
    <3>1. req[r].k + 1 \in 1 .. Len(req[r].rec.contacts)
      BY <2>1, <2>5 DEF IsLast
    <3>2. ReqType'
      BY <1>0, <2>0, <2>5, <3>1, GoesTyped DEF Launching
    <3>. QED
      BY <1>0, <1>9, <2>5, <3>2 DEF CheckAgent, CheckContact, RecordsType
  <2>. QED
    BY <1>9, <2>2, <2>3, <2>4, <2>5 DEF CheckAgent, CheckContact
<1>10. ASSUME NEW r \in Requests,
              Dial(r) \/ RecordSession(r) \/ NoteSession(r) \/ FinishLaunch(r) \/ AuditLaunch(r)
       PROVE  RecordsType' /\ ReqType'
  <2>0. req[r].pc \in Launching
    BY <1>10 DEF Dial, RecordSession, NoteSession, FinishLaunch, AuditLaunch, Launching
  <2>1. /\ req[r] \in LaunchRecord /\ CallOf(r) \in Call
        /\ Len(req[r].rec.contacts) \in Nat /\ req[r].k \in 1 .. Len(req[r].rec.contacts)
    BY <1>0, <2>0, PlaceTyped
  <2>2. CASE Dial(r)
    BY <1>0, <2>0, <2>1, <2>2, GoesTyped DEF Dial, Launching, RecordsType
  <2>3. CASE RecordSession(r)
    BY <1>0, <2>0, <2>1, <2>3, GoesTyped DEF RecordSession, Recorded, Launching, RecordsType
  <2>4. CASE NoteSession(r)
    <3>1. audit' \in SUBSET Event
      BY <1>0, <2>1, <2>4 DEF NoteSession, RecordsType, Event
    <3>2. "finish" \in Launching /\ "dial" \in Launching
      BY DEF Launching
    <3>3. CASE Goes(r, "finish", req[r].k)
      BY <1>0, <2>0, <2>1, <2>4, <3>1, <3>2, <3>3, GoesTyped DEF NoteSession, RecordsType
    <3>4. CASE ~IsLast(r) /\ Goes(r, "dial", req[r].k + 1)
      <4>1. req[r].k + 1 \in 1 .. Len(req[r].rec.contacts)
        BY <2>1, <3>4 DEF IsLast
      <4>2. ReqType'
        BY <1>0, <2>0, <3>2, <3>4, <4>1, GoesTyped
      <4>. QED
        BY <1>0, <2>4, <3>1, <4>2 DEF NoteSession, RecordsType
    <3>. QED
      BY <2>4, <3>3, <3>4 DEF NoteSession
  <2>5. CASE FinishLaunch(r)
    <3>1. [req[r].rec EXCEPT !.status = "launched"] \in Record /\ req[r].id \in CampaignIds
      BY <2>1 DEF LaunchRecord, Record, Status
    <3>2. ReqType'
      BY <1>0, <2>0, <2>1, <2>5, GoesTyped DEF FinishLaunch, Launching
    <3>. QED
      BY <1>0, <2>5, <3>1, <3>2 DEF FinishLaunch, RecordsType
  <2>6. CASE AuditLaunch(r)
    <3>1. Len(req[r].rec.contacts) \in 0 .. MaxAudience /\ req[r].launch \in 1 .. MaxLaunches
      BY <2>1, AudienceSeq DEF LaunchRecord, Record
    <3>2. audit' \in SUBSET Event
      BY <1>0, <2>6, <3>1 DEF AuditLaunch, RecordsType, Event
    <3>3. ReqType'
      BY <1>0, <2>6, EndsTyped DEF AuditLaunch, Ends
    <3>. QED
      BY <1>0, <2>6, <3>2, <3>3 DEF AuditLaunch, Ends, RecordsType
  <2>. QED
    BY <1>10, <2>2, <2>3, <2>4, <2>5, <2>6
<1>11. ASSUME NEW r \in Requests, Fail(r) PROVE RecordsType' /\ ReqType'
  BY <1>0, <1>11, EndsTyped DEF Fail, Ends, RecordsType
<1>12. CASE UNCHANGED vars
  BY <1>0, <1>12 DEF vars, RecordsType, ReqType, InAudience
<1>. QED
  BY <1>1, <1>2, <1>3, <1>4, <1>5, <1>6, <1>7, <1>8, <1>9, <1>10, <1>11, <1>12 DEF Next

(* Every variable of Campaigns keeps its type: in particular the loops of  *)
(* launch_campaign stay inside the audience that was read.                 *)
THEOREM TypeCorrect == Spec => []TypeOK
<1>1. Init => TypeOK
  <2>. SUFFICES ASSUME Init PROVE RecordsType /\ ReqType
    BY TypeParts
  <2>1. RecordsType
    BY DEF Init, RecordsType, Record
  <2>2. ReqType
    BY DEF Init, ReqType, Request, Idle, InAudience, Launching
  <2>. QED
    BY <2>1, <2>2
<1>. QED
  BY <1>1, TypeStep, PTL DEF Spec
-----------------------------------------------------------------------------
(* A launch has placed the calls of the first places of its audience, in   *)
(* their order, and has recorded all of them but the last one at most.     *)
Live(r) == req[r].pc \in Launching
CallAt(q, k) ==
    [launch |-> q.launch, k |-> k, campaign |-> q.id, contact |-> q.rec.contacts[k]]
Done(q) ==
    IF q.pc \in {"agent", "contact"} THEN 0
    ELSE IF q.pc \in {"dial", "record"} THEN q.k - 1 ELSE q.k
Dialled(q) == IF q.pc = "record" THEN q.k ELSE Done(q)
Progress(q) ==
    /\ \A c \in calls : c.launch = q.launch => c.k <= Dialled(q) /\ c = CallAt(q, c.k)
    /\ \A k \in 1 .. Done(q) : CallAt(q, k) \in sessions
    /\ \A s \in sessions : s.launch = q.launch => s.k <= Done(q)
    /\ q.pc = "record" => CallAt(q, q.k) \in calls
    /\ q.pc \in {"finish", "audit"} => q.k = Len(q.rec.contacts)

(* No two requests work on the same launch, and the calls of a launch      *)
(* stay as they are once its request has ended.                            *)
Numbered ==
    /\ sessions \subseteq calls
    /\ \A c \in calls : c.launch <= launches
    /\ \A r \in Requests : Live(r) => req[r].launch <= launches
    /\ \A q, r \in Requests : Live(q) /\ Live(r) /\ req[q].launch = req[r].launch => q = r
LaunchInv ==
    /\ Numbered
    /\ \A r \in Requests : Live(r) => Progress(req[r])
    /\ OneUnrecordedCall

(* A launch that has its audit record is over.                             *)
AuditInv ==
    /\ \A e \in audit : e.event = "campaign.launched" =>
            e.launch <= launches /\ \A r \in Requests : Live(r) => req[r].launch # e.launch
    /\ AuditCountsSessions

(* An edit that will write "launched" has read it.                         *)
HasSession(m) == \E s \in sessions : s.campaign = m
StatusInv ==
    /\ \A m \in CampaignIds : campaign[m].status = "launched" => HasSession(m)
    /\ \A r \in Requests :
            req[r].pc = "edit" /\ req[r].rec.status = "launched" => HasSession(req[r].id)

(* The places a launch has checked hold no contact that is missing since.  *)
Seen(q, k) == k \in 1 .. Len(q.rec.contacts) /\ (q.pc = "contact" => k < q.k)
GhostInv ==
    /\ \A r \in Requests : \A x \in missing[r] : entity[x] # "stored"
    /\ \A r \in Requests : Live(r) /\ req[r].pc # "agent" =>
            \A k \in 1 .. Len(req[r].rec.contacts) :
                Seen(req[r], k) => req[r].rec.contacts[k] \notin missing[r]

(* A step that leaves the calls and the launches alone, and may end        *)
(* requests, or start ones that are not launches.                          *)
Quiet ==
    /\ UNCHANGED <<calls, sessions, audit, launches>>
    /\ \A q \in Requests : Live(q)' => req'[q] = req[q]

(* A step that takes one launching request from a stage to another.        *)
Moves(r) ==
    /\ Live(r) /\ Live(r)'
    /\ req'[r].id = req[r].id /\ req'[r].rec = req[r].rec /\ req'[r].launch = req[r].launch
    /\ \A q \in Requests \ {r} : req'[q] = req[q]
    /\ launches' = launches

(* A request that ends, or becomes one that is no launch, is quiet.        *)
LEMMA BecomesQuiet ==
    ASSUME ReqType, NEW r \in Requests, NEW q, q.pc \notin Launching, Becomes(r, q),
           UNCHANGED <<calls, sessions, audit, launches>>
    PROVE  Quiet
  BY DEF Quiet, Becomes, Live, ReqType

(* These steps are quiet.                                                  *)
LEMMA QuietSteps ==
    ASSUME ReqType, NEW r \in Requests,
           \/ \E x \in Entities : Create(r, x) \/ Update(r, x) \/ Delete(r, x)
           \/ \E m \in CampaignIds, p \in Payload : CreateCampaign(r, m, p) \/ UpdateCampaign(r, m, p)
           \/ Save(r) \/ SaveCampaign(r) \/ Fail(r)
           \/ (CheckAgent(r) \/ CheckContact(r)) /\ Ends(r)
    PROVE  Quiet
<1>1. Idle.pc \notin Launching
  BY DEF Idle, Launching
<1>2. ASSUME NEW x \in Entities, Create(r, x) \/ Delete(r, x) PROVE Quiet
  BY <1>2 DEF Create, Delete, Quiet, Live
<1>3. ASSUME NEW x \in Entities, Update(r, x) PROVE Quiet
  <2>1. [pc |-> "save", id |-> x].pc \notin Launching
    BY DEF Launching
  <2>. QED
    BY <1>3, <2>1, BecomesQuiet DEF Update
<1>4. ASSUME NEW m \in CampaignIds, NEW p \in Payload, CreateCampaign(r, m, p) PROVE Quiet
  BY <1>4 DEF CreateCampaign, Quiet, Live
<1>5. ASSUME NEW m \in CampaignIds, NEW p \in Payload, UpdateCampaign(r, m, p) PROVE Quiet
  <2>1. [pc |-> "edit", id |-> m, rec |-> WithStatus(p, campaign[m].status)].pc \notin Launching
    BY DEF Launching
  <2>. QED
    BY <1>5, <2>1, BecomesQuiet DEF UpdateCampaign
<1>6. CASE Save(r) \/ SaveCampaign(r)
  BY <1>1, <1>6, BecomesQuiet DEF Save, SaveCampaign
<1>7. CASE Fail(r)
  BY <1>1, <1>7, BecomesQuiet DEF Fail, Ends
<1>8. CASE (CheckAgent(r) \/ CheckContact(r)) /\ Ends(r)
  BY <1>1, <1>8, BecomesQuiet DEF CheckAgent, CheckContact, Ends
<1>. QED
  BY <1>2, <1>3, <1>4, <1>5, <1>6, <1>7, <1>8

(* A request that goes to a stage moves.                                   *)
LEMMA GoesMoves ==
    ASSUME ReqType, NEW r \in Requests, Live(r), NEW p \in Launching,
           NEW k \in 1 .. Len(req[r].rec.contacts), Goes(r, p, k), launches' = launches
    PROVE  Moves(r) /\ req'[r].pc = p /\ req'[r].k = k
<1>1. /\ req'[r].pc = p /\ req'[r].k = k /\ req'[r].id = req[r].id
      /\ req'[r].rec = req[r].rec /\ req'[r].launch = req[r].launch
      /\ \A q \in Requests \ {r} : req'[q] = req[q]
  <2>1. req[r].pc \in Launching
    BY DEF Live
  <2>. QED
    BY <2>1, GoesTyped
<1>2. Live(r)'
  BY <1>1 DEF Live
<1>. QED
  BY <1>1, <1>2 DEF Moves

(* The checks of a launch, and its last write.                             *)
LEMMA CheckMoves ==
    ASSUME ReqType, NEW r \in Requests,
           \/ (CheckAgent(r) \/ CheckContact(r)) /\ ~Ends(r)
           \/ FinishLaunch(r)
    PROVE  /\ Moves(r) /\ UNCHANGED <<calls, sessions, audit>>
           /\ \/ req[r].pc \in {"agent", "contact"} /\ req'[r].pc = "contact"
              \/ req[r].pc = "contact" /\ req'[r].pc = "dial" /\ req'[r].k = 1
              \/ req[r].pc = "finish" /\ req'[r].pc = "audit" /\ req'[r].k = req[r].k
<1>0. Live(r)
  BY DEF Live, CheckAgent, CheckContact, FinishLaunch, Launching
<1>1. /\ Len(req[r].rec.contacts) \in Nat /\ req[r].k \in 1 .. Len(req[r].rec.contacts)
      /\ "contact" \in Launching /\ "dial" \in Launching /\ "audit" \in Launching
  BY <1>0, PlaceTyped DEF Live, Launching
<1>2. 1 \in 1 .. Len(req[r].rec.contacts)
  BY <1>1
<1>3. UNCHANGED <<calls, sessions, audit, launches>>
  BY DEF CheckAgent, CheckContact, FinishLaunch
<1>4. CASE req[r].pc \in {"agent", "contact"} /\ Goes(r, "contact", 1)
  BY <1>0, <1>1, <1>2, <1>3, <1>4, GoesMoves
<1>5. CASE req[r].pc = "contact" /\ Goes(r, "contact", req[r].k + 1) /\ ~IsLast(r)
  <2>1. req[r].k + 1 \in 1 .. Len(req[r].rec.contacts)
    BY <1>1, <1>5 DEF IsLast
  <2>. QED
    BY <1>0, <1>1, <1>3, <1>5, <2>1, GoesMoves
<1>6. CASE req[r].pc = "contact" /\ Goes(r, "dial", 1)
  BY <1>0, <1>1, <1>2, <1>3, <1>6, GoesMoves
<1>7. CASE req[r].pc = "finish" /\ Goes(r, "audit", req[r].k)
  BY <1>0, <1>1, <1>3, <1>7, GoesMoves
<1>. QED
  BY <1>4, <1>5, <1>6, <1>7 DEF CheckAgent, CheckContact, FinishLaunch

(* Placing, recording and noting a call.                                   *)
LEMMA CallMoves ==
    ASSUME ReqType, NEW r \in Requests, Dial(r) \/ RecordSession(r) \/ NoteSession(r)
    PROVE  /\ Moves(r)
           /\ \/ Dial(r) /\ req'[r].pc = "record" /\ req'[r].k = req[r].k
              \/ RecordSession(r) /\ req'[r].pc = "note" /\ req'[r].k = req[r].k
              \/ NoteSession(r) /\ IsLast(r) /\ req'[r].pc = "finish" /\ req'[r].k = req[r].k
              \/ NoteSession(r) /\ ~IsLast(r) /\ req'[r].pc = "dial" /\ req'[r].k = req[r].k + 1
<1>0. Live(r)
  BY DEF Live, Dial, RecordSession, NoteSession, Launching
<1>1. /\ Len(req[r].rec.contacts) \in Nat /\ req[r].k \in 1 .. Len(req[r].rec.contacts)
      /\ "record" \in Launching /\ "note" \in Launching
      /\ "finish" \in Launching /\ "dial" \in Launching
  BY <1>0, PlaceTyped DEF Live, Launching
<1>2. launches' = launches
  BY DEF Dial, RecordSession, NoteSession
<1>3. CASE Dial(r)
  BY <1>0, <1>1, <1>2, <1>3, GoesMoves DEF Dial
<1>4. CASE RecordSession(r)
  BY <1>0, <1>1, <1>2, <1>4, GoesMoves DEF RecordSession
<1>5. CASE NoteSession(r) /\ IsLast(r)
  <2>1. Goes(r, "finish", req[r].k) /\ req[r].k = Len(req[r].rec.contacts)
    BY <1>1, <1>5 DEF NoteSession, IsLast
  <2>2. Moves(r) /\ req'[r].pc = "finish" /\ req'[r].k = req[r].k
    BY <1>0, <1>1, <1>2, <2>1, GoesMoves
  <2>. QED
    BY <1>5, <2>1, <2>2
<1>6. CASE NoteSession(r) /\ ~IsLast(r)
  <2>1. Goes(r, "dial", req[r].k + 1) /\ req[r].k + 1 \in 1 .. Len(req[r].rec.contacts)
    BY <1>1, <1>6 DEF NoteSession, IsLast
  <2>. QED
    BY <1>0, <1>1, <1>2, <1>6, <2>1, GoesMoves
<1>. QED
  BY <1>3, <1>4, <1>5, <1>6
-----------------------------------------------------------------------------
(* A launch makes no progress in the steps of others.                      *)
LEMMA ProgressKept ==
    ASSUME NEW r \in Requests, req'[r] = req[r], Progress(req[r]),
           calls \subseteq calls', sessions \subseteq sessions',
           \A c \in calls' \ calls : c.launch # req[r].launch,
           \A s \in sessions' \ sessions : s.launch # req[r].launch
    PROVE  Progress(req[r])'
  BY DEF Progress, CallAt, Done, Dialled

(* Requests that end leave the calls of their launches behind.             *)
LEMMA EndedLaunch ==
    ASSUME LaunchInv, UNCHANGED <<calls, sessions, launches>>,
           \A q \in Requests : Live(q)' => Live(q) /\ req'[q] = req[q]
    PROVE  LaunchInv'
<1>1. Numbered'
  BY DEF LaunchInv, Numbered
<1>2. ASSUME NEW r \in Requests, Live(r)' PROVE Progress(req[r])'
  <2>1. req'[r] = req[r] /\ Progress(req[r])
    BY <1>2 DEF LaunchInv
  <2>. QED
    BY <2>1, ProgressKept
<1>3. OneUnrecordedCall'
  BY DEF LaunchInv, OneUnrecordedCall
<1>. QED
  BY <1>1, <1>2, <1>3 DEF LaunchInv

(* Quiet steps keep the invariant of the launches.                         *)
LEMMA QuietLaunch == LaunchInv /\ Quiet => LaunchInv'
<1>. SUFFICES ASSUME LaunchInv, Quiet PROVE LaunchInv'
  OBVIOUS
<1>1. \A q \in Requests : Live(q)' => Live(q) /\ req'[q] = req[q]
  BY DEF Quiet, Live
<1>. QED
  BY <1>1, EndedLaunch DEF Quiet

(* A launch that moves has to account for its own calls only.              *)
LEMMA MovesLaunch ==
    ASSUME LaunchInv, NEW r \in Requests, Moves(r), Progress(req[r])', OneUnrecordedCall',
           calls \subseteq calls', sessions \subseteq sessions', sessions' \subseteq calls',
           \A c \in calls' \ calls : c.launch = req[r].launch,
           \A s \in sessions' \ sessions : s.launch = req[r].launch
    PROVE  LaunchInv'
<1>1. /\ Live(r) /\ req'[r].launch = req[r].launch /\ launches' = launches
      /\ \A q \in Requests \ {r} : req'[q] = req[q] /\ (Live(q)' <=> Live(q))
  BY DEF Moves, Live
<1>2. Numbered'
  <2>1. \A c \in calls' : c.launch <= launches'
    BY <1>1 DEF LaunchInv, Numbered
  <2>2. \A q \in Requests : Live(q)' => Live(q) /\ req'[q].launch = req[q].launch
    BY <1>1
  <2>3. \A q \in Requests : Live(q)' => req'[q].launch <= launches'
    BY <1>1, <2>2 DEF LaunchInv, Numbered
  <2>4. \A p, q \in Requests :
            Live(p)' /\ Live(q)' /\ req'[p].launch = req'[q].launch => p = q
    BY <2>2 DEF LaunchInv, Numbered
  <2>. QED
    BY <2>1, <2>3, <2>4 DEF Numbered
<1>3. ASSUME NEW q \in Requests, Live(q)', q # r PROVE Progress(req[q])'
  <2>1. req'[q] = req[q] /\ Live(q)
    BY <1>1, <1>3
  <2>2. Progress(req[q]) /\ req[q].launch # req[r].launch
    BY <1>1, <1>3, <2>1 DEF LaunchInv, Numbered
  <2>. QED
    BY <2>1, <2>2, ProgressKept
<1>. QED
  BY <1>2, <1>3 DEF LaunchInv

(* Every step keeps the invariant of the launches.                         *)
LEMMA LaunchInvStep == TypeOK /\ LaunchInv /\ [Next]_vars => LaunchInv'
<1>. SUFFICES ASSUME TypeOK, LaunchInv, [Next]_vars PROVE LaunchInv'
  OBVIOUS
<1>0. ReqType
  BY TypeParts
<1>1. ASSUME Quiet PROVE LaunchInv'
  BY <1>1, QuietLaunch
<1>2. ASSUME NEW r \in Requests, NEW m \in CampaignIds, Launch(r, m) PROVE LaunchInv'
  <2>. DEFINE q == [pc |-> "agent", id |-> m, rec |-> campaign[m], launch |-> launches + 1, k |-> 1]
  <2>1. /\ Becomes(r, q) /\ launches \in Nat /\ launches' = launches + 1
        /\ UNCHANGED <<calls, sessions>>
    BY <1>2, LaunchTyped DEF Launch, TypeOK
  <2>2. /\ req'[r] = q
        /\ \A p \in Requests \ {r} : req'[p] = req[p]
    BY <1>0, <2>1 DEF Becomes, ReqType
  <2>3. q.pc = "agent" /\ q.launch = launches + 1 /\ q.k = 1
    OBVIOUS
  <2>. HIDE DEF q
  <2>4. \A c \in calls : c \in Call /\ c.launch \in Nat /\ c.launch <= launches
    BY DEF TypeOK, Call, LaunchInv, Numbered
  <2>5. \A p \in Requests : Live(p) => req[p].launch \in Nat /\ req[p].launch <= launches
    BY <1>0, PlaceTyped DEF LaunchRecord, LaunchInv, Numbered, Live
  <2>6. \A p \in Requests \ {r} : Live(p)' <=> Live(p)
    BY <2>2 DEF Live
  <2>7. Numbered'
    <3>1. \A c \in calls' : c.launch <= launches'
      BY <2>1, <2>4
    <3>2. \A p \in Requests : Live(p)' => req'[p].launch <= launches'
      BY <2>1, <2>2, <2>3, <2>5, <2>6
    <3>3. \A p, x \in Requests :
              Live(p)' /\ Live(x)' /\ req'[p].launch = req'[x].launch => p = x
      <4>1. \A p \in Requests \ {r} : Live(p)' => req'[p].launch # req'[r].launch
        BY <2>1, <2>2, <2>3, <2>5, <2>6
      <4>2. \A p, x \in Requests \ {r} :
                Live(p)' /\ Live(x)' /\ req'[p].launch = req'[x].launch => p = x
        BY <2>2, <2>6 DEF LaunchInv, Numbered
      <4>. QED
        BY <4>1, <4>2
    <3>. QED
      BY <2>1, <3>1, <3>2, <3>3 DEF Numbered, LaunchInv
  <2>8. Progress(req[r])'
    <3>1. \A c \in calls : c.launch # q.launch
      BY <2>1, <2>3, <2>4
    <3>2. \A s \in sessions : s.launch # q.launch
      BY <3>1 DEF LaunchInv, Numbered
    <3>. QED
      BY <2>1, <2>2, <2>3, <3>1, <3>2 DEF Progress, Done
  <2>9. ASSUME NEW p \in Requests \ {r}, Live(p)' PROVE Progress(req[p])'
    <3>1. req'[p] = req[p] /\ Progress(req[p])
      BY <2>2, <2>6, <2>9 DEF LaunchInv
    <3>. QED
      BY <2>1, <3>1, ProgressKept
  <2>. QED
    BY <2>1, <2>7, <2>8, <2>9 DEF LaunchInv, OneUnrecordedCall
<1>3. ASSUME NEW r \in Requests,
             ((CheckAgent(r) \/ CheckContact(r)) /\ ~Ends(r)) \/ FinishLaunch(r)
      PROVE  LaunchInv'
  <2>1. Moves(r) /\ UNCHANGED <<calls, sessions>>
    BY <1>0, <1>3, CheckMoves
  <2>2. Progress(req[r]) /\ req[r].k \in Nat
    BY <1>0, <2>1, PlaceTyped DEF LaunchInv, Moves, Live, LaunchRecord
  <2>3. /\ Done(req[r])' = Done(req[r]) /\ Dialled(req[r])' = Dialled(req[r])
        /\ req'[r].pc \in {"finish", "audit"} => req[r].pc = "finish" /\ req'[r].k = req[r].k
        /\ req'[r].pc # "record"
    BY <1>0, <1>3, <2>2, CheckMoves DEF Done, Dialled
  <2>4. /\ req'[r].id = req[r].id /\ req'[r].rec = req[r].rec /\ req'[r].launch = req[r].launch
    BY <2>1 DEF Moves
  <2>5. Progress(req[r])'
    BY <2>1, <2>2, <2>3, <2>4 DEF Progress, CallAt
  <2>6. OneUnrecordedCall'
    BY <2>1 DEF LaunchInv, OneUnrecordedCall
  <2>. QED
    BY <2>1, <2>5, <2>6, MovesLaunch DEF LaunchInv, Numbered
<1>4. ASSUME NEW r \in Requests, Dial(r) \/ RecordSession(r) \/ NoteSession(r) PROVE LaunchInv'
  <2>. DEFINE q == req[r]
  <2>1. Moves(r)
    BY <1>0, <1>4, CallMoves
  <2>2. /\ Progress(q) /\ q.k \in Nat /\ q.k > 0 /\ CallOf(r) \in Call
        /\ CallOf(r) = CallAt(q, q.k) /\ CallOf(r).launch = q.launch /\ CallOf(r).k = q.k
    <3>1. q \in LaunchRecord /\ CallOf(r) \in Call
      BY <1>0, <2>1, PlaceTyped DEF Moves, Live
    <3>2. Progress(q)
      BY <2>1 DEF LaunchInv, Moves
    <3>. QED
      BY <3>1, <3>2 DEF LaunchRecord, CallOf, CallAt, Listed
  <2>3. /\ req'[r].id = q.id /\ req'[r].rec = q.rec /\ req'[r].launch = q.launch
    BY <2>1 DEF Moves
  <2>4. \A c \in calls : c.k \in Nat /\ c.k > 0
    BY DEF TypeOK, Call
  <2>5. sessions \subseteq calls /\ OneUnrecordedCall
    BY DEF LaunchInv, Numbered
  <2>6. CASE Dial(r)
    <3>1. /\ q.pc = "dial" /\ calls' = calls \cup {CallOf(r)} /\ sessions' = sessions
          /\ req'[r].pc = "record" /\ req'[r].k = q.k
      BY <1>0, <2>6, CallMoves DEF Dial, RecordSession, NoteSession
    <3>2. Done(q) = q.k - 1 /\ Dialled(q) = q.k - 1
      BY <3>1 DEF Done, Dialled
    <3>3. Done(req[r])' = q.k - 1 /\ Dialled(req[r])' = q.k
      BY <3>1 DEF Done, Dialled
    <3>4. \A c \in calls : c.launch = q.launch => c.k <= q.k - 1 /\ c \in sessions
      <4>. SUFFICES ASSUME NEW c \in calls, c.launch = q.launch
                    PROVE  c.k <= q.k - 1 /\ c \in sessions
        OBVIOUS
      <4>1. c.k <= q.k - 1 /\ c = CallAt(q, c.k)
        BY <2>2, <3>2 DEF Progress
      <4>2. c.k \in 1 .. Done(q)
        BY <2>2, <2>4, <3>2, <4>1
      <4>. QED
        BY <2>2, <4>1, <4>2 DEF Progress
    <3>5. Progress(req[r])'
      BY <2>2, <2>3, <2>4, <3>1, <3>2, <3>3, <3>4 DEF Progress, CallAt
    <3>6. OneUnrecordedCall'
      BY <2>2, <2>5, <3>1, <3>4 DEF OneUnrecordedCall
    <3>7. sessions' \subseteq calls'
      BY <2>5, <3>1
    <3>. QED
      BY <2>1, <2>2, <3>1, <3>5, <3>6, <3>7, MovesLaunch
  <2>7. CASE RecordSession(r)
    <3>1. /\ q.pc = "record" /\ sessions' = sessions \cup {CallOf(r)} /\ calls' = calls
          /\ req'[r].pc = "note" /\ req'[r].k = q.k
      BY <1>0, <2>7, CallMoves DEF Dial, RecordSession, NoteSession, Recorded
    <3>2. CallOf(r) \in calls
      BY <2>2, <3>1 DEF Progress
    <3>3. Done(q) = q.k - 1 /\ Dialled(q) = q.k
      BY <3>1 DEF Done, Dialled
    <3>4. Done(req[r])' = q.k /\ Dialled(req[r])' = q.k
      BY <3>1 DEF Done, Dialled
    <3>5. Progress(req[r])'
      <4>1. \A k \in 1 .. q.k : CallAt(q, k) \in sessions'
        BY <2>2, <3>1, <3>3 DEF Progress
      <4>2. \A s \in sessions' : s.launch = q.launch => s.k <= q.k
        BY <2>2, <2>4, <2>5, <3>1, <3>3 DEF Progress
      <4>. QED
        BY <2>2, <2>3, <3>1, <3>3, <3>4, <4>1, <4>2 DEF Progress, CallAt
    <3>6. OneUnrecordedCall'
      BY <2>5, <3>1 DEF OneUnrecordedCall
    <3>7. sessions' \subseteq calls'
      BY <2>5, <3>1, <3>2
    <3>. QED
      BY <2>1, <2>2, <3>1, <3>5, <3>6, <3>7, MovesLaunch
  <2>8. CASE NoteSession(r)
    <3>1. /\ q.pc = "note" /\ sessions' = sessions /\ calls' = calls
      BY <2>8 DEF NoteSession
    <3>2. /\ req'[r].pc \in {"finish", "dial"}
          /\ req'[r].pc = "finish" => req'[r].k = q.k /\ q.k = Len(q.rec.contacts)
          /\ req'[r].pc = "dial" => req'[r].k = q.k + 1
      <4>1. Len(q.rec.contacts) \in Nat /\ q.k <= Len(q.rec.contacts)
        BY <1>0, <2>1, PlaceTyped DEF Moves, Live
      <4>. QED
        BY <1>0, <2>2, <2>8, <3>1, <4>1, CallMoves DEF Dial, RecordSession, IsLast
    <3>3. Done(req[r])' = q.k /\ Dialled(req[r])' = q.k /\ Done(q) = q.k /\ Dialled(q) = q.k
      BY <2>2, <3>1, <3>2 DEF Done, Dialled
    <3>4. Progress(req[r])'
      BY <2>2, <2>3, <3>1, <3>2, <3>3 DEF Progress, CallAt
    <3>5. OneUnrecordedCall'
      BY <2>5, <3>1 DEF OneUnrecordedCall
    <3>. QED
      BY <2>1, <2>5, <3>1, <3>4, <3>5, MovesLaunch
  <2>. QED
    BY <1>4, <2>6, <2>7, <2>8
<1>5. ASSUME NEW r \in Requests, AuditLaunch(r) PROVE LaunchInv'
  <2>1. UNCHANGED <<calls, sessions, launches>>
    BY <1>5 DEF AuditLaunch
  <2>2. \A q \in Requests : Live(q)' => Live(q) /\ req'[q] = req[q]
    BY <1>0, <1>5 DEF AuditLaunch, Ends, Becomes, Live, Idle, Launching, ReqType
  <2>. QED
    BY <2>1, <2>2, EndedLaunch
<1>6. CASE UNCHANGED vars
  BY <1>1, <1>6 DEF vars, Quiet
<1>7. ASSUME NEW r \in Requests, (CheckAgent(r) \/ CheckContact(r)) /\ Ends(r) PROVE LaunchInv'
  BY <1>0, <1>1, <1>7, QuietSteps
<1>8. ASSUME NEW r \in Requests,
             \/ \E x \in Entities : Create(r, x) \/ Update(r, x) \/ Delete(r, x)
             \/ \E m \in CampaignIds, p \in Payload : CreateCampaign(r, m, p) \/ UpdateCampaign(r, m, p)
             \/ Save(r) \/ SaveCampaign(r) \/ Fail(r)
      PROVE  LaunchInv'
  BY <1>0, <1>1, <1>8, QuietSteps
<1>. QED
  BY <1>2, <1>3, <1>4, <1>5, <1>6, <1>7, <1>8 DEF Next

(* The launches of every behaviour are numbered and make progress.         *)
LEMMA LaunchInvAlways == Spec => []LaunchInv
<1>1. Init => LaunchInv
  BY DEF Init, LaunchInv, Numbered, OneUnrecordedCall, Live, Idle, Launching
<1>. QED
  BY <1>1, LaunchInvStep, TypeCorrect, PTL DEF Spec

(* However many launches of a campaign overlap and wherever they fail,     *)
(* each leaves one call at most without a session record                   *)
(* (launch_campaign).                                                      *)
THEOREM OneCallUnrecorded == Spec => []OneUnrecordedCall
<1>1. LaunchInv => OneUnrecordedCall
  BY DEF LaunchInv
<1>. QED
  BY <1>1, LaunchInvAlways, PTL
-----------------------------------------------------------------------------
(* Every step keeps the invariant of the audit records.                    *)
LEMMA AuditInvStep == TypeOK /\ LaunchInv /\ AuditInv /\ [Next]_vars => AuditInv'
<1>. SUFFICES ASSUME TypeOK, LaunchInv, AuditInv, [Next]_vars PROVE AuditInv'
  OBVIOUS
<1>0. ReqType
  BY TypeParts
<1>a. ASSUME UNCHANGED <<sessions, audit, launches>>,
             \A q \in Requests : Live(q)' => Live(q) /\ req'[q].launch = req[q].launch
      PROVE  AuditInv'
  <2>1. AuditCountsSessions'
    BY <1>a DEF AuditInv, AuditCountsSessions
  <2>. QED
    BY <1>a, <2>1 DEF AuditInv
<1>1. ASSUME Quiet PROVE AuditInv'
  BY <1>1, <1>a DEF Quiet, Live
<1>2. ASSUME NEW r \in Requests, Moves(r)
      PROVE  \A q \in Requests : Live(q)' => Live(q) /\ req'[q].launch = req[q].launch
  BY <1>2 DEF Moves, Live
<1>3. ASSUME NEW r \in Requests,
             ((CheckAgent(r) \/ CheckContact(r)) /\ ~Ends(r)) \/ FinishLaunch(r) \/ Dial(r)
      PROVE  AuditInv'
  <2>1. Moves(r) /\ UNCHANGED <<sessions, audit, launches>>
    BY <1>0, <1>3, CheckMoves, CallMoves DEF Dial, Moves
  <2>. QED
    BY <2>1, <1>2, <1>a
<1>4. ASSUME NEW r \in Requests, NEW m \in CampaignIds, Launch(r, m) PROVE AuditInv'
  <2>. DEFINE n == [pc |-> "agent", id |-> m, rec |-> campaign[m], launch |-> launches + 1, k |-> 1]
  <2>1. /\ Becomes(r, n) /\ launches \in Nat /\ launches' = launches + 1
        /\ UNCHANGED <<sessions, audit>>
    BY <1>4, LaunchTyped DEF Launch, TypeOK
  <2>2. /\ req'[r].launch = launches + 1
        /\ \A q \in Requests \ {r} : req'[q] = req[q] /\ (Live(q)' <=> Live(q))
    BY <1>0, <2>1 DEF Becomes, ReqType, Live
  <2>3. \A e \in audit : e.event = "campaign.launched" => e.launch \in Nat /\ e.launch <= launches
    BY DEF AuditInv, TypeOK, Event
  <2>4. AuditCountsSessions'
    BY <2>1 DEF AuditInv, AuditCountsSessions
  <2>. QED
    BY <2>1, <2>2, <2>3, <2>4 DEF AuditInv
<1>5. ASSUME NEW r \in Requests, RecordSession(r) PROVE AuditInv'
  <2>1. Moves(r) /\ UNCHANGED <<audit, launches>> /\ sessions' = sessions \cup {CallOf(r)}
    BY <1>0, <1>5, CallMoves DEF RecordSession, Recorded
  <2>2. CallOf(r).launch = req[r].launch
    BY DEF CallOf
  <2>3. ASSUME NEW e \in audit, e.event = "campaign.launched"
        PROVE  {t \in sessions' : t.launch = e.launch} = {t \in sessions : t.launch = e.launch}
    <3>1. req[r].launch # e.launch
      BY <2>1, <2>3 DEF AuditInv, Moves
    <3>. QED
      BY <2>1, <2>2, <3>1
  <2>4. AuditCountsSessions'
    BY <2>1, <2>3 DEF AuditInv, AuditCountsSessions
  <2>. QED
    BY <2>1, <2>4, <1>2 DEF AuditInv
<1>6. ASSUME NEW r \in Requests, NoteSession(r) PROVE AuditInv'
  <2>. DEFINE n == [event |-> "call_session.created", of |-> CallOf(r)]
  <2>1. Moves(r) /\ UNCHANGED <<sessions, launches>> /\ audit' = audit \cup {n}
    BY <1>0, <1>6, CallMoves DEF NoteSession
  <2>2. \A e \in audit' : e.event = "campaign.launched" => e \in audit
    BY <2>1
  <2>3. AuditCountsSessions'
    BY <2>1, <2>2 DEF AuditInv, AuditCountsSessions
  <2>. QED
    BY <2>1, <2>2, <2>3, <1>2 DEF AuditInv
<1>7. ASSUME NEW r \in Requests, AuditLaunch(r) PROVE AuditInv'
  <2>. DEFINE q == req[r]
              n == [event |-> "campaign.launched", launch |-> q.launch,
                    session_count |-> Len(q.rec.contacts)]
  <2>1. /\ q.pc = "audit" /\ Live(r) /\ UNCHANGED <<sessions, launches>>
        /\ audit' = audit \cup {n} /\ ~Live(r)'
        /\ \A p \in Requests \ {r} : req'[p] = req[p] /\ (Live(p)' <=> Live(p))
    BY <1>0, <1>7 DEF AuditLaunch, Ends, Becomes, Live, Idle, Launching, ReqType
  <2>2. /\ q.k \in Nat /\ q.launch <= launches /\ q.k = Len(q.rec.contacts) /\ Progress(q)
    BY <1>0, <2>1, PlaceTyped DEF LaunchInv, Numbered, Progress, Live, LaunchRecord
  <2>3. {s.k : s \in {t \in sessions : t.launch = q.launch}} = 1 .. q.k
    <3>1. Done(q) = q.k
      BY <2>1 DEF Done
    <3>2. \A s \in sessions : s.launch = q.launch => s.k \in 1 .. q.k
      BY <2>2, <3>1 DEF Progress, TypeOK, Call
    <3>3. \A k \in 1 .. q.k : CallAt(q, k) \in sessions /\ CallAt(q, k).launch = q.launch
                             /\ CallAt(q, k).k = k
      BY <2>2, <3>1 DEF Progress, CallAt
    <3>. QED
      BY <3>2, <3>3
  <2>4. AuditCountsSessions'
    BY <2>1, <2>2, <2>3 DEF AuditInv, AuditCountsSessions
  <2>5. ASSUME NEW e \in audit', e.event = "campaign.launched"
        PROVE  e.launch <= launches' /\ \A p \in Requests : Live(p)' => req'[p].launch # e.launch
    <3>1. CASE e \in audit
      BY <2>1, <2>5, <3>1 DEF AuditInv
    <3>2. CASE e = n
      BY <2>1, <2>2, <3>2 DEF LaunchInv, Numbered
    <3>. QED
      BY <2>1, <3>1, <3>2
  <2>. QED
    BY <2>4, <2>5 DEF AuditInv
<1>8. CASE UNCHANGED vars
  BY <1>1, <1>8 DEF vars, Quiet
<1>9. ASSUME NEW r \in Requests, (CheckAgent(r) \/ CheckContact(r)) /\ Ends(r) PROVE AuditInv'
  BY <1>0, <1>1, <1>9, QuietSteps
<1>10. ASSUME NEW r \in Requests,
             \/ \E x \in Entities : Create(r, x) \/ Update(r, x) \/ Delete(r, x)
             \/ \E m \in CampaignIds, p \in Payload : CreateCampaign(r, m, p) \/ UpdateCampaign(r, m, p)
             \/ Save(r) \/ SaveCampaign(r) \/ Fail(r)
      PROVE  AuditInv'
  BY <1>0, <1>1, <1>10, QuietSteps
<1>. QED
  BY <1>3, <1>4, <1>5, <1>6, <1>7, <1>8, <1>9, <1>10 DEF Next

(* The session_count of a launch's audit record is the number of sessions  *)
(* it has recorded, whatever other launches of the campaign do.            *)
THEOREM AuditCounts == Spec => []AuditCountsSessions
<1>1. Init => AuditInv
  BY DEF Init, AuditInv, AuditCountsSessions
<1>2. AuditInv => AuditCountsSessions
  BY DEF AuditInv
<1>. QED
  BY <1>1, <1>2, AuditInvStep, LaunchInvAlways, TypeCorrect, PTL DEF Spec
-----------------------------------------------------------------------------
(* Every step keeps the invariant of the statuses.                         *)
LEMMA StatusInvStep == TypeOK /\ LaunchInv /\ StatusInv /\ [Next]_vars => StatusInv'
<1>. SUFFICES ASSUME TypeOK, LaunchInv, StatusInv, [Next]_vars PROVE StatusInv'
  OBVIOUS
<1>0. ReqType /\ RecordsType
  BY TypeParts
<1>1. \A m : HasSession(m) /\ sessions \subseteq sessions' => HasSession(m)'
  BY DEF HasSession
<1>2. ASSUME sessions \subseteq sessions',
             \A m \in CampaignIds : campaign'[m].status = "launched" =>
                 campaign[m].status = "launched" \/ HasSession(m),
             \A r \in Requests : req'[r].pc = "edit" /\ req'[r].rec.status = "launched" =>
                 req'[r] = req[r] \/ HasSession(req'[r].id)
      PROVE  StatusInv'
  <2>1. \A m \in CampaignIds : campaign'[m].status = "launched" => HasSession(m)'
    BY <1>1, <1>2 DEF StatusInv
  <2>2. \A r \in Requests :
            req'[r].pc = "edit" /\ req'[r].rec.status = "launched" =>
                \E s \in sessions' : s.campaign = req'[r].id
    <3>. SUFFICES ASSUME NEW r \in Requests, req'[r].pc = "edit", req'[r].rec.status = "launched"
                  PROVE  \E s \in sessions' : s.campaign = req'[r].id
      OBVIOUS
    <3>1. HasSession(req'[r].id)
      BY <1>2 DEF StatusInv
    <3>. QED
      BY <1>2, <3>1 DEF HasSession
  <2>. QED
    BY <2>1, <2>2 DEF StatusInv, HasSession
<1>3. ASSUME NEW r \in Requests, NEW q, q.pc # "edit", Becomes(r, q),
             UNCHANGED <<campaign, sessions>>
      PROVE  StatusInv'
  <2>1. \A x \in Requests : req'[x].pc = "edit" => req'[x] = req[x]
    BY <1>0, <1>3 DEF Becomes, ReqType
  <2>. QED
    BY <1>2, <1>3, <2>1
<1>4. ASSUME NEW r \in Requests, Moves(r), UNCHANGED campaign, sessions \subseteq sessions'
      PROVE  StatusInv'
  <2>1. req'[r].pc # "edit"
    BY <1>4 DEF Moves, Live, Launching
  <2>2. \A x \in Requests : req'[x].pc = "edit" => req'[x] = req[x]
    BY <1>4, <2>1 DEF Moves
  <2>. QED
    BY <1>2, <1>4, <2>2
<1>5. Idle.pc # "edit"
  BY DEF Idle
<1>6. ASSUME NEW r \in Requests, NEW x \in Entities, Create(r, x) \/ Delete(r, x) PROVE StatusInv'
  <2>1. UNCHANGED <<campaign, sessions, req>>
    BY <1>6 DEF Create, Delete
  <2>. QED
    BY <2>1, <1>2
<1>7. ASSUME NEW r \in Requests, NEW x \in Entities, Update(r, x) PROVE StatusInv'
  <2>1. [pc |-> "save", id |-> x].pc # "edit"
    OBVIOUS
  <2>. QED
    BY <1>3, <1>7, <2>1 DEF Update
<1>8. ASSUME NEW r \in Requests,
             Save(r) \/ Fail(r) \/ AuditLaunch(r) \/ ((CheckAgent(r) \/ CheckContact(r)) /\ Ends(r))
      PROVE  StatusInv'
  BY <1>3, <1>5, <1>8 DEF Save, Fail, AuditLaunch, CheckAgent, CheckContact, Ends
<1>9. ASSUME NEW r \in Requests, NEW m \in CampaignIds, NEW p \in Payload, CreateCampaign(r, m, p)
      PROVE  StatusInv'
  <2>1. /\ UNCHANGED <<sessions, req>>
        /\ \A x \in CampaignIds : campaign'[x].status = "launched" => campaign[x].status = "launched"
    BY <1>0, <1>9 DEF CreateCampaign, WithStatus, RecordsType
  <2>. QED
    BY <1>2, <2>1
<1>10. ASSUME NEW r \in Requests, NEW m \in CampaignIds, NEW p \in Payload, UpdateCampaign(r, m, p)
       PROVE  StatusInv'
  <2>. DEFINE q == [pc |-> "edit", id |-> m, rec |-> WithStatus(p, campaign[m].status)]
  <2>1. UNCHANGED <<campaign, sessions>> /\ Becomes(r, q)
    BY <1>10 DEF UpdateCampaign
  <2>2. req'[r] = q /\ \A x \in Requests \ {r} : req'[x] = req[x]
    BY <1>0, <2>1 DEF Becomes, ReqType
  <2>3. q.rec.status = campaign[m].status /\ q.id = m
    BY DEF WithStatus
  <2>4. q.rec.status = "launched" => HasSession(q.id)
    BY <2>3 DEF StatusInv
  <2>. HIDE DEF q
  <2>. QED
    BY <1>2, <2>1, <2>2, <2>4
<1>11. ASSUME NEW r \in Requests, SaveCampaign(r) PROVE StatusInv'
  <2>1. /\ req[r].pc = "edit" /\ Becomes(r, Idle) /\ UNCHANGED sessions
        /\ campaign' = [campaign EXCEPT ![req[r].id] = req[r].rec]
    BY <1>11 DEF SaveCampaign
  <2>2. \A m \in CampaignIds : campaign'[m].status = "launched" =>
            campaign[m].status = "launched" \/ HasSession(m)
    BY <1>0, <2>1 DEF StatusInv, RecordsType
  <2>3. \A x \in Requests : req'[x].pc = "edit" => req'[x] = req[x]
    BY <1>0, <1>5, <2>1 DEF Becomes, ReqType
  <2>. QED
    BY <1>2, <2>1, <2>2, <2>3
<1>12. ASSUME NEW r \in Requests, NEW m \in CampaignIds, Launch(r, m) PROVE StatusInv'
  <2>1. [pc |-> "agent", id |-> m, rec |-> campaign[m], launch |-> launches', k |-> 1].pc # "edit"
    OBVIOUS
  <2>. QED
    BY <1>3, <1>12, <2>1 DEF Launch
<1>13. ASSUME NEW r \in Requests, (CheckAgent(r) \/ CheckContact(r)) /\ ~Ends(r) PROVE StatusInv'
  <2>1. Moves(r) /\ UNCHANGED <<campaign, sessions>>
    BY <1>0, <1>13, CheckMoves DEF CheckAgent, CheckContact
  <2>. QED
    BY <1>4, <2>1
<1>14. ASSUME NEW r \in Requests, Dial(r) \/ RecordSession(r) \/ NoteSession(r) PROVE StatusInv'
  <2>1. Moves(r) /\ UNCHANGED campaign /\ sessions \subseteq sessions'
    BY <1>0, <1>14, CallMoves DEF Dial, RecordSession, Recorded, NoteSession
  <2>. QED
    BY <1>4, <2>1
<1>15. ASSUME NEW r \in Requests, FinishLaunch(r) PROVE StatusInv'
  <2>1. /\ Moves(r) /\ req[r].pc = "finish" /\ UNCHANGED sessions
        /\ campaign' = [campaign EXCEPT ![req[r].id] = [req[r].rec EXCEPT !.status = "launched"]]
    BY <1>0, <1>15, CheckMoves DEF FinishLaunch
  <2>2. HasSession(req[r].id)
    <3>1. Progress(req[r]) /\ req[r].k \in Nat /\ req[r].k > 0
      BY <1>0, <2>1, PlaceTyped DEF LaunchInv, Moves, Live, LaunchRecord
    <3>2. Done(req[r]) = req[r].k
      BY <2>1 DEF Done
    <3>3. CallAt(req[r], 1) \in sessions /\ CallAt(req[r], 1).campaign = req[r].id
      BY <3>1, <3>2 DEF Progress, CallAt
    <3>. QED
      BY <3>3 DEF HasSession
  <2>3. \A m \in CampaignIds : campaign'[m].status = "launched" =>
            campaign[m].status = "launched" \/ HasSession(m)
    BY <1>0, <2>1, <2>2 DEF RecordsType
  <2>4. \A x \in Requests : req'[x].pc = "edit" => req'[x] = req[x]
    BY <2>1 DEF Moves, Live, Launching
  <2>. QED
    BY <1>2, <2>1, <2>3, <2>4
<1>16. CASE UNCHANGED vars
  BY <1>2, <1>16 DEF vars
<1>. QED
  BY <1>6, <1>7, <1>8, <1>9, <1>10, <1>11, <1>12, <1>13, <1>14, <1>15, <1>16 DEF Next

(* A campaign that says it was launched has a session to show for it,      *)
(* although launches and edits overwrite each other's records              *)
(* (launch_campaign, update_campaign).                                     *)
THEOREM LaunchedHasCalled == Spec => []LaunchedHasSessions
<1>1. Init => StatusInv
  <2>. SUFFICES ASSUME Init PROVE StatusInv
    OBVIOUS
  <2>1. \A m \in CampaignIds : campaign[m].status = "none"
    BY DEF Init
  <2>2. \A r \in Requests : req[r].pc = "idle"
    BY DEF Init, Idle
  <2>. QED
    BY <2>1, <2>2 DEF StatusInv
<1>2. StatusInv => LaunchedHasSessions
  BY DEF StatusInv, HasSession, LaunchedHasSessions
<1>. QED
  BY <1>1, <1>2, StatusInvStep, LaunchInvAlways, TypeCorrect, PTL DEF Spec
-----------------------------------------------------------------------------
(* Every step keeps the invariant of the missing contacts.                 *)
LEMMA GhostInvStep == TypeOK /\ GhostInv /\ [Next]_vars => GhostInv'
<1>. SUFFICES ASSUME TypeOK, GhostInv, [Next]_vars PROVE GhostInv'
  OBVIOUS
<1>0. ReqType /\ RecordsType
  BY TypeParts
<1>1. ASSUME \A r \in Requests : missing'[r] \subseteq missing[r],
             \A r \in Requests : \A x \in missing'[r] : entity'[x] = entity[x] \/ entity'[x] # "stored",
             \A r \in Requests : Live(r)' =>
                 /\ Live(r) /\ req'[r].rec = req[r].rec
                 /\ \/ req'[r].pc = req[r].pc /\ req'[r].k = req[r].k
                    \/ req[r].pc \notin {"agent", "contact"} /\ req'[r].pc \notin {"agent", "contact"}
      PROVE  GhostInv'
  <2>1. \A r \in Requests : \A x \in missing'[r] : entity'[x] # "stored"
    BY <1>1 DEF GhostInv
  <2>2. ASSUME NEW r \in Requests, Live(r)', req'[r].pc # "agent",
               NEW k \in 1 .. Len(req'[r].rec.contacts), Seen(req[r], k)'
        PROVE  req'[r].rec.contacts[k] \notin missing'[r]
    <3>1. Live(r) /\ req[r].pc # "agent" /\ req'[r].rec = req[r].rec
      BY <1>1, <2>2
    <3>2. Seen(req[r], k)
      BY <1>1, <2>2, <3>1 DEF Seen
    <3>. QED
      BY <1>1, <2>2, <3>1, <3>2 DEF GhostInv
  <2>. QED
    BY <2>1, <2>2 DEF GhostInv
<1>2. ASSUME Quiet, \A r \in Requests : missing'[r] \subseteq missing[r],
             \A r \in Requests : \A x \in missing'[r] : entity'[x] = entity[x] \/ entity'[x] # "stored"
      PROVE  GhostInv'
  <2>1. \A r \in Requests : Live(r)' => Live(r) /\ req'[r] = req[r]
    BY <1>2 DEF Quiet, Live
  <2>. QED
    BY <1>1, <1>2, <2>1
<1>3. ASSUME NEW r \in Requests, NEW x \in Entities, Create(r, x) \/ Update(r, x) \/ Delete(r, x)
      PROVE  GhostInv'
  <2>1. Quiet
    BY <1>0, <1>3, QuietSteps
  <2>2. /\ \A q \in Requests : missing'[q] \subseteq missing[q]
        /\ \A q \in Requests : \A y \in missing'[q] : entity'[y] = entity[y] \/ entity'[y] # "stored"
    BY <1>0, <1>3 DEF Create, Update, Delete, Store, RecordsType
  <2>. QED
    BY <1>2, <2>1, <2>2
<1>4. ASSUME NEW r \in Requests, Save(r) PROVE GhostInv'
  <2>1. Quiet
    BY <1>0, <1>4, QuietSteps
  <2>2. /\ \A q \in Requests : missing'[q] \subseteq missing[q]
        /\ \A q \in Requests : \A y \in missing'[q] : entity'[y] = entity[y] \/ entity'[y] # "stored"
    BY <1>0, <1>4 DEF Save, Store, RecordsType
  <2>. QED
    BY <1>2, <2>1, <2>2
<1>5. ASSUME NEW r \in Requests,
             \/ \E m \in CampaignIds, p \in Payload : CreateCampaign(r, m, p) \/ UpdateCampaign(r, m, p)
             \/ SaveCampaign(r)
      PROVE  GhostInv'
  <2>1. Quiet
    BY <1>0, <1>5, QuietSteps
  <2>2. UNCHANGED <<entity, missing>>
    BY <1>5 DEF CreateCampaign, UpdateCampaign, SaveCampaign
  <2>. QED
    BY <1>2, <2>1, <2>2
<1>6. ASSUME NEW r \in Requests, Fail(r) \/ ((CheckAgent(r) \/ CheckContact(r)) /\ Ends(r))
      PROVE  GhostInv'
  <2>1. Quiet
    BY <1>0, <1>6, QuietSteps
  <2>2. entity' = entity /\ \A q \in Requests : missing'[q] \subseteq missing[q]
    BY <1>0, <1>6 DEF Fail, CheckAgent, CheckContact, Ends, RecordsType
  <2>. QED
    BY <1>2, <2>1, <2>2
<1>7. ASSUME NEW r \in Requests, NEW m \in CampaignIds, Launch(r, m) PROVE GhostInv'
  <2>1. /\ Becomes(r, [pc |-> "agent", id |-> m, rec |-> campaign[m], launch |-> launches', k |-> 1])
        /\ entity' = entity
        /\ missing' = [missing EXCEPT ![r] = {x \in Entities : entity[x] # "stored"}]
    BY <1>7 DEF Launch
  <2>2. /\ req'[r].pc = "agent"
        /\ \A q \in Requests \ {r} : req'[q] = req[q] /\ missing'[q] = missing[q]
    BY <1>0, <2>1 DEF Becomes, ReqType, RecordsType
  <2>3. \A q \in Requests : \A x \in missing'[q] : entity'[x] # "stored"
    BY <1>0, <2>1, <2>2 DEF GhostInv, RecordsType
  <2>4. ASSUME NEW q \in Requests, Live(q)', req'[q].pc # "agent",
               NEW k \in 1 .. Len(req'[q].rec.contacts), Seen(req[q], k)'
        PROVE  req'[q].rec.contacts[k] \notin missing'[q]
    <3>1. q # r /\ req'[q] = req[q] /\ missing'[q] = missing[q]
      BY <2>2, <2>4
    <3>2. Live(q) /\ Seen(req[q], k)
      BY <2>4, <3>1 DEF Live, Seen
    <3>. QED
      BY <2>4, <3>1, <3>2 DEF GhostInv
  <2>. QED
    BY <2>3, <2>4 DEF GhostInv
<1>8. ASSUME NEW r \in Requests, (CheckAgent(r) \/ CheckContact(r)) /\ ~Ends(r) PROVE GhostInv'
  <2>1. Moves(r) /\ UNCHANGED <<entity, missing>>
    BY <1>0, <1>8, CheckMoves DEF CheckAgent, CheckContact
  <2>2. /\ req'[r].rec = req[r].rec
        /\ \A q \in Requests \ {r} : req'[q] = req[q]
    BY <2>1 DEF Moves
  <2>3. /\ Len(req[r].rec.contacts) \in Nat /\ req[r].k \in 1 .. Len(req[r].rec.contacts)
        /\ Live(r)
    BY <1>0, <2>1, PlaceTyped DEF Moves, Live
  <2>4. ASSUME NEW k \in 1 .. Len(req[r].rec.contacts), Seen(req[r], k)'
        PROVE  req[r].rec.contacts[k] \notin missing[r]
    <3>1. CASE CheckAgent(r)
      <4>1. Goes(r, "contact", 1) /\ "contact" \in Launching /\ 1 \in 1 .. Len(req[r].rec.contacts)
        BY <1>8, <2>3, <3>1 DEF CheckAgent, Launching
      <4>2. req'[r].pc = "contact" /\ req'[r].k = 1
        BY <1>0, <2>3, <4>1, GoesTyped DEF Live
      <4>. QED
        BY <2>4, <4>2 DEF Seen
    <3>2. CASE CheckContact(r)
      <4>1. req[r].rec.contacts[req[r].k] \notin missing[r] /\ req[r].pc = "contact"
        BY <1>8, <3>2 DEF CheckContact, Exists, Listed, GhostInv
      <4>2. \A j \in 1 .. Len(req[r].rec.contacts) :
                j < req[r].k => req[r].rec.contacts[j] \notin missing[r]
        BY <2>3, <4>1 DEF GhostInv, Seen
      <4>3. k <= req[r].k
        <5>1. CASE IsLast(r)
          BY <2>3, <2>4, <5>1 DEF IsLast
        <5>2. CASE ~IsLast(r)
          <6>1. Goes(r, "contact", req[r].k + 1) /\ "contact" \in Launching
                /\ req[r].k + 1 \in 1 .. Len(req[r].rec.contacts)
            BY <1>8, <2>3, <3>2, <5>2 DEF CheckContact, IsLast, Launching
          <6>2. req'[r].pc = "contact" /\ req'[r].k = req[r].k + 1
            BY <1>0, <2>3, <6>1, GoesTyped DEF Live
          <6>. QED
            BY <2>3, <2>4, <6>2 DEF Seen
        <5>. QED
          BY <5>1, <5>2
      <4>. QED
        BY <2>3, <2>4, <4>1, <4>2, <4>3
    <3>. QED
      BY <1>8, <3>1, <3>2
  <2>5. ASSUME NEW q \in Requests, q # r, Live(q)', req'[q].pc # "agent",
               NEW k \in 1 .. Len(req'[q].rec.contacts), Seen(req[q], k)'
        PROVE  req'[q].rec.contacts[k] \notin missing'[q]
    <3>1. req'[q] = req[q] /\ Live(q) /\ Seen(req[q], k)
      BY <2>2, <2>5 DEF Live, Seen
    <3>. QED
      BY <2>1, <2>5, <3>1 DEF GhostInv
  <2>6. \A q \in Requests : \A x \in missing'[q] : entity'[x] # "stored"
    BY <2>1 DEF GhostInv
  <2>. QED
    BY <2>1, <2>2, <2>4, <2>5, <2>6 DEF GhostInv
<1>9. ASSUME NEW r \in Requests, Dial(r) \/ RecordSession(r) \/ NoteSession(r) \/ FinishLaunch(r)
      PROVE  GhostInv'
  <2>1. Moves(r) /\ UNCHANGED <<entity, missing>>
    BY <1>0, <1>9, CheckMoves, CallMoves DEF Dial, RecordSession, NoteSession, FinishLaunch
  <2>2. req[r].pc \in {"dial", "record", "note", "finish"}
    BY <1>9 DEF Dial, RecordSession, NoteSession, FinishLaunch
  <2>3. req'[r].pc \in {"dial", "record", "note", "finish", "audit"}
    BY <1>0, <1>9, CheckMoves, CallMoves DEF FinishLaunch
  <2>4. /\ Live(r) /\ req'[r].rec = req[r].rec
        /\ \A q \in Requests \ {r} : req'[q] = req[q]
    BY <2>1 DEF Moves
  <2>5. ASSUME NEW q \in Requests, Live(q)'
        PROVE  /\ Live(q) /\ req'[q].rec = req[q].rec
               /\ \/ req'[q].pc = req[q].pc /\ req'[q].k = req[q].k
                  \/ req[q].pc \notin {"agent", "contact"} /\ req'[q].pc \notin {"agent", "contact"}
    <3>1. CASE q = r
      BY <2>2, <2>3, <2>4, <3>1
    <3>2. CASE q # r
      <4>1. req'[q] = req[q]
        BY <2>4, <3>2
      <4>. QED
        BY <2>5, <4>1 DEF Live
    <3>. QED
      BY <3>1, <3>2
  <2>6. /\ \A q \in Requests : missing'[q] \subseteq missing[q]
        /\ \A q \in Requests : \A x \in missing'[q] : entity'[x] = entity[x] \/ entity'[x] # "stored"
    BY <2>1
  <2>. QED
    BY <1>1, <2>5, <2>6
<1>10. ASSUME NEW r \in Requests, AuditLaunch(r) PROVE GhostInv'
  <2>1. entity' = entity /\ \A q \in Requests : missing'[q] \subseteq missing[q]
    BY <1>0, <1>10 DEF AuditLaunch, Ends, RecordsType
  <2>2. \A q \in Requests : Live(q)' => Live(q) /\ req'[q] = req[q]
    BY <1>0, <1>10 DEF AuditLaunch, Ends, Becomes, Live, Idle, Launching, ReqType
  <2>. QED
    BY <1>1, <2>1, <2>2
<1>11. CASE UNCHANGED vars
  BY <1>2, <1>11 DEF vars, Quiet
<1>. QED
  BY <1>3, <1>4, <1>5, <1>6, <1>7, <1>8, <1>9, <1>10, <1>11 DEF Next

(* A contact that was gone when a launch was requested, and that no update *)
(* stored again, is not called by it (launch_campaign, update_contact).    *)
THEOREM GhostsNotCalled == Spec => []NoGhostCalls
<1>1. Init => GhostInv
  BY DEF Init, GhostInv, Live, Idle, Launching
<1>2. TypeOK /\ LaunchInv /\ GhostInv => NoGhostCalls
  <2>. SUFFICES ASSUME TypeOK, LaunchInv, GhostInv, NEW r \in Requests,
                       req[r].pc \in {"record", "note", "finish", "audit"},
                       NEW c \in calls, c.launch = req[r].launch
                PROVE  c.contact \notin missing[r]
    BY DEF NoGhostCalls
  <2>1. Live(r) /\ ReqType
    BY TypeParts DEF Live, Launching
  <2>2. Len(req[r].rec.contacts) \in Nat /\ req[r].k \in 1 .. Len(req[r].rec.contacts)
    BY <2>1, PlaceTyped DEF Live
  <2>3. c.k <= Dialled(req[r]) /\ c = CallAt(req[r], c.k) /\ c.k \in Nat /\ c.k > 0
    BY <2>1 DEF LaunchInv, Progress, TypeOK, Call
  <2>4. Dialled(req[r]) = req[r].k
    BY DEF Dialled, Done
  <2>5. c.k \in 1 .. Len(req[r].rec.contacts) /\ Seen(req[r], c.k)
    BY <2>2, <2>3, <2>4 DEF Seen
  <2>6. c.contact = req[r].rec.contacts[c.k]
    BY <2>3 DEF CallAt
  <2>. QED
    BY <2>1, <2>5, <2>6 DEF GhostInv
<1>. QED
  BY <1>1, <1>2, GhostInvStep, LaunchInvAlways, TypeCorrect, PTL DEF Spec
=============================================================================
