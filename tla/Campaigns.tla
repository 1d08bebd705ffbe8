----------------------------- MODULE Campaigns -----------------------------
(***************************************************************************)
(* The launch API of one portal user: contacts, agents, campaigns, call    *)
(* sessions and audit records in Redis, changed by concurrent requests.    *)
(*                                                                         *)
(* A step is one Redis command, or one call of the telephony provider,     *)
(* which the launch makes synchronously; a request is suspended between    *)
(* its steps.  The record of a request is what its handler has in local    *)
(* variables.  A request that is refused leaves nothing behind, and        *)
(* requests that only read are left out.  So are the audit records of      *)
(* contacts and of edits, which their requests append last of all.         *)
(*                                                                         *)
(* An operator marked "mutant" is a faulty form of the one that follows    *)
(* it: put in its place, it must break a property.                         *)
(***************************************************************************)
EXTENDS Integers, Sequences

CONSTANTS
    Requests,       \* bound: requests served at the same time
    Contacts,       \* bound: ids of contacts
    Agents,         \* bound: ids of agents
    CampaignIds,    \* bound: ids of campaigns
    MaxLaunches,    \* bound: launches admitted
    MaxAudience,    \* bound: contact_ids of a campaign
    Faults          \* a command, the provider or the process may fail

ASSUME LaunchesAssumption == MaxLaunches \in Nat /\ MaxAudience \in Nat
ASSUME IdsAssumption == Contacts \cap Agents = {}
ASSUME FaultsAssumption == Faults \in BOOLEAN

VARIABLES
    entity,     \* records of contacts and agents
    campaign,   \* records of campaigns
    calls,      \* calls the provider was asked to place
    sessions,   \* call_session records, named by their calls
    audit,      \* audit records of launches and their sessions
    launches,   \* launches admitted so far
    req,        \* what each request is doing
    missing     \* history variable: what was not stored at any time since a launch began

vars == <<entity, campaign, calls, sessions, audit, launches, req, missing>>

Entities == Contacts \cup Agents
Audiences == UNION {[1 .. n -> Contacts] : n \in 0 .. MaxAudience}
Payload == [contacts : Audiences, agent : Agents]
Status == {"none", "draft", "launched"}
Record == [status : Status, contacts : Audiences, agent : Agents]
Call == [launch : 1 .. MaxLaunches, k : 1 .. MaxAudience, campaign : CampaignIds,
         contact : Contacts]
Event ==
    [event : {"call_session.created"}, of : Call]
    \cup [event : {"campaign.launched"}, launch : 1 .. MaxLaunches, session_count : 0 .. MaxAudience]

Idle == [pc |-> "idle"]
Launching == {"agent", "contact", "dial", "record", "note", "finish", "audit"}
Request ==
    {Idle}
    \cup [pc : {"save"}, id : Entities]
    \cup [pc : {"edit"}, id : CampaignIds, rec : Record]
    \cup [pc : Launching, id : CampaignIds, rec : Record, launch : 1 .. MaxLaunches,
          k : 1 .. MaxAudience]

TypeOK ==
    /\ entity \in [Entities -> {"new", "stored", "deleted"}]
    /\ campaign \in [CampaignIds -> Record]
    /\ calls \in SUBSET Call
    /\ sessions \in SUBSET Call
    /\ audit \in SUBSET Event
    /\ launches \in 0 .. MaxLaunches
    /\ req \in [Requests -> Request]
    /\ \A r \in Requests : req[r].pc \in Launching => req[r].k <= Len(req[r].rec.contacts)
    /\ missing \in [Requests -> SUBSET Entities]

Init ==
    /\ entity = [x \in Entities |-> "new"]
    /\ campaign \in [CampaignIds -> {c \in Record : c.status = "none" /\ c.contacts = <<>>}]
    /\ calls = {}
    /\ sessions = {}
    /\ audit = {}
    /\ launches = 0
    /\ req = [r \in Requests |-> Idle]
    /\ missing = [r \in Requests |-> {}]
-----------------------------------------------------------------------------
(* Contacts and agents.                                                    *)

Becomes(r, q) == req' = [req EXCEPT ![r] = q]
Goes(r, pc, k) == req' = [req EXCEPT ![r].pc = pc, ![r].k = k]
Ends(r) == Becomes(r, Idle) /\ missing' = [missing EXCEPT ![r] = {}]

Store(x) ==
    /\ entity' = [entity EXCEPT ![x] = "stored"]
    /\ missing' = [r \in Requests |-> missing[r] \ {x}]

Create(r, x) ==
    /\ req[r] = Idle
    /\ entity[x] = "new"
    /\ Store(x)
    /\ UNCHANGED <<campaign, calls, sessions, audit, launches, req>>

(* An update reads the record first; by the time it writes it, the record  *)
(* may be gone.                                                            *)
Update(r, x) ==
    /\ req[r] = Idle
    /\ entity[x] = "stored"
    /\ Becomes(r, [pc |-> "save", id |-> x])
    /\ UNCHANGED <<entity, campaign, calls, sessions, audit, launches, missing>>

Save(r) ==
    /\ req[r].pc = "save"
    /\ Store(req[r].id)
    /\ Becomes(r, Idle)
    /\ UNCHANGED <<campaign, calls, sessions, audit, launches>>

Delete(r, x) ==
    /\ req[r] = Idle
    /\ entity[x] = "stored"
    /\ entity' = [entity EXCEPT ![x] = "deleted"]
    /\ UNCHANGED <<campaign, calls, sessions, audit, launches, req, missing>>
-----------------------------------------------------------------------------
(* Campaigns.  The payload is not checked against the records; an id that  *)
(* names nothing is one that was deleted.                                  *)

Known(p) ==
    /\ entity[p.agent] # "new"
    /\ \A k \in 1 .. Len(p.contacts) : entity[p.contacts[k]] # "new"
WithStatus(p, status) == [status |-> status, contacts |-> p.contacts, agent |-> p.agent]

CreateCampaign(r, m, p) ==
    /\ req[r] = Idle
    /\ campaign[m].status = "none"
    /\ Known(p)
    /\ campaign' = [campaign EXCEPT ![m] = WithStatus(p, "draft")]
    /\ UNCHANGED <<entity, calls, sessions, audit, launches, req, missing>>

(* The status is the one that was read, whatever a launch writes meanwhile. *)
UpdateCampaign(r, m, p) ==
    /\ req[r] = Idle
    /\ campaign[m].status # "none"
    /\ Known(p)
    /\ Becomes(r, [pc |-> "edit", id |-> m, rec |-> WithStatus(p, campaign[m].status)])
    /\ UNCHANGED <<entity, campaign, calls, sessions, audit, launches, missing>>

SaveCampaign(r) ==
    /\ req[r].pc = "edit"
    /\ campaign' = [campaign EXCEPT ![req[r].id] = req[r].rec]
    /\ Becomes(r, Idle)
    /\ UNCHANGED <<entity, calls, sessions, audit, launches, missing>>
-----------------------------------------------------------------------------
(* launch_campaign, after the request was found acknowledged and meant for *)
(* the configured provider.                                                *)

Launch(r, m) ==
    /\ req[r] = Idle
    /\ campaign[m].status # "none"
    /\ campaign[m].contacts # <<>>
    /\ launches < MaxLaunches
    /\ launches' = launches + 1
    /\ Becomes(r, [pc |-> "agent", id |-> m, rec |-> campaign[m], launch |-> launches', k |-> 1])
    /\ missing' = [missing EXCEPT ![r] = {x \in Entities : entity[x] # "stored"}]
    /\ UNCHANGED <<entity, campaign, calls, sessions, audit>>

CheckAgent(r) ==
    /\ req[r].pc = "agent"
    /\ IF entity[req[r].rec.agent] = "stored"
       THEN Goes(r, "contact", 1) /\ UNCHANGED missing
       ELSE Ends(r)
    /\ UNCHANGED <<entity, campaign, calls, sessions, audit, launches>>

(* The last contact of the loop, in the first loop and in the second.      *)
LastButOne(r) == req[r].k + 1 >= Len(req[r].rec.contacts)   \* mutant
IsLast(r) == req[r].k >= Len(req[r].rec.contacts)

Listed(r) == req[r].rec.contacts[req[r].k]
AnyContact(r) == TRUE   \* mutant
Exists(r) == entity[Listed(r)] = "stored"

CheckContact(r) ==
    /\ req[r].pc = "contact"
    /\ \/ ~Exists(r) /\ Ends(r)
       \/ /\ Exists(r)
          /\ IF IsLast(r) THEN Goes(r, "dial", 1) ELSE Goes(r, "contact", req[r].k + 1)
          /\ UNCHANGED missing
    /\ UNCHANGED <<entity, campaign, calls, sessions, audit, launches>>

CallOf(r) ==
    [launch |-> req[r].launch, k |-> req[r].k, campaign |-> req[r].id, contact |-> Listed(r)]

DialAll(r) ==   \* mutant
    /\ req[r].pc = "dial"
    /\ calls' = calls \cup {[CallOf(r) EXCEPT !.k = k, !.contact = req[r].rec.contacts[k]] :
                             k \in 1 .. Len(req[r].rec.contacts)}
    /\ Goes(r, "record", req[r].k)
    /\ UNCHANGED <<entity, campaign, sessions, audit, launches, missing>>
Dial(r) ==
    /\ req[r].pc = "dial"
    /\ calls' = calls \cup {CallOf(r)}
    /\ Goes(r, "record", req[r].k)
    /\ UNCHANGED <<entity, campaign, sessions, audit, launches, missing>>

Unrecorded(r) == sessions   \* mutant
Recorded(r) == sessions \cup {CallOf(r)}

RecordSession(r) ==
    /\ req[r].pc = "record"
    /\ sessions' = Recorded(r)
    /\ Goes(r, "note", req[r].k)
    /\ UNCHANGED <<entity, campaign, calls, audit, launches, missing>>

NoteSession(r) ==
    /\ req[r].pc = "note"
    /\ audit' = audit \cup {[event |-> "call_session.created", of |-> CallOf(r)]}
    /\ IF IsLast(r) THEN Goes(r, "finish", req[r].k) ELSE Goes(r, "dial", req[r].k + 1)
    /\ UNCHANGED <<entity, campaign, calls, sessions, launches, missing>>

(* The record that was read when the launch began is written back.         *)
FinishLaunch(r) ==
    /\ req[r].pc = "finish"
    /\ campaign' = [campaign EXCEPT ![req[r].id] = [req[r].rec EXCEPT !.status = "launched"]]
    /\ Goes(r, "audit", req[r].k)
    /\ UNCHANGED <<entity, calls, sessions, audit, launches, missing>>

AuditLaunch(r) ==
    /\ req[r].pc = "audit"
    /\ audit' = audit \cup {[event |-> "campaign.launched", launch |-> req[r].launch,
                             session_count |-> Len(req[r].rec.contacts)]}
    /\ Ends(r)
    /\ UNCHANGED <<entity, campaign, calls, sessions, launches>>

(* An exception ends the request where it is; nothing is undone.           *)
Fail(r) ==
    /\ Faults
    /\ req[r] # Idle
    /\ Ends(r)
    /\ UNCHANGED <<entity, campaign, calls, sessions, audit, launches>>
-----------------------------------------------------------------------------
Next ==
    \E r \in Requests :
        \/ \E x \in Entities : Create(r, x) \/ Update(r, x) \/ Delete(r, x)
        \/ Save(r)
        \/ \E m \in CampaignIds : \/ \E p \in Payload : CreateCampaign(r, m, p)
                                                        \/ UpdateCampaign(r, m, p)
                                  \/ Launch(r, m)
        \/ SaveCampaign(r)
        \/ CheckAgent(r)
        \/ CheckContact(r)
        \/ Dial(r)
        \/ RecordSession(r)
        \/ NoteSession(r)
        \/ FinishLaunch(r)
        \/ AuditLaunch(r)
        \/ Fail(r)

Spec == Init /\ [][Next]_vars
-----------------------------------------------------------------------------
(* A campaign that says it was launched has sessions to show for it,       *)
(* whatever launches and edits wrote it concurrently (launch_campaign,     *)
(* update_campaign).                                                       *)
LaunchedHasSessions ==
    \A m \in CampaignIds : campaign[m].status = "launched" => \E s \in sessions : s.campaign = m

(* A launch that breaks off leaves one call at most without a session      *)
(* record: calls are recorded one by one, before the next is placed.       *)
OneUnrecordedCall ==
    \A c, d \in calls \ sessions : c.launch = d.launch => c = d

(* The session_count of a launch's audit record is the number of sessions  *)
(* it has recorded, each for another place of its audience.                *)
AuditCountsSessions ==
    \A e \in audit : e.event = "campaign.launched" =>
        {s.k : s \in {t \in sessions : t.launch = e.launch}} = 1 .. e.session_count

(* A contact that was gone when the launch was requested, and that nobody  *)
(* stored again, is not called.                                            *)
NoGhostCalls ==
    \A r \in Requests : req[r].pc \in {"record", "note", "finish", "audit"} =>
        \A c \in calls : c.launch = req[r].launch => c.contact \notin missing[r]
=============================================================================
