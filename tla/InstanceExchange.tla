--------------------------- MODULE InstanceExchange ---------------------------
(***************************************************************************)
(* One fmu-api instance and its record at the central server.  Packets,    *)
(* settings, confirmations, downloads and handshakes of the instance, and  *)
(* the users who assign groups, settings and forced updates, all read the  *)
(* whole record by one await, change a field of the copy and save the copy *)
(* by a later one: of two that overlap, the later Save wins.               *)
(***************************************************************************)
EXTENDS Naturals

CONSTANTS
  Requests,    \* slots for requests the server handles at a time
  NoRequest,   \* the instance waits for no answer: not a member of Requests
  Groups,      \* groups of instances, each with its settings schema
  NoGroup,     \* no group; as a schema, the settings the instance had itself
  Updates,     \* uploaded update files
  NoUpdate,    \* an empty ForcedUpdateId
  MaxEdits,    \* bound: commands of the users
  MaxFaults    \* bound: lost answers, failing reads and writes

ASSUME InstanceAssumption ==
  /\ NoRequest \notin Requests
  /\ NoGroup \notin Groups
  /\ NoUpdate \notin Updates
  /\ MaxEdits \in Nat
  /\ MaxFaults \in Nat

VARIABLES
  record,    \* the InstanceEntity in CouchDB
  files,     \* update files that are still there
  req,       \* [Requests -> the request in that slot]
  todo,      \* what the instance still does about the last answer
  awaits,    \* the request whose answer the instance waits for
  applied,   \* the schema the instance runs with
  fetched,   \* the schema it was handed
  greeted,   \* has it a token from a handshake?
  legacy,    \* does it use the API without tokens?
  owed,      \* history: the schema assigned and not yet applied
  order,     \* history: the update forced and not yet handed out
  older,     \* history: was it handed settings before `owed` was assigned?
  edits, faults

instance == <<todo, awaits, applied, fetched, greeted>>
history == <<owed, order, older>>
bounds == <<edits, faults>>
vars == <<record, files, req, instance, legacy, history, bounds>>

Schema == Groups \cup {NoGroup}
Update == Updates \cup {NoUpdate}
Record == [schema : Schema, snapshot : BOOLEAN, modified : BOOLEAN,
           forced : Update, group : Schema]
Op == {"none", "handshake", "packet", "settings", "confirm", "download",
       "force", "assign", "export", "form"}
Phase == {"free", "sent", "touching", "ready", "held", "saved", "streaming"}
Todo == {"settings", "apply", "confirm", "update"}
Request == [op : Op, phase : Phase, arg : Schema \cup Update \cup BOOLEAN, copy : Record,
            missed : SUBSET {"owed", "order"}]

Blank == [schema |-> NoGroup, snapshot |-> FALSE, modified |-> FALSE,
          forced |-> NoUpdate, group |-> NoGroup]
Free == [op |-> "none", phase |-> "free", arg |-> NoGroup, copy |-> Blank, missed |-> {}]

TypeOK ==
  /\ record \in Record
  /\ files \subseteq Updates
  /\ req \in [Requests -> Request]
  /\ todo \subseteq Todo
  /\ awaits \in Requests \cup {NoRequest}
  /\ applied \in Schema
  /\ fetched \in Schema
  /\ greeted \in BOOLEAN
  /\ legacy \in BOOLEAN
  /\ owed \in Schema
  /\ order \in Update
  /\ older \in BOOLEAN
  /\ edits \in 0 .. MaxEdits
  /\ faults \in 0 .. MaxFaults

\* The form has just created the record; the instance has not yet called.
Init ==
  /\ record \in [schema : {NoGroup}, snapshot : {FALSE}, modified : {FALSE},
                 forced : {NoUpdate}, group : Schema]
  /\ files = Updates
  /\ req = [w \in Requests |-> Free]
  /\ todo = {} /\ awaits = NoRequest
  /\ applied = NoGroup /\ fetched = NoGroup
  /\ greeted = FALSE
  /\ legacy \in BOOLEAN
  /\ owed = NoGroup /\ order = NoUpdate /\ older = FALSE
  /\ edits = 0 /\ faults = 0

-----------------------------------------------------------------------------
(* Requests                                                                *)

At(w, op, phase) == req[w].op = op /\ req[w].phase = phase

\* A confirmation of what was handed out before the assignment has missed it.
Since(op) == IF op = "confirm" /\ older THEN {"owed"} ELSE {}

\* A new request takes a free slot.
Send(w, op, phase, arg) ==
  /\ req[w].phase = "free"
  /\ req' = [req EXCEPT ![w] = [op |-> op, phase |-> phase, arg |-> arg, copy |-> Blank,
                                missed |-> Since(op)]]

\* A fresh copy misses nothing; what a confirmation confirms stays as old as it is.
Fresh(w) == IF req[w].op = "confirm" THEN req[w].missed \ {"order"} ELSE {}

Hold(w, phase, copy, missed) ==
  req' = [req EXCEPT ![w] = [@ EXCEPT !.phase = phase, !.copy = copy, !.missed = missed]]

Finish(w) == req' = [req EXCEPT ![w] = Free]

\* The instance gets the answer, unless it has given up waiting; then `rest`
\* is what it still has to do.
Answer(w, rest) ==
  IF awaits = w
    THEN /\ awaits' = NoRequest
         /\ todo' = rest
    ELSE UNCHANGED <<awaits, todo>>

\* A save of a copy puts every field back; of two at the same moment, the one
\* with the old revision fails.
Save(copy) == record' = copy

Holding == {"touching", "held", "saved"}

\* A command is saved: whoever has read the record before, or confirms what was
\* handed out before, has missed it.
Misses(r, what) == r.phase \in Holding \/ (what = "owed" /\ r.op = "confirm")
FinishCommand(w, what) ==
  req' = [v \in Requests |->
            IF v = w THEN Free
            ELSE [req[v] EXCEPT !.missed = IF Misses(req[v], what) THEN @ \cup {what} ELSE @]]

\* The copy has the settings that are owed, and keeps them when the next packet
\* is the instance's first.
Carries(copy, g) ==
  /\ copy.modified
  /\ copy.schema = g
  /\ copy.snapshot \/ copy.group \in {g, NoGroup}

\* A request that has missed a command may put the record back as it was.
StillOwed(w, copy) ==
  IF "owed" \in req[w].missed /\ ~Carries(copy, owed) THEN NoGroup ELSE owed
StillOrdered(w, copy) ==
  IF "order" \in req[w].missed /\ copy.forced # order THEN NoUpdate ELSE order
SaveOver(w, copy) ==
  /\ Save(copy)
  /\ owed' = StillOwed(w, copy)
  /\ order' = StillOrdered(w, copy)

Edit == edits < MaxEdits /\ edits' = edits + 1
Fault == faults < MaxFaults /\ faults' = faults + 1

\* A failing read or write of the record, an exception or a restart ends the
\* request before its next write; the instance sees an error and leaves the rest
\* undone.  (A group or schema that cannot be read ends nothing: see Applied.)
Abort(w) ==
  /\ req[w].phase # "free"
  /\ Fault
  /\ Finish(w)
  /\ Answer(w, {})
  /\ UNCHANGED <<record, files, applied, fetched, greeted, legacy, history, edits>>

\* The answer is lost or late, or a download breaks: the instance gives up,
\* the request goes on.
TimeOut ==
  /\ awaits # NoRequest
  /\ Fault
  /\ awaits' = NoRequest
  /\ todo' = {}
  /\ UNCHANGED <<record, files, req, applied, fetched, greeted, legacy, history, edits>>

-----------------------------------------------------------------------------
(* The instance (fmu-api), one request at a time                           *)

Call(w, op, phase, arg) ==
  /\ awaits = NoRequest
  /\ Send(w, op, phase, arg)
  /\ awaits' = w
  /\ UNCHANGED <<record, files, applied, fetched, legacy, history, bounds>>

\* The old API marks the access before it does what was asked.
FirstPhase == IF legacy THEN "sent" ELSE "ready"

Greet(w) ==
  /\ ~legacy /\ ~greeted /\ todo = {}
  /\ Call(w, "handshake", "sent", NoGroup)
  /\ greeted' = TRUE
  /\ UNCHANGED todo

Post(w) ==
  /\ legacy \/ greeted
  /\ todo = {}
  /\ Call(w, "packet", "ready", applied)
  /\ greeted' = FALSE
  /\ UNCHANGED todo

AskSettings(w) ==
  /\ "settings" \in todo
  /\ Call(w, "settings", FirstPhase, NoGroup)
  /\ UNCHANGED <<todo, greeted>>

ApplySettings ==
  /\ awaits = NoRequest
  /\ "apply" \in todo
  /\ applied' = fetched
  /\ todo' = (todo \ {"apply"}) \cup {"confirm"}
  /\ owed' = IF fetched = owed THEN NoGroup ELSE owed
  /\ UNCHANGED <<record, files, req, awaits, fetched, greeted, legacy, order, older, bounds>>

Confirm(w) ==
  /\ "confirm" \in todo
  /\ Call(w, "confirm", FirstPhase, NoGroup)
  /\ UNCHANGED <<todo, greeted>>

Download(w) ==
  /\ "update" \in todo
  /\ Call(w, "download", FirstPhase, NoGroup)
  /\ UNCHANGED <<todo, greeted>>

-----------------------------------------------------------------------------
(* The server, for the instance                                            *)

\* Handshake and MarkLegacyAccess save the whole record for a timestamp.
TouchRead(w) ==
  /\ req[w].phase = "sent"
  /\ Hold(w, "touching", record, Fresh(w))
  /\ UNCHANGED <<record, files, instance, legacy, history, bounds>>

TouchSave(w) ==
  /\ req[w].phase = "touching"
  /\ SaveOver(w, req[w].copy)
  /\ IF req[w].op = "handshake"
       THEN Finish(w) /\ Answer(w, todo)
       ELSE Hold(w, "ready", Blank, Fresh(w)) /\ UNCHANGED <<todo, awaits>>
  /\ UNCHANGED <<files, applied, fetched, greeted, legacy, older, bounds>>

ReadRecord(w, op) ==
  /\ At(w, op, "ready")
  /\ Hold(w, "held", record, Fresh(w))
  /\ UNCHANGED <<record, files, instance, legacy, history, bounds>>

PacketRead(w) == ReadRecord(w, "packet")

\* ApplyGroupSchema: the settings stay as they were when there is no group, when
\* the group or its schema cannot be read, and when it has no schema.
Applied(g, source) == IF g = NoGroup THEN {source} ELSE {g, source}

\* Mutant: the settings the instance sent always win.
ResolvedIncoming(copy, incoming) == {incoming}

\* ResolveSettingsForSave: settings of a user wait until they are confirmed,
\* all other settings are those the instance sent.
Resolved(copy, incoming) ==
  IF ~copy.modified THEN {incoming}
  ELSE IF copy.snapshot THEN {copy.schema}
  ELSE Applied(copy.group, incoming)

\* Mutant: what the instance sent takes the place of the record.
HavingBare(copy, s) == [schema |-> s, snapshot |-> TRUE, modified |-> copy.modified]

\* The record after a packet.
Having(copy, s) == [copy EXCEPT !.schema = s, !.snapshot = TRUE]
Reported(copy, incoming) == {Having(copy, s) : s \in Resolved(copy, incoming)}

\* A first packet whose own settings are kept ends what was owed.
KeepsOwn(r, copy) == ~r.copy.snapshot /\ copy.schema = r.arg

PacketSave(w) ==
  /\ At(w, "packet", "held")
  /\ \E copy \in Reported(req[w].copy, req[w].arg) :
       /\ Save(copy)
       /\ Hold(w, "saved", copy, req[w].missed)
       /\ owed' = IF KeepsOwn(req[w], copy) /\ ~Carries(copy, owed) THEN NoGroup ELSE StillOwed(w, copy)
       /\ order' = StillOrdered(w, copy)
  /\ UNCHANGED <<files, instance, legacy, older, bounds>>

\* What the answer tells the instance to do next.
Told(copy, offered) ==
  (IF copy.modified THEN {"settings"} ELSE {}) \cup (IF offered THEN {"update"} ELSE {})

\* Inside the download hours a forced update is offered; without one, the
\* group decides whether the newest file is.
PacketAnswer(w) ==
  /\ At(w, "packet", "saved")
  /\ req[w].copy.forced \in files \cup {NoUpdate}
  /\ \E offered \in IF req[w].copy.forced = NoUpdate /\ req[w].copy.group = NoGroup
                      THEN {FALSE} ELSE BOOLEAN :
       Answer(w, Told(req[w].copy, offered))
  /\ Finish(w)
  /\ UNCHANGED <<record, files, applied, fetched, greeted, legacy, history, bounds>>

\* An update file that is not found is forgotten by a second Save of the copy;
\* a read that fails looks the same.
PacketForgets(w) ==
  /\ At(w, "packet", "saved")
  /\ req[w].copy.forced # NoUpdate
  /\ IF req[w].copy.forced \in files THEN Fault ELSE UNCHANGED faults
  /\ Save([req[w].copy EXCEPT !.forced = NoUpdate])
  /\ \E offered \in IF req[w].copy.group = NoGroup THEN {FALSE} ELSE BOOLEAN :
       Answer(w, Told(req[w].copy, offered))
  /\ Finish(w)
  /\ owed' = StillOwed(w, req[w].copy)
  /\ order' = IF req[w].copy.forced = order \/ "order" \in req[w].missed THEN NoUpdate ELSE order
  /\ UNCHANGED <<files, applied, fetched, greeted, legacy, older, edits>>

\* InstanceSettings reads and saves nothing.
GiveSettings(w) ==
  /\ At(w, "settings", "ready")
  /\ IF awaits = w
       THEN fetched' = record.schema /\ older' = (older /\ "confirm" \in todo)
       ELSE UNCHANGED <<fetched, older>>
  /\ Answer(w, (todo \ {"settings"}) \cup {"apply"})
  /\ Finish(w)
  /\ UNCHANGED <<record, files, applied, greeted, legacy, owed, order, bounds>>

ConfirmRead(w) == ReadRecord(w, "confirm")

\* Mutant: the confirmation is recorded and the flag left.
ConfirmSaveFlagged(w) ==
  /\ At(w, "confirm", "held")
  /\ SaveOver(w, req[w].copy)
  /\ Answer(w, todo \ {"confirm"})
  /\ Finish(w)
  /\ UNCHANGED <<files, applied, fetched, greeted, legacy, older, bounds>>

\* SettingsUploaded
ConfirmSave(w) ==
  /\ At(w, "confirm", "held")
  /\ SaveOver(w, [req[w].copy EXCEPT !.modified = FALSE])
  /\ Answer(w, todo \ {"confirm"})
  /\ Finish(w)
  /\ UNCHANGED <<files, applied, fetched, greeted, legacy, older, bounds>>

\* FmuApiUpdate refuses outside the download hours; with no forced update the
\* newest file is sent or refused.
DownloadRead(w) ==
  /\ At(w, "download", "ready")
  /\ \/ Finish(w) /\ Answer(w, todo \ {"update"})
     \/ record.forced # NoUpdate /\ Hold(w, "held", record, Fresh(w)) /\ UNCHANGED <<todo, awaits>>
  /\ UNCHANGED <<record, files, applied, fetched, greeted, legacy, history, bounds>>

\* The range always ends with the file, so ForcedUpdateId is cleared before
\* the first byte is sent, as it is when the file is not found.
DownloadSave(w) ==
  /\ At(w, "download", "held")
  /\ Save([req[w].copy EXCEPT !.forced = NoUpdate])
  /\ Hold(w, "streaming", req[w].copy, req[w].missed)
  /\ owed' = StillOwed(w, req[w].copy)
  /\ order' = IF req[w].copy.forced = order \/ "order" \in req[w].missed THEN NoUpdate ELSE order
  /\ UNCHANGED <<files, instance, legacy, older, bounds>>

\* The body has gone out, or there is none.
DownloadEnds(w) ==
  /\ At(w, "download", "streaming")
  /\ Answer(w, todo \ {"update"})
  /\ Finish(w)
  /\ UNCHANGED <<record, files, applied, fetched, greeted, legacy, history, bounds>>

\* The database is marked as unavailable when the record is to be saved and
\* the code goes on: of a packet, the instance hears only that it failed.
SaveSkipped(w) ==
  /\ Fault
  /\ \/ /\ req[w].phase = "touching" /\ req[w].op # "handshake"
        /\ Hold(w, "ready", Blank, Fresh(w)) /\ UNCHANGED <<todo, awaits>>
     \/ /\ At(w, "download", "held")
        /\ Hold(w, "streaming", req[w].copy, req[w].missed) /\ UNCHANGED <<todo, awaits>>
     \/ /\ At(w, "packet", "held")
        /\ \E copy \in Reported(req[w].copy, req[w].arg) :
             Hold(w, "saved", copy, IF KeepsOwn(req[w], copy) THEN req[w].missed \cup {"owed"}
                                    ELSE req[w].missed)
        /\ Answer(w, {})
  /\ UNCHANGED <<record, files, applied, fetched, greeted, legacy, history, edits>>

-----------------------------------------------------------------------------
(* The users                                                               *)

Command(w, op, arg) ==
  /\ Edit
  /\ Send(w, op, "ready", arg)
  /\ UNCHANGED <<record, files, instance, legacy, history, faults>>

ForceUpdate(w, u) == u \in files /\ Command(w, "force", u)
AssignGroup(w, g) == Command(w, "assign", g)
ExportSettings(w, g) == g # NoGroup /\ Command(w, "export", g)

\* An instance that has not told its system yet is skipped.
ForceRead(w) ==
  /\ At(w, "force", "ready")
  /\ IF record.snapshot THEN Hold(w, "held", record, Fresh(w)) ELSE Finish(w)
  /\ UNCHANGED <<record, files, instance, legacy, history, bounds>>

ForceSave(w) ==
  /\ At(w, "force", "held")
  /\ Save([req[w].copy EXCEPT !.forced = req[w].arg])
  /\ FinishCommand(w, "order")
  /\ owed' = StillOwed(w, req[w].copy)
  /\ order' = req[w].arg
  /\ UNCHANGED <<files, instance, legacy, older, bounds>>

AssignRead(w) == ReadRecord(w, "assign")

\* The record is flagged; the settings are owed if they are those of the group
\* (see Applied) and the instance does not run with them.
Assign(w, g, copy) ==
  /\ Save([copy EXCEPT !.modified = TRUE])
  /\ FinishCommand(w, "owed")
  /\ owed' = IF copy.schema # g \/ (applied = g /\ "apply" \notin todo) THEN NoGroup ELSE g
  /\ older' = ({"apply", "confirm"} \cap todo # {})
  /\ order' = StillOrdered(w, copy)

\* Another group brings its settings along, if they can be read; the flag is
\* set all the same.  No group leaves settings and flag alone.
Moved(r) == [r.copy EXCEPT !.group = r.arg]

AssignSave(w) ==
  /\ At(w, "assign", "held")
  /\ \/ req[w].arg = NoGroup /\ SaveOver(w, Moved(req[w])) /\ Finish(w) /\ UNCHANGED older
     \/ /\ req[w].arg # NoGroup
        /\ \E s \in Applied(req[w].arg, req[w].copy.schema) :
             Assign(w, req[w].arg, [Moved(req[w]) EXCEPT !.schema = s])
  /\ UNCHANGED <<files, instance, legacy, bounds>>

\* ExportSettings ends without a word to the record when the schema cannot be read.
ExportRead(w) ==
  /\ At(w, "export", "ready")
  /\ IF record.group = req[w].arg THEN Hold(w, "held", record, Fresh(w)) ELSE Finish(w)
  /\ UNCHANGED <<record, files, instance, legacy, history, bounds>>

ExportSave(w) ==
  /\ At(w, "export", "held")
  /\ Assign(w, req[w].arg, [req[w].copy EXCEPT !.schema = req[w].arg])
  /\ UNCHANGED <<files, instance, legacy, bounds>>

\* Every field of the form is sent, changed or not: group and flag are what
\* the user chose or what the row of the list said when it was loaded.
SubmitForm(w, g, m) ==
  /\ Edit
  /\ req[w].phase = "free"
  /\ req' = [req EXCEPT ![w] = [op |-> "form", phase |-> "ready", arg |-> m,
                                copy |-> [Blank EXCEPT !.group = g], missed |-> {}]]
  /\ UNCHANGED <<record, files, instance, legacy, history, faults>>

\* Mutant: the new entity starts without the forced update of the old one.
FormReadForgetting(w) ==
  /\ At(w, "form", "ready")
  /\ LET copy == [record EXCEPT !.group = req[w].copy.group, !.modified = req[w].arg,
                               !.forced = NoUpdate]
     IN  req' = [req EXCEPT ![w] = [@ EXCEPT !.phase = "held", !.copy = copy, !.arg = (copy = record)]]
  /\ UNCHANGED <<record, files, instance, legacy, history, bounds>>

\* CreateNew of an instance that exists; `arg` then says whether the form
\* leaves group and flag as they are.
FormRead(w) ==
  /\ At(w, "form", "ready")
  /\ LET copy == [record EXCEPT !.group = req[w].copy.group, !.modified = req[w].arg]
     IN  req' = [req EXCEPT ![w] = [@ EXCEPT !.phase = "held", !.copy = copy, !.arg = (copy = record)]]
  /\ UNCHANGED <<record, files, instance, legacy, history, bounds>>

FormSave(w) ==
  /\ At(w, "form", "held")
  /\ Save(req[w].copy)
  /\ owed' = IF req[w].arg = FALSE /\ ~Carries(req[w].copy, owed) THEN NoGroup ELSE StillOwed(w, req[w].copy)
  /\ order' = StillOrdered(w, req[w].copy)
  /\ Finish(w)
  /\ UNCHANGED <<files, instance, legacy, older, bounds>>

\* An update file is deleted from the list of updates.
DeleteFile(u) ==
  /\ u \in files
  /\ Edit
  /\ files' = files \ {u}
  /\ UNCHANGED <<record, req, instance, legacy, history, faults>>
-----------------------------------------------------------------------------
Instance ==
  \/ \E w \in Requests :
       Greet(w) \/ Post(w) \/ AskSettings(w) \/ Confirm(w) \/ Download(w)
  \/ ApplySettings

Server(w) ==
  \/ TouchRead(w) \/ TouchSave(w)
  \/ PacketRead(w) \/ PacketSave(w) \/ PacketAnswer(w) \/ PacketForgets(w)
  \/ GiveSettings(w) \/ ConfirmRead(w) \/ ConfirmSave(w)
  \/ DownloadRead(w) \/ DownloadSave(w) \/ DownloadEnds(w)
  \/ ForceRead(w) \/ ForceSave(w) \/ AssignRead(w) \/ AssignSave(w)
  \/ ExportRead(w) \/ ExportSave(w) \/ FormRead(w) \/ FormSave(w)

Users ==
  \/ \E w \in Requests : \/ \E u \in Updates : ForceUpdate(w, u)
                         \/ \E g \in Schema : AssignGroup(w, g) \/ ExportSettings(w, g)
                         \/ \E g \in Schema, m \in BOOLEAN : SubmitForm(w, g, m)
  \/ \E u \in Updates : DeleteFile(u)

Next ==
  \/ Instance
  \/ \E w \in Requests : Server(w) \/ SaveSkipped(w) \/ Abort(w)
  \/ TimeOut
  \/ Users

Spec == Init /\ [][Next]_vars

\* The instance calls again and again; the server finishes what it began.
FairSpec == Spec /\ WF_vars(Instance) /\ \A w \in Requests : WF_vars(Server(w))

-----------------------------------------------------------------------------
\* Settings that were assigned (those of the group, not the old ones an assignment
\* saves when it cannot read the group) stay in the record, flagged, until the
\* instance runs with them.  Only these end that: a request that had read the
\* record before they were saved, the confirmation of settings handed out before,
\* a later assignment, a form that changes group or flag, and a first packet whose
\* group settings cannot be read.  No other request that begins later drops them,
\* in whatever order requests read, save, fail and time out.
AssignedStaysPending ==
  owed # NoGroup => record.modified /\ record.schema = owed

\* An update that was forced stays in the record until it is handed out or cannot
\* be found: of all whole-record saves, only one of a request that had read the
\* record before the command was saved takes it away.
ForcedStaysOrdered == order # NoUpdate => record.forced = order

\* Every request that is under way is where one of the handlers goes on from,
\* and the instance waits for nobody but a request of its own that is under
\* way: none is forgotten half done, whatever fails, times out or is skipped.
NodeOps == {"handshake", "packet", "settings", "confirm", "download"}
Stages ==
  ((NodeOps \ {"packet"}) \X {"sent", "touching"})
  \cup ((Op \ {"none", "handshake"}) \X {"ready"})
  \cup ((Op \ {"none", "handshake", "settings"}) \X {"held"})
  \cup {<<"packet", "saved">>, <<"download", "streaming">>}
RequestsGoOn ==
  /\ \A w \in Requests : req[w].phase = "free" \/ <<req[w].op, req[w].phase>> \in Stages
  /\ awaits # NoRequest => req[awaits].phase # "free" /\ req[awaits].op \in NodeOps

\* When users and faults come to rest, record and instance agree: nothing is
\* pending and the record holds the settings the instance runs with.
Settles == <>[](~record.modified /\ record.schema = applied)

-----------------------------------------------------------------------------
(* The inductive invariant behind AssignedStaysPending, ForcedStaysOrdered *)

\* What a request carries fits what it does; only members of a group get its
\* settings.
Fits(r) ==
  /\ r.op = "packet" => r.arg \in Schema
  /\ r.op = "force" => r.arg \in Updates
  /\ r.op = "assign" => r.arg \in Schema
  /\ r.op = "export" => r.arg \in Groups /\ (r.phase = "held" => r.copy.group = r.arg)
  /\ r.op = "form" => r.arg \in BOOLEAN /\ r.phase \notin {"sent", "touching"}

RequestsFit == \A w \in Requests : Fits(req[w])

\* A copy that is going to be saved, other than by a form that changes it.
Saves(r) ==
  /\ r.phase \in Holding
  /\ r.op = "form" => r.arg

\* What has not missed the assignment carries it, and confirms nothing else.
OwedInv ==
  owed # NoGroup =>
    /\ Carries(record, owed)
    /\ \A w \in Requests : "owed" \notin req[w].missed =>
         req[w].op # "confirm" /\ (Saves(req[w]) => Carries(req[w].copy, owed))
    /\ ~older => "confirm" \notin todo /\ ("apply" \in todo => fetched = owed)

OrderInv ==
  order # NoUpdate =>
    /\ record.forced = order
    /\ \A w \in Requests :
         req[w].phase \in Holding /\ "order" \notin req[w].missed => req[w].copy.forced = order

ExchangeInv == TypeOK /\ RequestsFit /\ OwedInv /\ OrderInv
=============================================================================
