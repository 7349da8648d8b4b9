----------------------------- MODULE EtrnExchange -----------------------------
(***************************************************************************)
(* Electronic consignment notes (ЭТрН): the acceptance command of the Web  *)
(* interface and the polling worker, which share the CouchDB records of    *)
(* the notes and never lock them against each other, and the operator      *)
(* (Saby) behind both.  A record is read by one await and written by a     *)
(* later one, so every Find and every Save is a step of its own.           *)
(***************************************************************************)
EXTENDS Naturals, Sequences, FiniteSets

CONSTANTS
  Docs,            \* consignment notes of one enabled connection
  Callers,         \* concurrent POST api/etrn/incoming/{id}/accept requests
  NoDoc,           \* "no document": not a member of Docs
  NoCaller,        \* the author of a request nobody waits for any more
  PageSize,        \* events on one page of the operator's change list
  ReconcileLimit,  \* stuck notes one round reconciles
  Unparsable,      \* notes whose sender title cannot be parsed
  EarlyStages,     \* bound: reports of the stages before acceptance, per note
  DbFaults         \* may a CouchDB read or write fail?

ASSUME ConstantsAssumption ==
  /\ NoDoc \notin Docs
  /\ NoCaller \notin Callers
  /\ PageSize \in Nat \ {0}
  /\ ReconcileLimit \in Nat \ {0}
  /\ Unparsable \subseteq Docs
  /\ EarlyStages \in Nat
  /\ DbFaults \in BOOLEAN

VARIABLES
  (* CouchDB: the records of the notes and of the poll position *)
  status,     \* [Docs -> Status], "None" when there is no record
  aged,       \* [Docs -> BOOLEAN]: sendingAt is more than ten minutes old
  xml,        \* [Docs -> BOOLEAN]: rawXml of the sender title is kept
  pair,       \* index in the feed of the saved event pair, 0 when empty
  (* memory of the WebApi process *)
  busy,       \* EtrnAcceptanceGate._busy
  at,         \* [Callers -> where the request is in AcceptAsync]
  target,     \* [Callers -> its document]
  choice,     \* [Callers -> the decision computed for it]
  copyXml,    \* [Callers -> rawXml of the copy it holds]
  round,      \* where the polling worker is in LoadAsync
  stale,      \* stuck notes this round still has to reconcile
  toSave,     \* fetched documents still to be written
  toClose,    \* closed documents still to be written
  cur,        \* the document between its Find (or stage read) and its Save
  draft,      \* status and rawXml of the copy of cur about to be saved
  from,       \* the pair this round started from
  next,       \* the pair this round will save
  (* the operator and the network *)
  stage,      \* [Docs -> stage of the note at the operator]
  executed,   \* [Docs -> our decision the operator executed, or "None"]
  feed,       \* the operator's change list
  wire        \* ExecuteAction requests the operator has not processed

dbVars == <<status, aged, xml, pair>>
callVars == <<busy, at, target, choice, copyXml>>
pollVars == <<round, stale, toSave, toClose, cur, draft, from, next>>
operatorVars == <<stage, executed, feed, wire>>
vars == <<dbVars, callVars, pollVars, operatorVars>>

Decision == {"Accepted", "Rejected"}
Final == Decision \cup {"Closed"}
Status == Final \cup {"None", "Waiting", "Sending"}
CallerStep == {"idle", "entered", "found", "executing", "awaiting", "executed", "failed"}
RoundStep == {"starting", "idle", "reconcile", "saveReconciled", "fetch",
              "documents", "saveDocument", "closed", "saveClosed", "savePair"}
Stage == {"absent", "early", "acceptance", "after"}
Event == [doc : Docs, acceptance : BOOLEAN]
Request == [doc : Docs, decision : Decision, by : Callers \cup {NoCaller}]
Draft == [status : Status, xml : BOOLEAN]
NoDraft == [status |-> "None", xml |-> FALSE]

TypeOK ==
  /\ status \in [Docs -> Status]
  /\ aged \in [Docs -> BOOLEAN]
  /\ xml \in [Docs -> BOOLEAN]
  /\ pair \in Nat
  /\ busy \subseteq Docs
  /\ at \in [Callers -> CallerStep]
  /\ target \in [Callers -> Docs \cup {NoDoc}]
  /\ choice \in [Callers -> Decision \cup {"None"}]
  /\ copyXml \in [Callers -> BOOLEAN]
  /\ round \in RoundStep
  /\ stale \subseteq Docs
  /\ toSave \subseteq Docs
  /\ toClose \subseteq Docs
  /\ cur \in Docs \cup {NoDoc}
  /\ draft \in Draft
  /\ from \in Nat
  /\ next \in Nat
  /\ stage \in [Docs -> Stage]
  /\ executed \in [Docs -> Decision \cup {"None"}]
  /\ feed \in Seq(Event)
  /\ wire \subseteq Request

Init ==
  /\ status = [d \in Docs |-> "None"]
  /\ aged = [d \in Docs |-> FALSE]
  /\ xml = [d \in Docs |-> FALSE]
  /\ pair = 0
  /\ busy = {}
  /\ at = [c \in Callers |-> "idle"]
  /\ target = [c \in Callers |-> NoDoc]
  /\ choice = [c \in Callers |-> "None"]
  /\ copyXml = [c \in Callers |-> FALSE]
  /\ round = "starting"
  /\ stale = {} /\ toSave = {} /\ toClose = {}
  /\ cur = NoDoc
  /\ draft = NoDraft
  /\ from = 0 /\ next = 0
  /\ stage = [d \in Docs |-> "absent"]
  /\ executed = [d \in Docs |-> "None"]
  /\ feed = <<>>
  /\ wire = {}

-----------------------------------------------------------------------------
(* The database.  A failed Save may have reached CouchDB all the same.     *)

SaveOutcome == {o \in [stored : BOOLEAN, ok : BOOLEAN] :
                  /\ o.ok => o.stored
                  /\ DbFaults \/ o.ok}

Put(o, d, newStatus, newXml) ==
  /\ status' = IF o.stored THEN [status EXCEPT ![d] = newStatus] ELSE status
  /\ aged' = IF o.stored THEN [aged EXCEPT ![d] = FALSE] ELSE aged
  /\ xml' = IF o.stored THEN [xml EXCEPT ![d] = newXml] ELSE xml
  /\ UNCHANGED pair

\* SendingAt grows old in the record; a slow acceptance may still be running.
TenMinutesPass(d) ==
  /\ status[d] = "Sending"
  /\ ~aged[d]
  /\ aged' = [aged EXCEPT ![d] = TRUE]
  /\ UNCHANGED <<status, xml, pair, callVars, pollVars, operatorVars>>

-----------------------------------------------------------------------------
(* The operator.                                                           *)

Report(d, isAcceptance) == feed' = Append(feed, [doc |-> d, acceptance |-> isAcceptance])

\* A note passes several stages before the one that is ours.
EarlyStage(d) ==
  /\ stage[d] \in {"absent", "early"}
  /\ Cardinality({i \in DOMAIN feed : feed[i].doc = d}) \in 0 .. EarlyStages - 1
  /\ stage' = [stage EXCEPT ![d] = "early"]
  /\ Report(d, FALSE)
  /\ UNCHANGED <<executed, wire, dbVars, callVars, pollVars>>

ReachAcceptance(d) ==
  /\ stage[d] \in {"absent", "early"}
  /\ stage' = [stage EXCEPT ![d] = "acceptance"]
  /\ Report(d, TRUE)
  /\ UNCHANGED <<executed, wire, dbVars, callVars, pollVars>>

\* Somebody accepts or rejects the note in the operator's own interface.
DecidedElsewhere(d) ==
  /\ stage[d] = "acceptance"
  /\ stage' = [stage EXCEPT ![d] = "after"]
  /\ Report(d, FALSE)
  /\ UNCHANGED <<executed, wire, dbVars, callVars, pollVars>>

\* ExecuteAction is carried out at most once; its answer may get lost.
ExecuteAction(r) ==
  /\ r \in wire
  /\ wire' = wire \ {r}
  /\ \/ /\ stage[r.doc] = "acceptance"
        /\ stage' = [stage EXCEPT ![r.doc] = "after"]
        /\ executed' = [executed EXCEPT ![r.doc] = r.decision]
        /\ Report(r.doc, FALSE)
        /\ \E answer \in {"executed", "failed"} :
             at' = IF r.by = NoCaller THEN at ELSE [at EXCEPT ![r.by] = answer]
     \/ /\ stage[r.doc] # "acceptance"
        /\ at' = IF r.by = NoCaller THEN at ELSE [at EXCEPT ![r.by] = "failed"]
        /\ UNCHANGED <<stage, executed, feed>>
  /\ UNCHANGED <<dbVars, pollVars, busy, target, choice, copyXml>>

-----------------------------------------------------------------------------
(* EtrnAcceptanceService.AcceptAsync                                       *)

\* Mutant: a second command on the note is let in.
EnterBeside(c, d, decision) ==
  /\ at[c] = "idle"
  /\ busy' = busy \cup {d}
  /\ at' = [at EXCEPT ![c] = "entered"]
  /\ target' = [target EXCEPT ![c] = d]
  /\ choice' = [choice EXCEPT ![c] = decision]
  /\ UNCHANGED <<copyXml, dbVars, pollVars, operatorVars>>

Enter(c, d, decision) ==
  /\ at[c] = "idle"
  /\ d \notin busy
  /\ busy' = busy \cup {d}
  /\ at' = [at EXCEPT ![c] = "entered"]
  /\ target' = [target EXCEPT ![c] = d]
  /\ choice' = [choice EXCEPT ![c] = decision]
  /\ UNCHANGED <<copyXml, dbVars, pollVars, operatorVars>>

Leave(c) ==
  /\ busy' = busy \ {target[c]}
  /\ at' = [at EXCEPT ![c] = "idle"]
  /\ target' = [target EXCEPT ![c] = NoDoc]
  /\ choice' = [choice EXCEPT ![c] = "None"]
  /\ copyXml' = [copyXml EXCEPT ![c] = FALSE]

\* No record, a status other than Waiting, an unknown connection or
\* operator, no certificate, or lines that Decide refuses.
FindRefuses(c) ==
  /\ at[c] = "entered"
  /\ Leave(c)
  /\ UNCHANGED <<dbVars, pollVars, operatorVars>>

Find(c) ==
  /\ at[c] = "entered"
  /\ status[target[c]] = "Waiting"
  /\ at' = [at EXCEPT ![c] = "found"]
  /\ copyXml' = [copyXml EXCEPT ![c] = xml[target[c]]]
  /\ UNCHANGED <<busy, target, choice, dbVars, pollVars, operatorVars>>

SaveSending(c) ==
  /\ at[c] = "found"
  /\ \E o \in SaveOutcome :
       /\ Put(o, target[c], "Sending", copyXml[c])
       /\ \/ /\ o.ok
             /\ at' = [at EXCEPT ![c] = "executing"]
             /\ UNCHANGED <<busy, target, choice, copyXml>>
          \/ /\ ~o.ok
             /\ Leave(c)
  /\ UNCHANGED <<pollVars, operatorVars>>

\* Enclosure, certificate, PrepareAction or signature failed.
GatewayFails(c) ==
  /\ at[c] = "executing"
  /\ at' = [at EXCEPT ![c] = "failed"]
  /\ UNCHANGED <<busy, target, choice, copyXml, dbVars, pollVars, operatorVars>>

SendExecute(c) ==
  /\ at[c] = "executing"
  /\ at' = [at EXCEPT ![c] = "awaiting"]
  /\ wire' = wire \cup {[doc |-> target[c], decision |-> choice[c], by |-> c]}
  /\ UNCHANGED <<busy, target, choice, copyXml, stage, executed, feed, dbVars, pollVars>>

\* Requests whose author gave up stay on their way to the operator.
Orphan(authors) ==
  wire' = {IF r.by \in authors THEN [r EXCEPT !.by = NoCaller] ELSE r : r \in wire}

\* Mutant: a lost answer is taken for success.
ExecuteTimesOutAsDone(c) ==
  /\ at[c] = "awaiting"
  /\ at' = [at EXCEPT ![c] = "executed"]
  /\ Orphan({c})
  /\ UNCHANGED <<busy, target, choice, copyXml, stage, executed, feed, dbVars, pollVars>>

ExecuteTimesOut(c) ==
  /\ at[c] = "awaiting"
  /\ at' = [at EXCEPT ![c] = "failed"]
  /\ Orphan({c})
  /\ UNCHANGED <<busy, target, choice, copyXml, stage, executed, feed, dbVars, pollVars>>

\* The browser gives up: the exception passes both catches, only the gate
\* is left, and the record stays Sending.
Cancel(c) ==
  /\ at[c] \in {"executing", "awaiting"}
  /\ Leave(c)
  /\ Orphan({c})
  /\ UNCHANGED <<stage, executed, feed, dbVars, pollVars>>

SaveSucceeded(c) ==
  /\ at[c] = "executed"
  /\ \E o \in SaveOutcome : Put(o, target[c], choice[c], copyXml[c])
  /\ Leave(c)
  /\ UNCHANGED <<pollVars, operatorVars>>

\* Mutant: the failed acceptance keeps the status it hoped for.
SaveFailedAsDecided(c) ==
  /\ at[c] = "failed"
  /\ \E o \in SaveOutcome : Put(o, target[c], choice[c], copyXml[c])
  /\ Leave(c)
  /\ UNCHANGED <<pollVars, operatorVars>>

SaveFailed(c) ==
  /\ at[c] = "failed"
  /\ \E o \in SaveOutcome : Put(o, target[c], "Waiting", copyXml[c])
  /\ Leave(c)
  /\ UNCHANGED <<pollVars, operatorVars>>

-----------------------------------------------------------------------------
(* EtrnIncomingLoadService.LoadAsync: first ReconcileAsync ...             *)

\* The query of stuck notes returns any ReconcileLimit of them.
StartRound ==
  /\ round \in {"starting", "idle"}
  /\ \E listed \in SUBSET {d \in Docs : status[d] = "Sending" /\ aged[d]} :
       /\ \/ Cardinality(listed) = ReconcileLimit
          \/ /\ Cardinality(listed) < ReconcileLimit
             /\ listed = {d \in Docs : status[d] = "Sending" /\ aged[d]}
          \/ /\ DbFaults
             /\ listed = {}
       /\ stale' = listed
  /\ round' = "reconcile"
  /\ UNCHANGED <<toSave, toClose, cur, draft, from, next, dbVars, callVars, operatorVars>>

\* The operator does not answer, or no longer serves the note's connection.
StageUnknown(d) ==
  /\ round = "reconcile"
  /\ d \in stale
  /\ stale' = stale \ {d}
  /\ UNCHANGED <<round, toSave, toClose, cur, draft, from, next, dbVars, callVars, operatorVars>>

\* EtrnDocumentState.Reconcile: what the stage at the operator says of a stuck
\* note.  Mutants: the stage is stored as it is; any answer closes the note; a
\* note still to be accepted stays as it was.
ReconciledRaw(s) == s
ReconciledClosed(s) == "Closed"
ReconciledSending(s) == IF s = "acceptance" THEN "Sending" ELSE "Closed"
Reconciled(s) == IF s = "acceptance" THEN "Waiting" ELSE "Closed"

\* The listed copy has no rawXml: the query's projection leaves it out.
ReadStage(d) ==
  /\ round = "reconcile"
  /\ d \in stale
  /\ stale' = stale \ {d}
  /\ cur' = d
  /\ draft' = [status |-> Reconciled(stage[d]), xml |-> FALSE]
  /\ round' = "saveReconciled"
  /\ UNCHANGED <<toSave, toClose, from, next, dbVars, callVars, operatorVars>>

SaveReconciled ==
  /\ round = "saveReconciled"
  /\ \E o \in SaveOutcome : Put(o, cur, draft.status, draft.xml)
  /\ cur' = NoDoc
  /\ draft' = NoDraft
  /\ round' = "reconcile"
  /\ UNCHANGED <<stale, toSave, toClose, from, next, callVars, operatorVars>>

-----------------------------------------------------------------------------
(* ... then LoadConnectionAsync.                                           *)

\* A failed read is taken for "no state yet" and starts from an empty pair.
ReadPair ==
  /\ round = "reconcile"
  /\ stale = {}
  /\ \/ from' = pair
     \/ /\ DbFaults
        /\ from' = 0
  /\ round' = "fetch"
  /\ UNCHANGED <<stale, toSave, toClose, cur, draft, next, dbVars, callVars, operatorVars>>

\* No certificate, no operator, an exception, or the page itself not read.
\* Mutant: the error is saved in a fresh record.
FetchFailsAfresh ==
  /\ round = "fetch"
  /\ next' = 0
  /\ round' = "savePair"
  /\ UNCHANGED <<stale, toSave, toClose, cur, draft, from, dbVars, callVars, operatorVars>>

FetchFails ==
  /\ round = "fetch"
  /\ next' = from
  /\ round' = "savePair"
  /\ UNCHANGED <<stale, toSave, toClose, cur, draft, from, dbVars, callVars, operatorVars>>

Smaller(a, b) == IF a < b THEN a ELSE b

\* The page starts with the event of the pair itself.
PageFirst == IF from = 0 THEN 1 ELSE from
PageLast == Smaller(Len(feed), PageFirst + PageSize - 1)

\* Events before stop are processed; stop is the event that was not read.
Processed(stop) == {i \in PageFirst .. PageLast : i < stop}

\* EtrnPollPage.Advance: the event that was not read becomes the pair.
\* Mutants: the pair is that of the page's first event; the pair goes to the end
\* of the page all the same.
AdvanceToFirst(stop) == IF PageFirst > PageLast THEN from ELSE PageFirst
AdvanceToEnd(stop) == IF PageFirst > PageLast THEN from ELSE PageLast
Advance(stop) ==
  IF PageFirst > PageLast THEN from ELSE Smaller(stop, PageLast)

FetchUpTo(stop) ==
  /\ round = "fetch"
  /\ \A i \in Processed(stop) : feed[i].acceptance => feed[i].doc \notin Unparsable
  /\ toSave' = {feed[i].doc : i \in {j \in Processed(stop) : feed[j].acceptance}}
  /\ toClose' = {feed[i].doc : i \in {j \in Processed(stop) : ~feed[j].acceptance}}
  /\ stop <= PageLast => feed[stop].acceptance
  /\ \/ next' = Advance(stop)
     \/ /\ stop <= PageLast
        /\ feed[stop].doc \in Unparsable
        /\ next' = from
  /\ round' = "documents"
  /\ UNCHANGED <<stale, cur, draft, from, dbVars, callVars, operatorVars>>

Fetch == \E stop \in PageFirst .. PageLast + 1 : FetchUpTo(stop)

\* The polling writes a new note or refreshes one that waits.
Undecided(s) == s \in {"None", "Waiting"}

\* Not read, already decided or being sent.
SkipDocument(d) ==
  /\ round = "documents"
  /\ d \in toSave
  /\ DbFaults \/ ~Undecided(status[d])
  /\ toSave' = toSave \ {d}
  /\ UNCHANGED <<round, stale, toClose, cur, draft, from, next, dbVars, callVars, operatorVars>>

FindDocument(d) ==
  /\ round = "documents"
  /\ d \in toSave
  /\ Undecided(status[d])
  /\ toSave' = toSave \ {d}
  /\ cur' = d
  /\ draft' = [status |-> "Waiting", xml |-> TRUE]
  /\ round' = "saveDocument"
  /\ UNCHANGED <<stale, toClose, from, next, dbVars, callVars, operatorVars>>

SaveDocument ==
  /\ round = "saveDocument"
  /\ \E o \in SaveOutcome : Put(o, cur, draft.status, draft.xml)
  /\ cur' = NoDoc
  /\ draft' = NoDraft
  /\ round' = "documents"
  /\ UNCHANGED <<stale, toSave, toClose, from, next, callVars, operatorVars>>

DocumentsDone ==
  /\ round = "documents"
  /\ toSave = {}
  /\ round' = "closed"
  /\ UNCHANGED <<stale, toSave, toClose, cur, draft, from, next, dbVars, callVars, operatorVars>>

SkipClosed(d) ==
  /\ round = "closed"
  /\ d \in toClose
  /\ DbFaults \/ status[d] \notin {"Waiting", "Sending"}
  /\ toClose' = toClose \ {d}
  /\ UNCHANGED <<round, stale, toSave, cur, draft, from, next, dbVars, callVars, operatorVars>>

FindClosed(d) ==
  /\ round = "closed"
  /\ d \in toClose
  /\ status[d] \in {"Waiting", "Sending"}
  /\ toClose' = toClose \ {d}
  /\ cur' = d
  /\ draft' = [status |-> "Closed", xml |-> xml[d]]
  /\ round' = "saveClosed"
  /\ UNCHANGED <<stale, toSave, from, next, dbVars, callVars, operatorVars>>

SaveClosed ==
  /\ round = "saveClosed"
  /\ \E o \in SaveOutcome : Put(o, cur, draft.status, draft.xml)
  /\ cur' = NoDoc
  /\ draft' = NoDraft
  /\ round' = "closed"
  /\ UNCHANGED <<stale, toSave, toClose, from, next, callVars, operatorVars>>

ClosedDone ==
  /\ round = "closed"
  /\ toClose = {}
  /\ round' = "savePair"
  /\ UNCHANGED <<stale, toSave, toClose, cur, draft, from, next, dbVars, callVars, operatorVars>>

\* The pair is saved whatever became of the documents.
SavePair ==
  /\ round = "savePair"
  /\ \E o \in SaveOutcome : pair' = IF o.stored THEN next ELSE pair
  /\ round' = "idle"
  /\ from' = 0
  /\ next' = 0
  /\ UNCHANGED <<stale, toSave, toClose, cur, draft, status, aged, xml, callVars, operatorVars>>

-----------------------------------------------------------------------------
\* The WebApi process dies: every request, the gate and the round are gone, and
\* the worker waits out its start delay again.
Restart ==
  /\ busy' = {}
  /\ at' = [c \in Callers |-> "idle"]
  /\ target' = [c \in Callers |-> NoDoc]
  /\ choice' = [c \in Callers |-> "None"]
  /\ copyXml' = [c \in Callers |-> FALSE]
  /\ round' = "starting"
  /\ stale' = {} /\ toSave' = {} /\ toClose' = {}
  /\ cur' = NoDoc
  /\ draft' = NoDraft
  /\ from' = 0 /\ next' = 0
  /\ Orphan(Callers)
  /\ UNCHANGED <<stage, executed, feed, dbVars>>

CallerNext(c) ==
  \/ \E d \in Docs, decision \in Decision : Enter(c, d, decision)
  \/ FindRefuses(c) \/ Find(c)
  \/ SaveSending(c)
  \/ GatewayFails(c) \/ SendExecute(c)
  \/ ExecuteTimesOut(c) \/ Cancel(c)
  \/ SaveSucceeded(c) \/ SaveFailed(c)

PollNext ==
  \/ StartRound
  \/ \E d \in Docs : StageUnknown(d) \/ ReadStage(d)
  \/ SaveReconciled
  \/ ReadPair \/ FetchFails \/ Fetch
  \/ \E d \in Docs : SkipDocument(d) \/ FindDocument(d)
  \/ SaveDocument \/ DocumentsDone
  \/ \E d \in Docs : SkipClosed(d) \/ FindClosed(d)
  \/ SaveClosed \/ ClosedDone
  \/ SavePair

OperatorNext ==
  \/ \E d \in Docs : EarlyStage(d) \/ ReachAcceptance(d) \/ DecidedElsewhere(d)
  \/ \E r \in wire : ExecuteAction(r)

Next ==
  \/ \E c \in Callers : CallerNext(c)
  \/ PollNext
  \/ OperatorNext
  \/ \E d \in Docs : TenMinutesPass(d)
  \/ Restart

Spec == Init /\ [][Next]_vars

-----------------------------------------------------------------------------
(* Fairness.  The worker is a loop that never ends, requests time out and  *)
(* the clock goes on (weak fairness); the operator answers again and again *)
(* (strong fairness); and the process is not restarted for ever.           *)
Fairness ==
  /\ WF_vars(PollNext)
  /\ \A c \in Callers : WF_vars(CallerNext(c) /\ at[c] # "idle")
  /\ \A d \in Docs : WF_vars(TenMinutesPass(d)) /\ SF_vars(ReadStage(d))
  /\ SF_vars(FetchUpTo(PageLast + 1))
  /\ <>[](round # "starting")

FairSpec == Spec /\ Fairness

-----------------------------------------------------------------------------
(* What the exchange promises.                                             *)

\* A note shown as accepted or rejected was executed by the operator with
\* exactly that decision, whatever was lost, retried, cancelled or restarted.
DecisionsAreExecuted ==
  \A d \in Docs : status[d] \in Decision => executed[d] = status[d]

\* A note is closed for good (it refuses every later command) only when its
\* acceptance stage is over at the operator.  Asserted by no run: the feed may
\* report a stage before acceptance on the same page, see ClosedMeansLeftOrTold.
ClosedMeansLeft ==
  \A d \in Docs : status[d] = "Closed" => stage[d] = "after"

\* Every event behind the saved pair has had its effect: the polling never
\* asks for it again.
NothingLostBehindPair ==
  \A i \in DOMAIN feed :
    i < pair /\ feed[i].acceptance => status[feed[i].doc] # "None"

\* "The polling overwrites neither a decided note nor one being sent":
\* the comment above the check in LoadConnectionAsync.
PollKeepsDecided ==
  [][\A d \in Docs :
       round = "saveDocument" /\ round' = "documents" /\ status[d] \in Final \cup {"Sending"}
         => status'[d] = status[d]]_vars

\* Nobody else takes a decision back: no second command, no late answer, no
\* failed save and no restart undoes what another command has stored.
OnlyPollTakesBack ==
  [][\A d \in Docs :
       status[d] \in Decision /\ status'[d] # status[d]
         => cur = d /\ round \in {"saveReconciled", "saveDocument", "saveClosed"}]_vars

\* The poll position goes back only at the end of a round that could not read it
\* and began with an empty one: no failed login, partial page, unparsable title,
\* lost Save or restart makes the worker ask again for what it has passed over.
OnlyUnreadPairGoesBack == [][pair' < pair => round = "savePair" /\ from = 0]_vars

\* As long as the database answers, the position never goes back at all.
PairMovesForward == [][pair' >= pair]_vars

\* A note that waits for acceptance keeps the sender's title.  Asserted by no
\* run: the projection of the stuck notes loses it.
WaitingKeepsTitle ==
  \A d \in Docs : status[d] = "Waiting" => xml[d]

\* No note stays "being sent" for ever, whoever was interrupted.
SendingResolves ==
  \A d \in Docs : status[d] = "Sending" ~> status[d] # "Sending"

\* A note that reached the acceptance stage reaches the interface, however many
\* pages of other events lie between.
AcceptanceReachesCentral ==
  \A d \in Docs : stage[d] = "acceptance" ~> status[d] # "None"

-----------------------------------------------------------------------------
(* The inductive invariant behind DecisionsAreExecuted                     *)

Reached(d) == stage[d] \in {"acceptance", "after"}

\* A request that entered the gate carries its document and its decision.
CallersAreBound ==
  \A c \in Callers : at[c] # "idle" => target[c] \in Docs /\ choice[c] \in Decision

\* An awaited answer finds its caller still holding the same command.
RequestsAreAwaited ==
  \A r \in wire : r.by # NoCaller =>
    at[r.by] = "awaiting" /\ target[r.by] = r.doc /\ choice[r.by] = r.decision

\* A caller about to save a decision was told that the operator executed it.
SuccessIsTrue ==
  \A c \in Callers : at[c] = "executed" => executed[target[c]] = choice[c]

\* The operator executes a decision by leaving the acceptance stage.
ExecutedMeansLeft == \A d \in Docs : executed[d] # "None" => stage[d] = "after"

\* The worker never writes a decision, and knows which document it writes with what.
DraftIsUndecided ==
  /\ draft.status \notin Decision
  /\ round \in {"saveReconciled", "saveDocument", "saveClosed"} => cur \in Docs /\ draft.status # "None"

DecisionInv ==
  /\ TypeOK
  /\ CallersAreBound
  /\ RequestsAreAwaited
  /\ SuccessIsTrue
  /\ ExecutedMeansLeft
  /\ DraftIsUndecided
  /\ DecisionsAreExecuted

-----------------------------------------------------------------------------
(* The inductive invariant behind OnlyPollTakesBack: the gate lets one      *)
(* command in, and what that command has read is not decided beside it.     *)

GateIsHeld == \A c \in Callers : at[c] # "idle" => target[c] \in busy

OneCommandPerNote ==
  \A c, e \in Callers : c # e /\ at[c] # "idle" /\ at[e] # "idle" => target[c] # target[e]

HeldIsUndecided ==
  \A c \in Callers : at[c] \notin {"idle", "entered"} => status[target[c]] \notin Decision

GateInv == DecisionInv /\ GateIsHeld /\ OneCommandPerNote /\ HeldIsUndecided

-----------------------------------------------------------------------------
(* The inductive invariant behind ClosedMeansLeftOrTold                    *)

\* A note Central knows, or is about to write, has reached acceptance.
KnownMeansReached ==
  /\ \A d \in Docs : status[d] # "None" => Reached(d)
  /\ \A c \in Callers : at[c] \notin {"idle", "entered"} => Reached(target[c])
  /\ \A d \in stale \cup toSave : Reached(d)
  /\ cur \in Docs => Reached(cur)

\* The stages a note may have had since an event of its kind.
Told(isAcceptance) ==
  IF isAcceptance THEN {"acceptance", "after"} ELSE {"early", "acceptance", "after"}

\* An event of another kind that no reader can tell from the end of the stage.
ToldEarly(d) ==
  \E i \in DOMAIN feed :
    /\ feed[i].doc = d /\ ~feed[i].acceptance
    /\ \A j \in 1 .. i : feed[j].doc = d => ~feed[j].acceptance

MayClose(d) == stage[d] = "after" \/ ToldEarly(d)

\* What closes a note: an event other than acceptance, or its stage.
FeedTellsStage ==
  /\ \A i \in DOMAIN feed, d \in Docs :
       feed[i].doc = d => /\ stage[d] \in Told(feed[i].acceptance)
                          /\ feed[i].acceptance \/ MayClose(d)
  /\ \A d \in toClose : MayClose(d)
  /\ \A d \in Docs : draft.status = "Closed" /\ cur = d => MayClose(d)

\* A note is closed for good only after its acceptance stage, or when the feed told
\* of it before that stage: the end of an earlier stage on the page that brings the
\* note closes it as well.  A late or lost answer, a stuck Sending, a stale copy or a
\* restart closes no other note that is still to be accepted.
ClosedMeansLeftOrTold ==
  \A d \in Docs : status[d] = "Closed" => MayClose(d)

ClosedInv == TypeOK /\ DraftIsUndecided /\ CallersAreBound
             /\ KnownMeansReached /\ FeedTellsStage /\ ClosedMeansLeftOrTold

\* A note at its acceptance stage, or past it, was reported so.
ReachedIsReported ==
  \A d \in Docs : Reached(d) => \E i \in DOMAIN feed : feed[i].doc = d /\ feed[i].acceptance

\* An operator that reports no early stage tells of acceptance first.
AcceptanceComesFirst == \A d \in Docs : stage[d] # "early" /\ ~ToldEarly(d)

-----------------------------------------------------------------------------
(* The inductive invariant behind NothingLostBehindPair: what the new pair *)
(* passes over is known or about to be, as long as no round lets go of a   *)
(* note it could not read or store.                                        *)

Known(d) == status[d] # "None"
Saving == toSave \cup (IF round = "saveDocument" THEN {cur} ELSE {})

\* The round hands on every note it fetched until Central knows it; a restart
\* drops the round and its pair with it.
LetsGoOfKnown ==
  round \in {"documents", "saveDocument"} /\ round' # "starting"
    => \A d \in Saving : d \in Saving' \/ status'[d] # "None"
KnownNotesAreLetGo == [][LetsGoOfKnown]_vars

\* The events before n are known, but for those of the notes in coming.
KnownBefore(n, coming) ==
  \A i \in DOMAIN feed :
    i < n /\ feed[i].acceptance => Known(feed[i].doc) \/ feed[i].doc \in coming

\* The round works on the saved pair, or on none when that could not be read.
RoundKnowsPair ==
  round \notin {"starting", "idle", "reconcile", "saveReconciled"} =>
    from = pair \/ (DbFaults /\ from = 0)

PairIsCurrent == pair <= Len(feed) /\ RoundKnowsPair

\* The next pair is not behind the one the round started from.
NextIsForward ==
  round \notin {"starting", "idle", "reconcile", "saveReconciled", "fetch"} => from <= next

NextIsCovered ==
  /\ round \in {"documents", "saveDocument"} => next <= Len(feed) /\ KnownBefore(next, Saving)
  /\ round \in {"closed", "saveClosed", "savePair"} => next <= Len(feed) /\ KnownBefore(next, {})

FeedInv == DecisionInv /\ NothingLostBehindPair /\ PairIsCurrent /\ NextIsForward /\ NextIsCovered
=============================================================================
