---------------------------- MODULE VetisIncoming ----------------------------
(***************************************************************************)
(* The journal of incoming veterinary documents of one enterprise.  Three  *)
(* writers share its records and none holds a lock over Find and Save:     *)
(*  - the worker, which first takes foreign transports out of the journal  *)
(*    (VetisIncomingTransportSweep) and then loads the changes Mercury     *)
(*    lists since the cursor (VetisIncomingLoadService);                   *)
(*  - quench commands, of a user or of the automatic quencher, at most one *)
(*    per document (VetisIncomingQuenchService).                           *)
(* A record is the documents (VSD) of one waybill.  It is absent from the  *)
(* database exactly when it holds none, and what Refresh derives from its  *)
(* VSDs is left out.  Save writes the whole record whatever lies there.    *)
(***************************************************************************)
EXTENDS Naturals, FiniteSets

CONSTANTS
  Vsds,         \* veterinary documents in Mercury
  Docs,         \* waybills, the records of the journal
  NoDoc,        \* not a member of Docs
  NoVsd,        \* not a member of Vsds
  Foreign,      \* VSDs that transport goods of another enterprise
  Quenchers,    \* quench commands running at a time
  PageSize,     \* VSDs on a page of Mercury's list
  MaxChanges,   \* bound: the changes Mercury makes
  DbFaults,     \* may CouchDB fail?
  Restarts,     \* may the process stop?
  QuietRounds   \* does Mercury stand still while a list of several pages is read?

Status == {"CONFIRMED", "UTILIZED", "WITHDRAWN"}
Version == [home : Docs, status : Status, at : 0 .. MaxChanges]

ASSUME VetisAssumption ==
  /\ NoDoc \notin Docs /\ NoVsd \notin Vsds \cup Version
  /\ Foreign \subseteq Vsds
  /\ PageSize \in Nat \ {0} /\ MaxChanges \in Nat
  /\ DbFaults \in BOOLEAN /\ Restarts \in BOOLEAN /\ QuietRounds \in BOOLEAN

VARIABLES
  mercury,   \* [Vsds -> [home, status, at]]: at is the update date, 0 before the issue
  now,       \* the last update date
  late,      \* VSDs with an application whose author no longer waits
  db,        \* [Docs -> [Vsds -> local status or "none"]]
  cursor,    \* enterprise.IncomingFrom
  swept,     \* _transportDone
  step,      \* where the worker is
  until,     \* the end of the window
  offset, page, last,   \* the page: its offset, its VSDs, is it the last one?
  latest,    \* latestUpdate
  todo,      \* records still to be visited
  target, copy,         \* the record found and its content
  kept, uuids,          \* keep and uuids of SaveDocumentsAsync
  stage,     \* [Quenchers -> where the command is]
  doc,       \* [Quenchers -> documentId]
  left,      \* [Quenchers -> VSDs of the first copy not handled yet]
  vsd,       \* [Quenchers -> the VSD being quenched]
  mine,      \* [Quenchers -> the fresh copy]
  failed     \* [Quenchers -> has a VSD failed?]

outside == <<mercury, now, late>>
paging == <<until, offset, page, last, latest>>
visiting == <<todo, target, copy, kept, uuids>>
worker == <<swept, step, paging, visiting>>
command == <<stage, doc, left, vsd, mine, failed>>
vars == <<outside, db, cursor, worker, command>>

Content == [Vsds -> Status \cup {"none"}]
Empty == [v \in Vsds |-> "none"]
Unlisted == [v \in Vsds |-> NoVsd]

TypeOK ==
  /\ mercury \in [Vsds -> Version]
  /\ now \in 0 .. MaxChanges /\ cursor \in 0 .. MaxChanges
  /\ late \subseteq Vsds
  /\ db \in [Docs -> Content]
  /\ swept \in BOOLEAN /\ last \in BOOLEAN
  /\ step \in {"idle", "sweep", "sweepSave", "page", "group", "save", "ids",
               "release", "drop", "turn", "shift"}
  /\ until \in 0 .. MaxChanges /\ latest \in 0 .. MaxChanges
  /\ offset \in Nat
  /\ page \in [Vsds -> Version \cup {NoVsd}]
  /\ todo \subseteq Docs /\ kept \subseteq Docs /\ uuids \subseteq Vsds
  /\ target \in Docs \cup {NoDoc}
  /\ copy \in Content
  /\ stage \in [Quenchers -> {"idle", "work", "sent", "done", "already",
                              "storing", "remember", "remembering"}]
  /\ doc \in [Quenchers -> Docs \cup {NoDoc}]
  /\ left \in [Quenchers -> SUBSET Vsds]
  /\ vsd \in [Quenchers -> Vsds \cup {NoVsd}]
  /\ mine \in [Quenchers -> Content]
  /\ failed \in [Quenchers -> BOOLEAN]

Init ==
  /\ mercury \in [Vsds -> {[home |-> d, status |-> "CONFIRMED", at |-> 0] : d \in Docs}]
  /\ now = 0 /\ late = {} /\ cursor = 0
  \* Foreign transports of an earlier version of the program lie in the journal.
  /\ db = [d \in Docs |-> [v \in Vsds |->
             IF v \in Foreign /\ mercury[v].home = d THEN "CONFIRMED" ELSE "none"]]
  /\ swept = FALSE /\ step = "idle"
  /\ until = 0 /\ offset = 0 /\ page = Unlisted /\ last = FALSE /\ latest = 0
  /\ todo = {} /\ target = NoDoc /\ copy = Empty /\ kept = {} /\ uuids = {}
  /\ stage = [q \in Quenchers |-> "idle"]
  /\ doc = [q \in Quenchers |-> NoDoc]
  /\ left = [q \in Quenchers |-> {}]
  /\ vsd = [q \in Quenchers |-> NoVsd]
  /\ mine = [q \in Quenchers |-> Empty]
  /\ failed = [q \in Quenchers |-> FALSE]

-----------------------------------------------------------------------------
(* The record                                                              *)

Members(content) == {v \in Vsds : content[v] # "none"}
Merge(content, own) ==
  [v \in Vsds |-> IF v \in own THEN page[v].status ELSE content[v]]
\* Mutant: the entry is blanked instead of removed.
DropBlank(content, gone) == [v \in Vsds |-> IF v \in gone THEN "" ELSE content[v]]

Drop(content, gone) == [v \in Vsds |-> IF v \in gone THEN "none" ELSE content[v]]

\* Save is a read of the revision and a write: the record found there is
\* overwritten.  It may also fail after the write.
Put(d, content) == db' = [db EXCEPT ![d] = content]

-----------------------------------------------------------------------------
(* Mercury                                                                 *)

\* Mercury lists the changes of the window, oldest first.
Listed == {v \in Vsds : mercury[v].at # 0 /\ mercury[v].at \in cursor .. until}

Change(v, version) ==
  /\ now < MaxChanges
  /\ now' = now + 1
  /\ mercury' = [mercury EXCEPT ![v] = [version EXCEPT !.at = now + 1]]

Elsewhere(v) ==
  /\ QuietRounds => step \in {"idle", "sweep", "sweepSave"} \/ Cardinality(Listed) <= PageSize
  /\ \/ mercury[v].at = 0 /\ Change(v, mercury[v])
     \/ /\ mercury[v].at # 0
        /\ \/ \E d \in Docs \ {mercury[v].home} : Change(v, [mercury[v] EXCEPT !.home = d])
           \/ /\ mercury[v].status = "CONFIRMED"
              /\ \E s \in {"UTILIZED", "WITHDRAWN"} : Change(v, [mercury[v] EXCEPT !.status = s])
  /\ UNCHANGED <<late, db, cursor, worker, command>>

\* An application is processed: only a confirmed VSD can be quenched.
Quench(v) ==
  IF mercury[v].status = "CONFIRMED"
  THEN Change(v, [mercury[v] EXCEPT !.status = "UTILIZED"])
  ELSE UNCHANGED <<mercury, now>>

ProcessLate(v) ==
  /\ v \in late
  /\ Quench(v)
  /\ late' = late \ {v}
  /\ UNCHANGED <<db, cursor, worker, command>>

-----------------------------------------------------------------------------
(* The worker: every failure ends the round, the next one starts anew      *)

Halt ==
  /\ step' = "idle"
  /\ todo' = {} /\ target' = NoDoc /\ copy' = Empty
  /\ kept' = {} /\ uuids' = {}
  /\ until' = 0 /\ offset' = 0 /\ page' = Unlisted /\ last' = FALSE /\ latest' = 0

Visit(next) ==
  /\ step' = next
  /\ todo' = todo \ {target}
  /\ target' = NoDoc
  /\ copy' = Empty

\* Mutant: a page that was not stored counts as read.
FailsAndShifts ==
  /\ step = "group" /\ DbFaults
  /\ Visit("turn")
  /\ UNCHANGED <<outside, db, cursor, swept, paging, kept, uuids, command>>

WorkerFails ==
  /\ step # "idle"
  /\ step = "page" \/ DbFaults
  /\ Halt
  /\ UNCHANGED <<outside, db, cursor, swept, command>>

\* The write was made, its answer was lost.
StoredButFails(d, content) ==
  /\ DbFaults
  /\ Put(d, content)
  /\ Halt
  /\ UNCHANGED <<outside, cursor, swept, command>>

SweepList ==
  /\ step = "idle" /\ ~swept
  /\ step' = "sweep"
  /\ todo' = {d \in Docs : db[d] # Empty}
  /\ UNCHANGED <<outside, db, cursor, swept, paging, target, copy, kept, uuids, command>>

SweepFind(d) ==
  /\ step = "sweep" /\ d \in todo
  /\ IF Members(db[d]) \cap Foreign = {}
     THEN todo' = todo \ {d} /\ UNCHANGED <<step, target, copy>>
     ELSE step' = "sweepSave" /\ target' = d /\ copy' = db[d] /\ UNCHANGED todo
  /\ UNCHANGED <<outside, db, cursor, swept, paging, kept, uuids, command>>

SweepSave ==
  /\ step = "sweepSave"
  /\ \/ /\ Put(target, Drop(copy, Foreign))
        /\ Visit("sweep")
        /\ UNCHANGED <<outside, cursor, swept, paging, kept, uuids, command>>
     \/ StoredButFails(target, Drop(copy, Foreign))

SweepDone ==
  /\ step = "sweep" /\ todo = {}
  /\ swept' = TRUE
  /\ step' = "idle"
  /\ UNCHANGED <<outside, db, cursor, paging, visiting, command>>

StartRound ==
  /\ step = "idle" /\ swept
  /\ step' = "page"
  /\ until' = now
  /\ UNCHANGED <<outside, db, cursor, swept, offset, page, last, latest, visiting, command>>

Rank(v) == Cardinality({u \in Listed : mercury[u].at < mercury[v].at})
Shown == {v \in Listed : Rank(v) \in offset .. (offset + PageSize - 1)}

\* Mutant: foreign transports stay in the answer.
ReadPageUnfiltered ==
  /\ step = "page"
  /\ page' = [v \in Vsds |-> IF v \in Shown THEN mercury[v] ELSE NoVsd]
  /\ last' = (Cardinality(Shown) < PageSize)
  /\ todo' = {mercury[v].home : v \in Shown}
  /\ step' = IF Shown = {} THEN "turn" ELSE "group"
  /\ UNCHANGED <<outside, db, cursor, swept, until, offset, latest, target, copy, kept, uuids, command>>

\* Mutant: the page is counted without the transports left out of it.
ReadPageCountsOwn ==
  /\ step = "page"
  /\ page' = [v \in Vsds |-> IF v \in Shown \ Foreign THEN mercury[v] ELSE NoVsd]
  /\ last' = (Cardinality(Shown \ Foreign) < PageSize)
  /\ todo' = {mercury[v].home : v \in Shown \ Foreign}
  /\ step' = IF Shown \subseteq Foreign THEN "turn" ELSE "group"
  /\ UNCHANGED <<outside, db, cursor, swept, until, offset, latest, target, copy, kept, uuids, command>>

\* The reader of the answer leaves foreign transports out, the page is counted with them.
ReadPage ==
  /\ step = "page"
  /\ page' = [v \in Vsds |-> IF v \in Shown \ Foreign THEN mercury[v] ELSE NoVsd]
  /\ last' = (Cardinality(Shown) < PageSize)
  /\ todo' = {mercury[v].home : v \in Shown \ Foreign}
  /\ step' = IF Shown \subseteq Foreign THEN "turn" ELSE "group"
  /\ UNCHANGED <<outside, db, cursor, swept, until, offset, latest, target, copy, kept, uuids, command>>

OnPage == {v \in Vsds : page[v] # NoVsd}

FindTarget(d) ==
  /\ step = "group" /\ d \in todo
  /\ step' = "save" /\ target' = d /\ copy' = db[d]
  /\ UNCHANGED <<outside, db, cursor, swept, paging, todo, kept, uuids, command>>

Own == {v \in OnPage : page[v].home = target}

\* Mutant: what the page shows in another record stays in this one.
MergedOnly == Merge(copy, Own)

Merged == Drop(Merge(copy, Own), OnPage \ Own)

SaveTarget ==
  /\ step = "save"
  /\ \/ /\ Put(target, Merged)
        /\ Visit(IF todo = {target} THEN "ids" ELSE "group")
        /\ kept' = kept \cup {target}
        /\ uuids' = uuids \cup Members(Merged)
        /\ UNCHANGED <<outside, cursor, swept, paging, command>>
     \/ StoredButFails(target, Merged)

\* Release: first all ids, then every other record gives the page's VSDs up.
ListIds ==
  /\ step = "ids"
  /\ step' = "release"
  /\ todo' = {d \in Docs : db[d] # Empty} \ kept
  /\ UNCHANGED <<outside, db, cursor, swept, paging, target, copy, kept, uuids, command>>

FindOther(d) ==
  /\ step = "release" /\ d \in todo
  /\ IF Members(db[d]) \cap uuids = {}
     THEN todo' = todo \ {d} /\ UNCHANGED <<step, target, copy>>
     ELSE step' = "drop" /\ target' = d /\ copy' = db[d] /\ UNCHANGED todo
  /\ UNCHANGED <<outside, db, cursor, swept, paging, kept, uuids, command>>

DropFromOther ==
  /\ step = "drop"
  /\ \/ /\ Put(target, Drop(copy, uuids))
        /\ Visit("release")
        /\ UNCHANGED <<outside, cursor, swept, paging, kept, uuids, command>>
     \/ StoredButFails(target, Drop(copy, uuids))

Released ==
  /\ step = "release" /\ todo = {}
  /\ step' = "turn"
  /\ kept' = {} /\ uuids' = {}
  /\ UNCHANGED <<outside, db, cursor, swept, paging, todo, target, copy, command>>

TurnPage ==
  /\ step = "turn"
  /\ latest' \in {latest} \cup {page[v].at : v \in OnPage}
  /\ latest' >= latest /\ \A v \in OnPage : latest' >= page[v].at
  /\ page' = Unlisted /\ last' = FALSE
  /\ IF last THEN step' = "shift" /\ UNCHANGED offset
             ELSE step' = "page" /\ offset' = offset + PageSize
  /\ UNCHANGED <<outside, db, cursor, swept, until, visiting, command>>

NextFrom == IF latest # 0 THEN latest ELSE until

\* A failed Update of the organisation is only logged.
ShiftCursor ==
  /\ step = "shift"
  /\ cursor' \in {NextFrom} \cup (IF DbFaults THEN {cursor} ELSE {})
  /\ Halt
  /\ UNCHANGED <<outside, db, swept, command>>

-----------------------------------------------------------------------------
(* A quench command                                                        *)

CanQuench(status) == status = "CONFIRMED"

Set(q, next) == stage' = [stage EXCEPT ![q] = next]
TakeUp(q, v) == vsd' = [vsd EXCEPT ![q] = v]
Copy(q, content) == mine' = [mine EXCEPT ![q] = content]
Note(q) == failed' = [failed EXCEPT ![q] = TRUE]

\* The gate of the document is left and the progress is cleared.
Exit(q) ==
  /\ Set(q, "idle")
  /\ doc' = [doc EXCEPT ![q] = NoDoc]
  /\ left' = [left EXCEPT ![q] = {}]
  /\ TakeUp(q, NoVsd)
  /\ Copy(q, Empty)
  /\ failed' = [failed EXCEPT ![q] = FALSE]

\* TryEnter does not wait: a second command on the document is refused.
Enter(q, d, only) ==
  /\ stage[q] = "idle"
  /\ \A other \in Quenchers : doc[other] # d
  /\ \E v \in only : CanQuench(db[d][v])
  /\ Set(q, "work")
  /\ doc' = [doc EXCEPT ![q] = d]
  /\ left' = [left EXCEPT ![q] = {v \in only : CanQuench(db[d][v])}]
  /\ UNCHANGED <<outside, db, cursor, worker, vsd, mine, failed>>

\* No vehicle number, no volume, a wrong fact: nothing is sent.
NotSent(q, v) ==
  /\ stage[q] = "work" /\ v \in left[q]
  /\ left' = [left EXCEPT ![q] = @ \ {v}]
  /\ Note(q)
  /\ UNCHANGED <<outside, db, cursor, worker, stage, doc, vsd, mine>>

Submit(q, v) ==
  /\ stage[q] = "work" /\ v \in left[q]
  /\ left' = [left EXCEPT ![q] = @ \ {v}]
  /\ TakeUp(q, v)
  /\ Set(q, "sent")
  /\ UNCHANGED <<outside, db, cursor, worker, doc, mine, failed>>

\* Mutant: a VSD that was quenched before is an error like any other.
ProcessUnaware(q) ==
  /\ stage[q] = "sent"
  /\ CanQuench(mercury[vsd[q]].status)
  /\ Quench(vsd[q])
  /\ Set(q, "done")
  /\ UNCHANGED <<late, db, cursor, worker, doc, left, vsd, mine, failed>>

Process(q) ==
  /\ stage[q] = "sent"
  /\ Quench(vsd[q])
  /\ Set(q, IF CanQuench(mercury[vsd[q]].status) THEN "done" ELSE "already")
  /\ UNCHANGED <<late, db, cursor, worker, doc, left, vsd, mine, failed>>

\* Mutant: an application without an answer is taken for an accepted one.
UnansweredIsDone(q) ==
  /\ stage[q] = "sent"
  /\ Set(q, "already")
  /\ UNCHANGED <<outside, db, cursor, worker, doc, left, vsd, mine, failed>>

\* Refused, or no answer in time: an application still in Mercury's queue may
\* be processed later.
Unanswered(q) ==
  /\ stage[q] \in {"sent", "done", "already"}
  /\ late' \in {late} \cup (IF stage[q] = "sent" THEN {late \cup {vsd[q]}} ELSE {})
  /\ Set(q, "work")
  /\ TakeUp(q, NoVsd)
  /\ Note(q)
  /\ UNCHANGED <<mercury, now, db, cursor, worker, doc, left, mine>>

\* The request of the user is cancelled, between two VSDs or at Mercury.
CancelCommand(q) ==
  /\ stage[q] \in {"work", "sent", "done", "already"}
  /\ late' \in {late} \cup (IF stage[q] = "sent" THEN {late \cup {vsd[q]}} ELSE {})
  /\ Exit(q)
  /\ UNCHANGED <<mercury, now, db, cursor, worker>>

StoreMissing(q) ==
  /\ stage[q] \in {"done", "already"}
  /\ db[doc[q]][vsd[q]] = "none"
  /\ Set(q, "work")
  /\ TakeUp(q, NoVsd)
  /\ Note(q)
  /\ UNCHANGED <<outside, db, cursor, worker, doc, left, mine>>

StoreFind(q) ==
  /\ stage[q] \in {"done", "already"}
  /\ db[doc[q]][vsd[q]] # "none"
  /\ Copy(q, db[doc[q]])
  /\ Set(q, "storing")
  /\ UNCHANGED <<outside, db, cursor, worker, doc, left, vsd, failed>>

StoreSave(q) ==
  /\ stage[q] = "storing"
  /\ Put(doc[q], [mine[q] EXCEPT ![vsd[q]] = "UTILIZED"])
  /\ \/ /\ Set(q, "work")
        /\ TakeUp(q, NoVsd)
        /\ Copy(q, Empty)
        /\ UNCHANGED <<doc, left, failed>>
     \/ DbFaults /\ Exit(q)
  /\ UNCHANGED <<outside, cursor, worker>>

\* Find or Save failed: the command ends without RememberErrors.
StoreFails(q) ==
  /\ DbFaults
  /\ stage[q] \in {"done", "already", "storing"}
  /\ Exit(q)
  /\ UNCHANGED <<outside, db, cursor, worker>>

\* RememberErrors writes the texts into a fresh copy, when there are new ones.
RememberErrors(q) ==
  /\ stage[q] = "work" /\ left[q] = {} /\ failed[q]
  /\ db[doc[q]] # Empty
  /\ Set(q, "remembering")
  /\ Copy(q, db[doc[q]])
  /\ UNCHANGED <<outside, db, cursor, worker, doc, left, vsd, failed>>

SaveErrors(q) ==
  /\ stage[q] = "remembering"
  /\ Put(doc[q], mine[q])
  /\ Exit(q)
  /\ UNCHANGED <<outside, cursor, worker>>

\* No error to remember, no new text, or the record could not be read or saved.
Report(q) ==
  /\ \/ stage[q] = "work" /\ left[q] = {}
     \/ stage[q] = "remembering" /\ DbFaults
  /\ Exit(q)
  /\ UNCHANGED <<outside, db, cursor, worker>>

-----------------------------------------------------------------------------
\* The process stops and starts: the worker sweeps anew, commands are gone.
Restart ==
  /\ Restarts
  /\ Halt
  /\ swept' = FALSE
  /\ late' \in {late, late \cup {vsd[q] : q \in {p \in Quenchers : stage[p] = "sent"}}}
  /\ stage' = [q \in Quenchers |-> "idle"]
  /\ doc' = [q \in Quenchers |-> NoDoc]
  /\ left' = [q \in Quenchers |-> {}]
  /\ vsd' = [q \in Quenchers |-> NoVsd]
  /\ mine' = [q \in Quenchers |-> Empty]
  /\ failed' = [q \in Quenchers |-> FALSE]
  /\ UNCHANGED <<mercury, now, db, cursor>>

Sweep == SweepList \/ (\E d \in Docs : SweepFind(d)) \/ SweepSave \/ SweepDone
Load ==
  \/ StartRound \/ ReadPage
  \/ \E d \in Docs : FindTarget(d) \/ FindOther(d)
  \/ SaveTarget \/ ListIds \/ DropFromOther \/ Released
  \/ TurnPage \/ ShiftCursor

CommandNext(q) ==
  \/ \E d \in Docs, only \in SUBSET Vsds : Enter(q, d, only)
  \/ \E v \in Vsds : NotSent(q, v) \/ Submit(q, v)
  \/ Process(q) \/ Unanswered(q) \/ CancelCommand(q)
  \/ StoreMissing(q) \/ StoreFind(q) \/ StoreSave(q) \/ StoreFails(q)
  \/ RememberErrors(q) \/ SaveErrors(q) \/ Report(q)

Next ==
  \/ \E v \in Vsds : Elsewhere(v) \/ ProcessLate(v)
  \/ Sweep \/ Load \/ WorkerFails
  \/ \E q \in Quenchers : CommandNext(q)
  \/ Restart

Spec == Init /\ [][Next]_vars

\* The worker's loop goes on and Mercury answers some of its requests; the
\* automatic quencher visits every record that has a VSD to quench, and some
\* of its commands are answered and stored.
FairSpec ==
  /\ Spec
  /\ WF_vars(Sweep) /\ WF_vars(Load) /\ SF_vars(ReadPage)
  /\ \A q \in Quenchers :
       /\ WF_vars(CommandNext(q))
       /\ \A d \in Docs : SF_vars(Enter(q, d, Vsds))
       /\ \A v \in Vsds : SF_vars(Submit(q, v))
       /\ SF_vars(Process(q)) /\ SF_vars(StoreFind(q)) /\ SF_vars(StoreSave(q))

-----------------------------------------------------------------------------
(* What a VSD shows in the journal                                         *)

\* A VSD shown as quenched can no longer be quenched in Mercury: Central never
\* shows a decision it only intended, whatever is lost, late or overwritten.
UtilizedHasLeft ==
  \A d \in Docs, v \in Vsds : db[d][v] = "UTILIZED" => mercury[v].status # "CONFIRMED"

\* Mercury's refusal "must be in the state «оформлен»" means that the VSD was
\* quenched before: the comment above AlreadyQuenched.  Asserted by no run: a
\* withdrawn VSD is refused alike.
UtilizedIsQuenched ==
  \A d \in Docs, v \in Vsds : db[d][v] = "UTILIZED" => mercury[v].status = "UTILIZED"

\* A VSD quenched in Mercury shows so again and again, in spite of stale pages
\* and stale copies: the automatic quencher meets the refusal and repairs it.
UtilizedIsShown ==
  \A v \in Vsds : []<>(mercury[v].status = "UTILIZED" => \A d \in Docs : db[d][v] # "CONFIRMED")

(* What the cursor leaves behind                                           *)

Behind(v) == v \notin Foreign /\ mercury[v].at \in 1 .. cursor

\* Once the cursor has passed a change, the record of its waybill shows it.
NothingLostBehindCursor ==
  step = "idle" => \A v \in Vsds : Behind(v) => db[mercury[v].home][v] = mercury[v].status

\* A VSD that moved to another waybill is no longer in its former record: the
\* comments above Drop and Release.
OneRecord ==
  step = "idle" =>
    \A v \in Vsds : Behind(v) => \A d \in Docs \ {mercury[v].home} : db[d][v] = "none"

\* No foreign transport is loaded, nor comes back once the sweep has ended.
SweptStaysSwept == swept => \A d \in Docs : Members(db[d]) \cap Foreign = {}

\* Storing a quench does not erase a VSD loaded meanwhile: the comment above
\* StoreQuench.  Asserted by no run: a load between Find and Save is erased.
QuenchKeepsLoaded ==
  [][\A q \in Quenchers : stage[q] = "storing" /\ stage'[q] = "work" =>
       Members(db[doc[q]]) \subseteq Members(db'[doc[q]])]_vars

-----------------------------------------------------------------------------
(* The inductive invariant behind UtilizedHasLeft: no record, and no copy a *)
(* process holds, is ahead of Mercury                                       *)

Honest(content) ==
  \A v \in Vsds :
    /\ content[v] = "UTILIZED" => mercury[v].status # "CONFIRMED"
    /\ content[v] = "WITHDRAWN" => mercury[v].status = "WITHDRAWN"

RecordsAreHonest == \A d \in Docs : Honest(db[d])

AnswersHaveLeft ==
  \A q \in Quenchers :
    /\ stage[q] # "idle" => doc[q] \in Docs
    /\ stage[q] \in {"sent", "done", "already", "storing"} => vsd[q] \in Vsds
    /\ stage[q] \in {"done", "already", "storing"} => mercury[vsd[q]].status # "CONFIRMED"

PageIsHonest ==
  \A v \in OnPage :
    /\ page[v].status = "UTILIZED" => mercury[v].status # "CONFIRMED"
    /\ page[v].status = "WITHDRAWN" => mercury[v].status = "WITHDRAWN"

VetisInv ==
  /\ TypeOK
  /\ step \in {"sweepSave", "save", "drop"} => target \in Docs
  /\ RecordsAreHonest
  /\ Honest(copy)
  /\ \A q \in Quenchers : Honest(mine[q])
  /\ PageIsHonest
  /\ AnswersHaveLeft

-----------------------------------------------------------------------------
(* What the cursor leaves behind while quench commands run.  Two steps can  *)
(* undo it, and the theorems exclude nothing but these: the save of a stale *)
(* copy and a change in the middle of a list of several pages.              *)

\* What a command saves over is what it read: nobody saved the record between
\* its Find and its Save.
SaveIsFresh == \A q \in Quenchers : StoreSave(q) \/ SaveErrors(q) => mine[q] = db[doc[q]]
SavesAreFresh == [][SaveIsFresh]_vars

Resting == {"idle", "sweep", "sweepSave"}
Reading == {"group", "save", "ids", "release", "drop", "turn"}

\* Mercury changes nothing while the worker reads a list of several pages.
ListStandsStill == mercury' # mercury => step \in Resting \/ Cardinality(Listed) <= PageSize
MercuryStandsStill == [][ListStandsStill]_vars

\* A command shows as quenched whatever Mercury would no longer quench, a
\* withdrawn VSD included.
Agrees(local, status) ==
  \/ local = status
  \/ Quenchers # {} /\ local = "UTILIZED" /\ status = "WITHDRAWN"

\* Once the cursor has passed a change, the record of its waybill shows it,
\* but for a withdrawn VSD a command took for a quenched one.
LoadedBehindCursor ==
  step = "idle" =>
    \A v \in Vsds : Behind(v) => Agrees(db[mercury[v].home][v], mercury[v].status)

\* The cursor never moves back, so a round never lists again what an earlier
\* one has passed.
CursorMovesForward == [][cursor' >= cursor]_vars

\* The window of a round lies between the cursor and now, and every date a
\* round may leave as the next cursor lies in the window.
WindowIsAhead ==
  /\ cursor <= now
  /\ step \in Resting => OnPage = {} /\ latest = 0
  /\ step \notin Resting => until \in cursor .. now
  /\ \A v \in OnPage : page[v].at \in cursor .. until
  /\ latest # 0 => latest \in cursor .. until

(* The inductive invariant behind it and OneRecord                         *)

\* A command stores its answer in an entry its copy has.
StoringHasEntry ==
  \A q \in Quenchers : stage[q] = "storing" => mine[q][vsd[q]] # "none"

\* The journal, and the copy the worker is about to save, show what Mercury
\* says of the VSD, in its record only.
Shows(content, d, v) ==
  IF d = mercury[v].home THEN Agrees(content[v], mercury[v].status) ELSE content[v] = "none"
Settled(v) ==
  /\ \A d \in Docs : Shows(db[d], d, v)
  /\ target # NoDoc => Shows(copy, target, v)

Fresh(v) == v \in OnPage /\ page[v] = mercury[v]

\* Every change has a date of its own, and nothing is dated after now.
DatesDiffer ==
  /\ \A v \in Vsds : mercury[v].at <= now
  /\ \A u, v \in Vsds : mercury[u].at = mercury[v].at /\ mercury[u].at # 0 => u = v
  /\ cursor <= now

\* The window of a round, and what a page of it holds.
WindowHolds ==
  /\ step \in Resting => offset = 0 /\ latest = 0
  /\ step \notin Resting => cursor <= until /\ until <= now /\ latest <= until
  /\ offset = 0 \/ offset >= PageSize
  /\ step \notin Reading => OnPage = {}
  /\ \A v \in OnPage : v \notin Foreign /\ page[v].at <= until
  /\ \A v \in OnPage : ~Fresh(v) => mercury[v].at > until

\* Between Find and Save the record keeps its VSDs: commands only store statuses.
CopyHasItsMembers ==
  /\ step \in {"sweepSave", "save", "drop"} => target \in todo /\ Members(copy) = Members(db[target])
  /\ step \notin {"sweepSave", "save", "drop"} => target = NoDoc

\* What the records saved so far show of the page.
PageStored ==
  \A v \in OnPage, d \in kept :
    IF d = page[v].home THEN Fresh(v) => Agrees(db[d][v], page[v].status) ELSE db[d][v] = "none"

\* Every VSD to be released from the other records has one of those saved.
UuidsAreKept ==
  /\ \A v \in uuids : \E d \in kept : db[d][v] # "none"
  /\ \A v \in OnPage : page[v].home \in kept => v \in uuids
  /\ step \in Reading \ {"turn"} => kept \cap todo = {}

PageProgress ==
  /\ step \notin Reading \ {"turn"} => kept = {} /\ uuids = {}
  /\ step \in {"group", "save"} => \A v \in OnPage : page[v].home \in todo \cup kept
  /\ step \in {"ids", "release", "drop"} => \A v \in OnPage : page[v].home \in kept
  /\ step \in {"release", "drop"} =>
       \A v \in uuids, d \in Docs \ (todo \cup kept) : db[d][v] = "none"
  /\ step = "turn" => \A v \in OnPage : Fresh(v) => Settled(v)

\* Every listed VSD of the pages read is settled, or lies on the page as it is.
ListIsCovered ==
  /\ step = "page" => \A v \in Listed \ Foreign : Rank(v) < offset => Settled(v)
  /\ step \in Reading => \A v \in Listed \ Foreign :
       last \/ Rank(v) < offset + PageSize => Settled(v) \/ Fresh(v)
  /\ step = "shift" => \A v \in Listed \ Foreign : Settled(v)

BehindIsSettled == \A v \in Vsds : Behind(v) => Settled(v)

CursorInv ==
  /\ DatesDiffer
  /\ WindowHolds
  /\ CopyHasItsMembers
  /\ PageStored
  /\ UuidsAreKept
  /\ PageProgress
  /\ ListIsCovered
  /\ BehindIsSettled
=============================================================================
