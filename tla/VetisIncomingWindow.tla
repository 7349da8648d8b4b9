------------------------- MODULE VetisIncomingWindow -------------------------
(***************************************************************************)
(* The window of one incoming document in the browser and the quench       *)
(* commands behind it.  There is one window and one pair openedId, busyId; *)
(* documents being fetched, reports, polls of the stage and reloads come   *)
(* back in any order, to a window that may show another document by then.  *)
(* The script runs one callback at a time: an action is a callback.        *)
(***************************************************************************)
EXTENDS Naturals, FiniteSets

CONSTANTS
  Docs,         \* incoming documents in the list
  NoDoc,        \* null: not a member of Docs
  Calls,        \* slots for the quench requests of the page
  Other,        \* a quench of another page or of the worker
  Nobody,       \* the gate of a document is free
  Vsds,         \* VSDs in a document
  MaxClicks,    \* bound: documents opened from the list
  MaxQuenches,  \* bound: quench commands
  MaxReads,     \* bound: documents being fetched at a time
  MaxFaults     \* bound: failed requests and restarts of the server

ASSUME WindowAssumption ==
  /\ NoDoc \notin Docs
  /\ {Other, Nobody} \cap Calls = {} /\ Other # Nobody
  /\ {Vsds, MaxClicks, MaxQuenches, MaxReads, MaxFaults} \subseteq Nat

VARIABLES
  openedId, busyId,   \* the variables of the script
  dialog,             \* what the window shows and allows
  polls,              \* watchForeignQuench of this window: requests in flight
  stages,             \* watchQuench: the calls whose poll comes back as running
  reads,              \* incomingDocument requests in flight
  call,               \* [Calls -> a quench request of this page]
  quenched,           \* [Docs -> quenched VSDs in the record]
  holder,             \* [Docs -> who is past the gate, and how far]
  progress,           \* [Docs -> does the progress store say Running?]
  clicks, quenches, faults

script == <<openedId, busyId, dialog>>
watches == <<polls, stages>>
server == <<quenched, holder, progress>>
bounds == <<clicks, quenches, faults>>
vars == <<script, watches, reads, call, server, bounds>>

Volume == 0 .. Vsds
Unread == Vsds + 1      \* not read yet; of a report, without the document
Failed == Vsds + 2
Poll == {"asked", "running", "idle"}
Dialog == [doc : Docs \cup {NoDoc}, of : Docs \cup {NoDoc}, rows : Volume,
           button : BOOLEAN, editable : BOOLEAN, stage : BOOLEAN,
           disabled : BOOLEAN, saw : BOOLEAN, stranded : BOOLEAN,
           own : Calls \cup {Nobody}]
Read == [use : {"open", "reload"}, doc : Docs, rows : Volume \cup {Unread}]
Call == [phase : {"idle", "posted", "running", "answered", "listing"},
         doc : Docs \cup {NoDoc}, got : 0 .. Failed]
Holder == [by : Calls \cup {Other, Nobody}, at : {"none", "entered", "sending"}]

TypeOK ==
  /\ openedId \in Docs \cup {NoDoc}
  /\ busyId \in Docs \cup {NoDoc}
  /\ dialog \in Dialog
  /\ polls \subseteq Poll
  /\ stages \subseteq Calls
  /\ reads \subseteq Read
  /\ call \in [Calls -> Call]
  /\ quenched \in [Docs -> Volume]
  /\ holder \in [Docs -> Holder]
  /\ progress \in [Docs -> BOOLEAN]
  /\ clicks \in 0 .. MaxClicks
  /\ quenches \in 0 .. MaxQuenches
  /\ faults \in 0 .. MaxFaults

CanQuenchRows(rows) == rows < Vsds

\* `of` is the document whose rows are in the table; `own` the request this
\* window sent with no other of its document under way.
Shows(d, rows) ==
  [doc |-> d, of |-> d, rows |-> rows, button |-> d # NoDoc /\ CanQuenchRows(rows),
   editable |-> TRUE, stage |-> FALSE, disabled |-> FALSE, saw |-> FALSE,
   stranded |-> FALSE, own |-> Nobody]
Closed == Shows(NoDoc, 0)
NoCall == [phase |-> "idle", doc |-> NoDoc, got |-> 0]
Free == [by |-> Nobody, at |-> "none"]

Init ==
  /\ openedId = NoDoc /\ busyId = NoDoc
  /\ dialog = Closed
  /\ polls = {} /\ stages = {} /\ reads = {}
  /\ call = [c \in Calls |-> NoCall]
  /\ quenched = [d \in Docs |-> 0]
  /\ holder = [d \in Docs |-> Free]
  /\ progress = [d \in Docs |-> FALSE]
  /\ clicks = 0 /\ quenches = 0 /\ faults = 0

Open == dialog.doc # NoDoc
SameDocument(d) == openedId = d /\ Open
Closable == busyId = NoDoc \/ busyId # openedId
Active(c) == call[c].phase # "idle"
Fault == faults < MaxFaults /\ faults' = faults + 1

-----------------------------------------------------------------------------
(* Opening and closing                                                     *)

\* The window is modal: a row is clicked while there is none, though earlier
\* clicks may still be on their way.
Click(d) ==
  /\ ~Open
  /\ clicks < MaxClicks
  /\ Cardinality(reads) < MaxReads
  /\ clicks' = clicks + 1
  /\ reads' = reads \cup {[use |-> "open", doc |-> d, rows |-> Unread]}
  /\ UNCHANGED <<script, watches, call, server, quenches, faults>>

ReadServed(r) ==
  /\ r.rows = Unread
  /\ reads' = (reads \ {r}) \cup {[r EXCEPT !.rows = quenched[r.doc]]}
  /\ UNCHANGED <<script, watches, call, server, bounds>>

\* A window that is there is destroyed, whatever canClose says; its own polls
\* go with it, and the new one polls at once.
Opened(r) ==
  /\ r.use = "open" /\ r.rows # Unread
  /\ reads' = reads \ {r}
  /\ openedId' = r.doc
  /\ dialog' = Shows(r.doc, r.rows)
  /\ polls' = IF busyId = r.doc THEN {} ELSE {"asked"}
  /\ UNCHANGED <<busyId, stages, call, server, bounds>>

\* Esc or the cross.
Close ==
  /\ Open /\ Closable
  /\ dialog' = Closed
  /\ polls' = {}
  /\ UNCHANGED <<openedId, busyId, stages, reads, call, server, bounds>>

\* reloadIncoming
Reloaded(r) ==
  /\ r.use = "reload" /\ r.rows # Unread
  /\ reads' = reads \ {r}
  /\ dialog' = IF SameDocument(r.doc)
                 THEN [dialog EXCEPT !.of = r.doc, !.rows = r.rows,
                                     !.button = CanQuenchRows(r.rows), !.editable = TRUE]
                 ELSE dialog
  /\ UNCHANGED <<openedId, busyId, watches, call, server, bounds>>

\* Nothing but a message: a window that waits for a reload stays as it is.
ReadFails(r) ==
  /\ Fault
  /\ reads' = reads \ {r}
  /\ dialog' = [dialog EXCEPT !.stranded = @ \/ (r.use = "reload" /\ r.doc = dialog.doc)]
  /\ UNCHANGED <<openedId, busyId, watches, call, server, clicks, quenches>>

-----------------------------------------------------------------------------
(* A quench of this window                                                 *)

Quench(c) ==
  /\ Open /\ dialog.button /\ ~dialog.disabled
  /\ ~Active(c)
  /\ quenches < MaxQuenches
  /\ quenches' = quenches + 1
  /\ call' = [call EXCEPT ![c] = [phase |-> "posted", doc |-> dialog.doc, got |-> 0]]
  /\ busyId' = dialog.doc
  /\ dialog' = [dialog EXCEPT !.disabled = TRUE, !.stage = TRUE,
                  !.own = IF \E o \in Calls : Active(o) /\ call[o].doc = dialog.doc
                            THEN Nobody ELSE c]
  /\ UNCHANGED <<openedId, watches, reads, server, clicks, faults>>

\* watchQuench: only the answer that it runs does anything.
StagePolled(c) ==
  /\ Active(c)
  /\ progress[call[c].doc]
  /\ stages' = stages \cup {c}
  /\ UNCHANGED <<script, polls, reads, call, server, bounds>>

\* Mutant: the stage is shown in whatever window is open.
StageShownAnywhere(c) ==
  /\ c \in stages
  /\ stages' = stages \ {c}
  /\ dialog' = IF Open THEN [dialog EXCEPT !.stage = TRUE] ELSE dialog
  /\ UNCHANGED <<openedId, busyId, polls, reads, call, server, bounds>>

StageShown(c) ==
  /\ c \in stages
  /\ stages' = stages \ {c}
  /\ dialog' = IF SameDocument(call[c].doc) THEN [dialog EXCEPT !.stage = TRUE] ELSE dialog
  /\ UNCHANGED <<openedId, busyId, polls, reads, call, server, bounds>>

Released(c, shown) ==
  [shown EXCEPT !.stage = FALSE, !.disabled = FALSE, !.own = IF @ = c THEN Nobody ELSE @]

\* Mutant: whichever request ends releases the window that is open.
EndsForAll(c, shown) ==
  /\ call' = [call EXCEPT ![c] = NoCall]
  /\ stages' = stages \ {c}
  /\ busyId' = NoDoc
  /\ dialog' = Released(c, shown)

\* Mutant: busyId is left alone when another document is open by then.
EndsForOpened(c, shown) ==
  /\ call' = [call EXCEPT ![c] = NoCall]
  /\ stages' = stages \ {c}
  /\ busyId' = IF SameDocument(call[c].doc) THEN NoDoc ELSE busyId
  /\ dialog' = IF SameDocument(call[c].doc)
                 THEN Released(c, shown)
                 ELSE shown

\* The `finally` of quench.
Ends(c, shown) ==
  /\ call' = [call EXCEPT ![c] = NoCall]
  /\ stages' = stages \ {c}
  /\ busyId' = IF busyId = call[c].doc THEN NoDoc ELSE busyId
  /\ dialog' = IF SameDocument(call[c].doc)
                 THEN Released(c, shown)
                 ELSE shown

\* Mutant: the report goes into the window that is open.
WithReportAnywhere(c) ==
  IF call[c].got # Unread /\ Open
    THEN [dialog EXCEPT !.of = call[c].doc, !.rows = call[c].got]
    ELSE dialog

\* applyQuenchReport: the button is left as it was.
WithReport(c) ==
  IF call[c].got # Unread /\ SameDocument(call[c].doc)
    THEN [dialog EXCEPT !.of = call[c].doc, !.rows = call[c].got]
    ELSE dialog

ReportArrives(c) ==
  /\ call[c].phase = "answered" /\ call[c].got # Failed
  /\ Ends(c, WithReport(c))
  /\ UNCHANGED <<openedId, polls, reads, server, bounds>>

\* After an error the list is loaded again, and only then the window released.
ErrorArrives(c) ==
  /\ call[c].phase = "answered" /\ call[c].got = Failed
  /\ call' = [call EXCEPT ![c].phase = "listing"]
  /\ UNCHANGED <<script, watches, reads, server, bounds>>

ListLoaded(c) ==
  /\ call[c].phase = "listing"
  /\ Ends(c, dialog)
  /\ UNCHANGED <<openedId, polls, reads, server, bounds>>

-----------------------------------------------------------------------------
(* watchForeignQuench: a quench of somebody else                           *)

\* Mutant: once a quench has been seen the polls stop.
PullUntilSeen ==
  /\ Open /\ busyId # dialog.doc /\ ~dialog.saw
  /\ polls' = polls \cup {"asked"}
  /\ UNCHANGED <<script, stages, reads, call, server, bounds>>

\* Every 400 ms, but not while this page quenches the document itself.
Pull ==
  /\ Open /\ busyId # dialog.doc
  /\ polls' = polls \cup {"asked"}
  /\ UNCHANGED <<script, stages, reads, call, server, bounds>>

PollServed ==
  /\ "asked" \in polls
  /\ polls' = (polls \ {"asked"}) \cup {IF progress[dialog.doc] THEN "running" ELSE "idle"}
  /\ UNCHANGED <<script, stages, reads, call, server, bounds>>

\* No answer, an answer while this page quenches, or nothing to end.
PollIgnored(answer) ==
  /\ polls' = polls \ {answer}
  /\ \/ busyId = dialog.doc \/ openedId # dialog.doc
     \/ answer = "idle" /\ ~dialog.saw
  /\ UNCHANGED <<script, stages, reads, call, server, bounds>>

PollFails ==
  /\ Fault
  /\ \E answer \in polls : polls' = polls \ {answer}
  /\ UNCHANGED <<script, stages, reads, call, server, clicks, quenches>>

LockedByOther ==
  /\ "running" \in polls
  /\ busyId # dialog.doc /\ openedId = dialog.doc
  /\ polls' = polls \ {"running"}
  /\ dialog' = [dialog EXCEPT !.saw = TRUE, !.button = FALSE, !.editable = FALSE, !.stage = TRUE]
  /\ UNCHANGED <<openedId, busyId, stages, reads, call, server, bounds>>

\* Mutant: the lock is taken for ended without fetching the document.
OtherEndedUnread ==
  /\ "idle" \in polls /\ dialog.saw
  /\ busyId # dialog.doc /\ openedId = dialog.doc
  /\ polls' = polls \ {"idle"}
  /\ dialog' = [dialog EXCEPT !.saw = FALSE, !.stage = FALSE]
  /\ UNCHANGED <<openedId, busyId, stages, reads, call, server, bounds>>

OtherEnded ==
  /\ "idle" \in polls /\ dialog.saw
  /\ busyId # dialog.doc /\ openedId = dialog.doc
  /\ Cardinality(reads) < MaxReads
  /\ polls' = polls \ {"idle"}
  /\ dialog' = [dialog EXCEPT !.saw = FALSE, !.stage = FALSE]
  /\ reads' = reads \cup {[use |-> "reload", doc |-> dialog.doc, rows |-> Unread]}
  /\ UNCHANGED <<openedId, busyId, stages, call, server, bounds>>

-----------------------------------------------------------------------------
(* The server: VetisQuenchProgressStore and the course of QuenchAsync            *)

Answer(c, got) == call' = [call EXCEPT ![c].phase = "answered", ![c].got = got]

\* Mutant: the refused request goes through the `finally` of the other.
RefusedClears(c) ==
  /\ call[c].phase = "posted" /\ holder[call[c].doc].by # Nobody
  /\ Answer(c, Failed)
  /\ progress' = [progress EXCEPT ![call[c].doc] = FALSE]
  /\ UNCHANGED <<script, watches, reads, quenched, holder, bounds>>

\* TryEnter fails: another command quenches the document.
Refused(c) ==
  /\ call[c].phase = "posted" /\ holder[call[c].doc].by # Nobody
  /\ Answer(c, Failed)
  /\ UNCHANGED <<script, watches, reads, server, bounds>>

Enter(c) ==
  /\ call[c].phase = "posted" /\ holder[call[c].doc].by = Nobody
  /\ call' = [call EXCEPT ![c].phase = "running"]
  /\ holder' = [holder EXCEPT ![call[c].doc] = [by |-> c, at |-> "entered"]]
  /\ UNCHANGED <<script, watches, reads, quenched, progress, bounds>>

OtherEnters(d) ==
  /\ quenches < MaxQuenches
  /\ holder[d].by = Nobody
  /\ quenches' = quenches + 1
  /\ holder' = [holder EXCEPT ![d] = [by |-> Other, at |-> "entered"]]
  /\ UNCHANGED <<script, watches, reads, call, quenched, progress, clicks, faults>>

\* The progress of a VSD is stored before it is sent.
SendVsd(d) ==
  /\ holder[d].at = "entered"
  /\ quenched[d] < Vsds
  /\ holder' = [holder EXCEPT ![d].at = "sending"]
  /\ progress' = [progress EXCEPT ![d] = TRUE]
  /\ UNCHANGED <<script, watches, reads, call, quenched, bounds>>

\* Mutant: a VSD that is quenched already is counted once more.
StoreVsdAgain(d) ==
  /\ holder[d].at = "sending"
  /\ quenched' = [quenched EXCEPT ![d] = @ + 1]
  /\ UNCHANGED <<script, watches, reads, call, holder, progress, bounds>>

StoreVsd(d) ==
  /\ holder[d].at = "sending"
  /\ quenched[d] < Vsds
  /\ quenched' = [quenched EXCEPT ![d] = @ + 1]
  /\ UNCHANGED <<script, watches, reads, call, holder, progress, bounds>>

\* The command ends with a report or an error, or is refused before it sends
\* anything; of a document without VSDs to quench there is no report.
Leave(d) ==
  /\ holder[d].by # Nobody
  /\ holder' = [holder EXCEPT ![d] = Free]
  /\ progress' = [progress EXCEPT ![d] = FALSE]
  /\ IF holder[d].by = Other
       THEN UNCHANGED call
       ELSE \E got \in {quenched[d], Unread, Failed} :
              /\ holder[d].at = "entered" /\ quenched[d] = Vsds => got = Failed
              /\ Answer(holder[d].by, got)
  /\ UNCHANGED <<script, watches, reads, quenched, bounds>>

\* The connection breaks: an error here, while the server may go on.
AnswerLost(c) ==
  /\ call[c].phase \in {"posted", "running"}
  /\ Fault
  /\ Answer(c, Failed)
  /\ holder' = [d \in Docs |-> IF holder[d].by = c THEN [holder[d] EXCEPT !.by = Other] ELSE holder[d]]
  /\ UNCHANGED <<script, watches, reads, quenched, progress, clicks, quenches>>

\* Gates and progress are kept in memory.
ServerRestarts ==
  /\ Fault
  /\ holder' = [d \in Docs |-> Free]
  /\ progress' = [d \in Docs |-> FALSE]
  /\ call' = [c \in Calls |-> IF call[c].phase \in {"posted", "running"}
                                THEN [call[c] EXCEPT !.phase = "answered", !.got = Failed]
                                ELSE call[c]]
  /\ UNCHANGED <<script, watches, reads, quenched, clicks, quenches>>

-----------------------------------------------------------------------------
User == (\E d \in Docs : Click(d)) \/ Close \/ \E c \in Calls : Quench(c)

Fetch == \E r \in reads : ReadServed(r) \/ Opened(r) \/ Reloaded(r)

OfCall(c) ==
  \/ ReportArrives(c) \/ ErrorArrives(c) \/ ListLoaded(c)
  \/ Refused(c) \/ Enter(c)

OfDocument(d) == SendVsd(d) \/ StoreVsd(d) \/ Leave(d)

Faults ==
  \/ \E r \in reads : ReadFails(r)
  \/ \E c \in Calls : AnswerLost(c)
  \/ PollFails \/ ServerRestarts

Next ==
  \/ User \/ Fetch
  \/ \E c \in Calls : OfCall(c) \/ StagePolled(c) \/ StageShown(c)
  \/ Pull \/ PollServed \/ LockedByOther \/ OtherEnded
  \/ \E answer \in polls \ {"asked"} : PollIgnored(answer)
  \/ \E d \in Docs : OfDocument(d) \/ OtherEnters(d)
  \/ Faults

Spec == Init /\ [][Next]_vars

\* The timers tick, requests are served and answered, commands end.
FairSpec ==
  /\ Spec
  /\ WF_vars(Fetch)
  /\ WF_vars(Pull) /\ WF_vars(PollServed) /\ WF_vars(LockedByOther) /\ WF_vars(OtherEnded)
  /\ \A answer \in {"running", "idle"} : WF_vars(answer \in polls /\ PollIgnored(answer))
  /\ \A c \in Calls : WF_vars(OfCall(c))
  /\ \A d \in Docs : WF_vars(Leave(d))

-----------------------------------------------------------------------------
\* Task 11 of the quench fixes: a window never shows the rows of another
\* document, however late a report or a reload comes.
RowsAreOwn == dialog.of = dialog.doc

\* While the request of a window is under way, with no other of the document,
\* the window stays disabled and neither Esc nor the cross closes it.
OwnQuenchHoldsWindow ==
  dialog.own # Nobody => dialog.disabled /\ ~Closable

\* Whatever locks the window has somebody who will unlock it: a request of the
\* page, a quench that was seen running, or a reload on its way.
OwnRequest(d) == \E c \in Calls : Active(c) /\ call[c].doc = d

NoOrphanLock ==
  /\ busyId # NoDoc => OwnRequest(busyId)
  /\ dialog.disabled => OwnRequest(dialog.doc)
  /\ dialog.stage => OwnRequest(dialog.doc) \/ dialog.saw
  /\ dialog.editable \/ dialog.saw \/ dialog.stranded
       \/ \E r \in reads : r.use = "reload" /\ r.doc = dialog.doc

\* The progress that is shown is that of the command past the gate: a refused
\* one does not clear it.
ProgressIsHolders == \A d \in Docs : progress[d] <=> holder[d].at = "sending"

\* A locked window is released, or closed, unless the reload failed.
Locked == dialog.disabled \/ dialog.stage \/ (~dialog.editable /\ ~dialog.stranded)
LocksEnd == Locked ~> ~Locked
=============================================================================
