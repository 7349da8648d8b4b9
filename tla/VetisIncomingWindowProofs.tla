---------------------- MODULE VetisIncomingWindowProofs ----------------------
(***************************************************************************)
(* The safety properties of VetisIncomingWindow for any number of          *)
(* documents, requests, VSDs, clicks and faults.  The argument:            *)
(* a window shows the document that was opened last or nothing, a command  *)
(* past the gate has its request still waiting, and a request that holds a *)
(* window is the only one of its document, so no other `finally` frees     *)
(* busyId.                                                                 *)
(***************************************************************************)
EXTENDS VetisIncomingWindow, TLAPS

USE WindowAssumption

\* Requests name documents; the polls of stages are those of requests.
RequestsOfDocs ==
  /\ \A c \in Calls : Active(c) => call[c].doc \in Docs
  /\ \A c \in stages : Active(c)

\* The window is that of openedId, and nothing is left of one that was closed.
WindowOfOpened ==
  IF Open THEN dialog.doc = openedId
          ELSE /\ ~dialog.disabled /\ ~dialog.stage /\ dialog.editable
               /\ ~dialog.saw /\ polls = {} /\ dialog.own = Nobody

\* Past the gate are commands whose request waits for them.
HoldersRun ==
  \A d \in Docs :
    /\ holder[d].by = Nobody => holder[d].at = "none"
    /\ holder[d].by \in Calls =>
         call[holder[d].by].phase = "running" /\ call[holder[d].by].doc = d

\* The request that holds the window is the only one of the document.
OwnIsAlone ==
  dialog.own # Nobody =>
    /\ Active(dialog.own) /\ call[dialog.own].doc = dialog.doc
    /\ dialog.disabled /\ Open /\ busyId = dialog.doc
    /\ \A o \in Calls : Active(o) /\ call[o].doc = dialog.doc => o = dialog.own

IInv ==
  /\ TypeOK /\ RowsAreOwn /\ NoOrphanLock /\ ProgressIsHolders
  /\ RequestsOfDocs /\ WindowOfOpened /\ HoldersRun /\ OwnIsAlone

-----------------------------------------------------------------------------
(* Types                                                                   *)

LEMMA VolumesTyped ==
  /\ Volume \subseteq 0 .. Failed /\ Unread \in 0 .. Failed /\ Failed \in 0 .. Failed
  /\ Unread \notin Volume
  /\ \A got \in 0 .. Failed : got # Unread /\ got # Failed => got \in Volume
BY DEF Volume, Unread, Failed

LEMMA ShowsTyped ==
  ASSUME NEW d \in Docs \cup {NoDoc}, NEW rows \in Volume
  PROVE  Shows(d, rows) \in Dialog
BY DEF Shows, Dialog, CanQuenchRows

LEMMA InitTyped == Init => IInv
<1> SUFFICES ASSUME Init PROVE IInv
  OBVIOUS
<1>1. Closed \in Dialog
  BY ShowsTyped DEF Closed, Volume
<1>2. NoCall \in Call /\ Free \in Holder
  BY DEF NoCall, Call, Free, Holder, Failed
<1>3. TypeOK
  BY <1>1, <1>2 DEF Init, TypeOK, Volume
<1>4. RowsAreOwn /\ WindowOfOpened /\ OwnIsAlone /\ NoOrphanLock
  BY DEF Init, RowsAreOwn, WindowOfOpened, OwnIsAlone, NoOrphanLock, Closed, Shows, Open
<1>5. RequestsOfDocs /\ HoldersRun /\ ProgressIsHolders
  BY DEF Init, RequestsOfDocs, HoldersRun, ProgressIsHolders, NoCall, Free, Active
<1> QED
  BY <1>3, <1>4, <1>5 DEF IInv

LEMMA EndsTyped ==
  ASSUME TypeOK, NEW c \in Calls, NEW shown \in Dialog, Ends(c, shown)
  PROVE  /\ call' \in [Calls -> Call] /\ stages' \subseteq Calls
         /\ busyId' \in Docs \cup {NoDoc} /\ dialog' \in Dialog
<1>1. Released(c, shown) \in Dialog
  BY DEF Released, Dialog
<1>2. NoCall \in Call
  BY DEF NoCall, Call, Failed
<1> QED
  BY <1>1, <1>2 DEF Ends, TypeOK

LEMMA AnswerTyped ==
  ASSUME TypeOK, NEW c \in Calls, NEW got \in 0 .. Failed, Answer(c, got)
  PROVE  call' \in [Calls -> Call]
BY DEF Answer, TypeOK, Call

LEMMA TypesStep ==
  ASSUME TypeOK, WindowOfOpened, [Next]_vars
  PROVE  TypeOK'
<1> USE DEF TypeOK, vars, script, watches, server, bounds
<1>1. ASSUME NEW d \in Docs, Click(d) PROVE TypeOK'
  BY <1>1 DEF Click, Read
<1>2. CASE Close
  BY <1>2, ShowsTyped DEF Close, Closed, Volume
<1>3. ASSUME NEW c \in Calls, Quench(c) PROVE TypeOK'
  <2>1. [phase |-> "posted", doc |-> dialog.doc, got |-> 0] \in Call /\ dialog.doc \in Docs
    BY <1>3 DEF Quench, Call, Dialog, Open, Failed
  <2>2. dialog' \in Dialog
    BY <1>3 DEF Quench, Dialog
  <2> QED
    BY <1>3, <2>1, <2>2 DEF Quench
<1>4. ASSUME NEW r \in reads, ReadServed(r) PROVE TypeOK'
  BY <1>4 DEF ReadServed, Read
<1>5. ASSUME NEW r \in reads, Opened(r) PROVE TypeOK'
  <2>1. r.doc \in Docs /\ r.rows \in Volume
    BY <1>5 DEF Opened, Read
  <2> QED
    BY <1>5, <2>1, ShowsTyped DEF Opened, Poll
<1>6. ASSUME NEW r \in reads, Reloaded(r) PROVE TypeOK'
  <2>1. r.doc \in Docs /\ r.rows \in Volume
    BY <1>6 DEF Reloaded, Read
  <2> QED
    <3>1. CanQuenchRows(r.rows) \in BOOLEAN
      BY DEF CanQuenchRows
    <3>2. [dialog EXCEPT !.of = r.doc, !.rows = r.rows, !.button = CanQuenchRows(r.rows),
                         !.editable = TRUE] \in Dialog
      BY <2>1, <3>1 DEF Dialog
    <3> QED
      BY <1>6, <3>2 DEF Reloaded
<1>7. ASSUME NEW r \in reads, ReadFails(r) PROVE TypeOK'
  <2>1. (dialog.stranded \/ (r.use = "reload" /\ r.doc = dialog.doc)) \in BOOLEAN
    BY DEF Dialog
  <2>2. dialog' \in Dialog
    <3> DEFINE stranded == dialog.stranded \/ (r.use = "reload" /\ r.doc = dialog.doc)
    <3>1. stranded \in BOOLEAN
      BY <2>1
    <3>2. dialog' = [dialog EXCEPT !.stranded = stranded]
      BY <1>7 DEF ReadFails
    <3> HIDE DEF stranded
    <3> QED
      BY <3>1, <3>2 DEF Dialog
  <2> QED
    BY <1>7, <2>2 DEF ReadFails, Fault
<1>8. ASSUME NEW c \in Calls, OfCall(c) PROVE TypeOK'
  <2>1. CASE ReportArrives(c)
    <3>1. WithReport(c) \in Dialog
      <4>1. call[c].got \in 0 .. Failed /\ call[c].got # Failed
        BY <2>1 DEF ReportArrives, Call
      <4>2. CASE call[c].got # Unread /\ SameDocument(call[c].doc)
        <5>1. call[c].got \in Volume /\ call[c].doc \in Docs \cup {NoDoc}
          BY <4>1, <4>2, VolumesTyped DEF Call
        <5> QED
          BY <5>1 DEF WithReport, Dialog
      <4> QED
        BY <4>2 DEF WithReport
    <3> QED
      BY <2>1, <3>1, EndsTyped DEF ReportArrives
  <2>2. CASE ErrorArrives(c)
    BY <2>2 DEF ErrorArrives, Call
  <2>3. CASE ListLoaded(c)
    BY <2>3, EndsTyped DEF ListLoaded
  <2>4. CASE Refused(c)
    BY <2>4, AnswerTyped, VolumesTyped DEF Refused
  <2>5. CASE Enter(c)
    BY <2>5 DEF Enter, Call, Holder
  <2> QED
    BY <1>8, <2>1, <2>2, <2>3, <2>4, <2>5 DEF OfCall
<1>9. ASSUME NEW c \in Calls, StagePolled(c) \/ StageShown(c) PROVE TypeOK'
  BY <1>9 DEF StagePolled, StageShown, Dialog
<1>10. CASE Pull \/ PollServed \/ (\E answer \in polls \ {"asked"} : PollIgnored(answer)) \/ PollFails
  <2>1. polls' \subseteq Poll
    <3>1. CASE Pull
      BY <3>1 DEF Pull, Poll
    <3>2. CASE PollServed
      BY <3>2 DEF PollServed, Poll
    <3>3. CASE PollFails \/ \E answer \in polls \ {"asked"} : PollIgnored(answer)
      BY <3>3 DEF PollFails, PollIgnored
    <3> QED
      BY <1>10, <3>1, <3>2, <3>3
  <2>2. faults' \in 0 .. MaxFaults
    BY <1>10 DEF Pull, PollServed, PollIgnored, PollFails, Fault
  <2> QED
    BY <1>10, <2>1, <2>2 DEF Pull, PollServed, PollIgnored, PollFails
<1>11. CASE LockedByOther
  BY <1>11 DEF LockedByOther, Dialog
<1>12. CASE OtherEnded
  <2>1. dialog.doc \in Docs
    BY <1>12 DEF OtherEnded, Dialog, WindowOfOpened, Open
  <2>2. [use |-> "reload", doc |-> dialog.doc, rows |-> Unread] \in Read
    BY <2>1 DEF Read
  <2>3. dialog' \in Dialog
    BY <1>12 DEF OtherEnded, Dialog
  <2> QED
    BY <1>12, <2>2, <2>3 DEF OtherEnded
<1>13. ASSUME NEW d \in Docs, OfDocument(d) \/ OtherEnters(d) PROVE TypeOK'
  <2>1. CASE SendVsd(d) \/ OtherEnters(d)
    <3>1. holder' \in [Docs -> Holder]
      BY <2>1 DEF SendVsd, OtherEnters, Holder
    <3>2. progress' \in [Docs -> BOOLEAN]
      BY <2>1 DEF SendVsd, OtherEnters
    <3>3. quenches' \in 0 .. MaxQuenches
      BY <2>1 DEF SendVsd, OtherEnters
    <3> QED
      BY <2>1, <3>1, <3>2, <3>3 DEF SendVsd, OtherEnters
  <2>2. CASE StoreVsd(d)
    BY <2>2 DEF StoreVsd, Volume
  <2>3. CASE Leave(d)
    <3>1. holder' \in [Docs -> Holder] /\ progress' \in [Docs -> BOOLEAN]
      BY <2>3 DEF Leave, Free, Holder
    <3>2. call' \in [Calls -> Call]
      <4>1. holder[d].by \in Calls \cup {Other}
        BY <2>3 DEF Leave, Holder
      <4>2. {quenched[d], Unread, Failed} \subseteq 0 .. Failed
        BY VolumesTyped
      <4> QED
        BY <2>3, <4>1, <4>2, AnswerTyped DEF Leave
    <3> QED
      BY <2>3, <3>1, <3>2 DEF Leave
  <2> QED
    BY <1>13, <2>1, <2>2, <2>3 DEF OfDocument
<1>14. ASSUME NEW c \in Calls, AnswerLost(c) PROVE TypeOK'
  <2>1. holder' \in [Docs -> Holder]
    BY <1>14 DEF AnswerLost, Holder
  <2> QED
    BY <1>14, <2>1, AnswerTyped, VolumesTyped DEF AnswerLost, Fault
<1>15. CASE ServerRestarts
  <2>1. Failed \in 0 .. Failed
    BY VolumesTyped
  <2> QED
    <3>1. call' \in [Calls -> Call]
      BY <1>15, <2>1 DEF ServerRestarts, Call
    <3>2. holder' \in [Docs -> Holder]
      BY <1>15 DEF ServerRestarts, Free, Holder
    <3>3. progress' \in [Docs -> BOOLEAN]
      BY <1>15 DEF ServerRestarts
    <3>4. faults' \in 0 .. MaxFaults
      <4>1. Fault
        BY <1>15 DEF ServerRestarts
      <4> QED
        BY <4>1 DEF Fault
    <3> QED
      BY <1>15, <3>1, <3>2, <3>3, <3>4 DEF ServerRestarts
<1>16. CASE UNCHANGED vars
  BY <1>16
<1> QED
  BY <1>1, <1>2, <1>3, <1>4, <1>5, <1>6, <1>7, <1>8, <1>9, <1>10, <1>11, <1>12, <1>13,
     <1>14, <1>15, <1>16 DEF Next, User, Fetch, Faults

-----------------------------------------------------------------------------
(* The end of a request                                                    *)

\* A request that ends does to the window what is said here, whether it shows
\* a report or not.
Rest(shown) == [shown EXCEPT !.of = NoDoc, !.rows = 0]

LEMMA EndsEffect ==
  ASSUME TypeOK, NEW c \in Calls, NEW shown \in Dialog, Rest(shown) = Rest(dialog),
         Ends(c, shown)
  PROVE  /\ call' = [call EXCEPT ![c] = NoCall]
         /\ stages' = stages \ {c}
         /\ busyId' = IF busyId = call[c].doc THEN NoDoc ELSE busyId
         /\ dialog'.doc = dialog.doc /\ dialog'.of = shown.of
         /\ dialog'.saw = dialog.saw /\ dialog'.editable = dialog.editable
         /\ dialog'.stranded = dialog.stranded
         /\ IF SameDocument(call[c].doc)
              THEN /\ ~dialog'.stage /\ ~dialog'.disabled
                   /\ dialog'.own = IF dialog.own = c THEN Nobody ELSE dialog.own
              ELSE /\ dialog'.stage = dialog.stage /\ dialog'.disabled = dialog.disabled
                   /\ dialog'.own = dialog.own
<1>1. /\ shown.doc = dialog.doc /\ shown.saw = dialog.saw /\ shown.editable = dialog.editable
      /\ shown.stranded = dialog.stranded /\ shown.stage = dialog.stage
      /\ shown.disabled = dialog.disabled /\ shown.own = dialog.own
  <2>1. \A d \in Dialog :
          /\ Rest(d).doc = d.doc /\ Rest(d).saw = d.saw /\ Rest(d).editable = d.editable
          /\ Rest(d).stranded = d.stranded /\ Rest(d).stage = d.stage
          /\ Rest(d).disabled = d.disabled /\ Rest(d).own = d.own
    BY DEF Rest, Dialog
  <2> QED
    BY <2>1 DEF TypeOK
<1> QED
  BY <1>1 DEF Ends, Released, Dialog

\* Both ends are of that kind.
LEMMA EndOfRequest ==
  ASSUME IInv, NEW c \in Calls, ReportArrives(c) \/ ListLoaded(c)
  PROVE  \E shown \in Dialog :
           /\ Rest(shown) = Rest(dialog) /\ shown.of = shown.doc
           /\ Ends(c, shown) /\ Active(c)
           /\ UNCHANGED <<openedId, polls, reads, server, bounds>>
<1>1. dialog \in Dialog /\ dialog.of = dialog.doc
  BY DEF IInv, TypeOK, RowsAreOwn
<1>2. CASE ListLoaded(c)
  BY <1>1, <1>2 DEF ListLoaded, Active
<1>3. CASE ReportArrives(c)
  <2>1. WithReport(c) \in Dialog /\ Rest(WithReport(c)) = Rest(dialog)
        /\ WithReport(c).of = WithReport(c).doc
    <3>1. CASE call[c].got # Unread /\ SameDocument(call[c].doc)
      <4>1. call[c].got \in Volume /\ call[c].doc = dialog.doc
        BY <1>3, <3>1, VolumesTyped DEF ReportArrives, IInv, TypeOK, Call, SameDocument, WindowOfOpened
      <4>2. WithReport(c) = [dialog EXCEPT !.of = dialog.doc, !.rows = call[c].got]
        BY <3>1, <4>1 DEF WithReport
      <4> QED
        BY <1>1, <4>1, <4>2 DEF Dialog, Rest
    <3>2. CASE ~(call[c].got # Unread /\ SameDocument(call[c].doc))
      BY <1>1, <3>2 DEF WithReport
    <3> QED
      BY <3>1, <3>2
  <2> QED
    BY <1>3, <2>1 DEF ReportArrives, Active
<1> QED
  BY <1>2, <1>3

-----------------------------------------------------------------------------
(* The conjuncts about the window and about the gate                       *)

LEMMA WindowStep ==
  ASSUME IInv, [Next]_vars
  PROVE  WindowOfOpened' /\ RowsAreOwn'
<1> USE DEF WindowOfOpened, RowsAreOwn, Open
<1>0. TypeOK /\ WindowOfOpened /\ RowsAreOwn /\ dialog \in Dialog
  BY DEF IInv, TypeOK
<1>1. ASSUME NEW r \in reads, Opened(r) PROVE WindowOfOpened' /\ RowsAreOwn'
  BY <1>0, <1>1 DEF Opened, Shows, TypeOK, Read
<1>2. CASE Close
  BY <1>0, <1>2 DEF Close, Closed, Shows
<1>3. ASSUME NEW r \in reads, Reloaded(r) PROVE WindowOfOpened' /\ RowsAreOwn'
  BY <1>0, <1>3 DEF Reloaded, SameDocument, Dialog, watches
<1>4. ASSUME NEW r \in reads, ReadFails(r) PROVE WindowOfOpened' /\ RowsAreOwn'
  BY <1>0, <1>4 DEF ReadFails, Dialog, watches
<1>5. ASSUME NEW c \in Calls, Quench(c) PROVE WindowOfOpened' /\ RowsAreOwn'
  BY <1>0, <1>5 DEF Quench, Dialog
<1>6. ASSUME NEW c \in Calls, StageShown(c) PROVE WindowOfOpened' /\ RowsAreOwn'
  BY <1>0, <1>6 DEF StageShown, SameDocument, Dialog
<1>7. ASSUME NEW c \in Calls, ReportArrives(c) \/ ListLoaded(c) PROVE WindowOfOpened' /\ RowsAreOwn'
  <2>1. PICK shown \in Dialog :
          /\ Rest(shown) = Rest(dialog) /\ shown.of = shown.doc /\ Ends(c, shown)
          /\ UNCHANGED <<openedId, polls>>
    BY <1>7, EndOfRequest
  <2>2. shown.doc = dialog.doc
    BY <1>0, <2>1 DEF Rest, Dialog
  <2> QED
    BY <1>0, <2>1, <2>2, EndsEffect DEF SameDocument
<1>8. CASE Pull \/ PollServed \/ PollFails \/ \E answer \in polls \ {"asked"} : PollIgnored(answer)
  BY <1>0, <1>8 DEF Pull, PollServed, PollFails, PollIgnored, script
<1>9. CASE LockedByOther \/ OtherEnded
  BY <1>0, <1>9 DEF LockedByOther, OtherEnded, Dialog
<1>10. CASE UNCHANGED <<script, polls>>
  BY <1>0, <1>10 DEF script
<1> QED
  BY <1>1, <1>2, <1>3, <1>4, <1>5, <1>6, <1>7, <1>8, <1>9, <1>10
  DEF Next, User, Fetch, OfCall, OfDocument, Faults, Click, ReadServed, ErrorArrives, Refused, Enter,
      StagePolled, SendVsd, StoreVsd, Leave, OtherEnters, AnswerLost, ServerRestarts, vars, watches

\* What the server does neither starts nor ends a request.
Served ==
  \/ \E c \in Calls : ErrorArrives(c) \/ Refused(c) \/ Enter(c) \/ AnswerLost(c)
  \/ \E d \in Docs : OfDocument(d) \/ OtherEnters(d)
  \/ ServerRestarts

SameRequests ==
  \A o \in Calls : call'[o].doc = call[o].doc /\ (call'[o].phase = "idle" <=> call[o].phase = "idle")

LEMMA ServedStep ==
  ASSUME IInv, Served
  PROVE  UNCHANGED <<script, stages, reads>> /\ SameRequests
<1> USE DEF SameRequests
<1>0. call \in [Calls -> Call] /\ HoldersRun /\ holder \in [Docs -> Holder]
  BY DEF IInv, TypeOK
<1>1. ASSUME NEW c \in Calls, ErrorArrives(c) \/ Refused(c) \/ Enter(c) \/ AnswerLost(c)
      PROVE  UNCHANGED <<script, stages, reads>> /\ SameRequests
  <2>1. UNCHANGED <<script, stages, reads>>
    BY <1>1 DEF ErrorArrives, Refused, Enter, AnswerLost, watches
  <2>2. SameRequests
    BY <1>0, <1>1 DEF ErrorArrives, Refused, Enter, AnswerLost, Answer, Call
  <2> QED
    BY <2>1, <2>2
<1>2. ASSUME NEW d \in Docs, OfDocument(d) \/ OtherEnters(d)
      PROVE  UNCHANGED <<script, stages, reads>> /\ SameRequests
  <2>1. UNCHANGED <<script, stages, reads>>
    BY <1>2 DEF OfDocument, SendVsd, StoreVsd, Leave, OtherEnters, watches
  <2>2. CASE Leave(d)
    <3>1. SameRequests
      BY <1>0, <2>2 DEF Leave, Answer, Call, Holder, HoldersRun
    <3> QED
      BY <2>1, <3>1
  <2>3. CASE SendVsd(d) \/ StoreVsd(d) \/ OtherEnters(d)
    BY <2>1, <2>3 DEF SendVsd, StoreVsd, OtherEnters
  <2> QED
    BY <1>2, <2>2, <2>3 DEF OfDocument
<1>3. CASE ServerRestarts
  <2>1. UNCHANGED <<script, stages, reads>>
    BY <1>3 DEF ServerRestarts, watches
  <2>2. ASSUME NEW o \in Calls
        PROVE  call'[o].doc = call[o].doc /\ (call'[o].phase = "idle" <=> call[o].phase = "idle")
    <3>1. call[o] \in Call
      BY <1>0
    <3>2. call'[o] = IF call[o].phase \in {"posted", "running"}
                       THEN [call[o] EXCEPT !.phase = "answered", !.got = Failed] ELSE call[o]
      BY <1>3 DEF ServerRestarts
    <3> QED
      BY <3>1, <3>2 DEF Call
  <2> QED
    BY <2>1, <2>2
<1> QED
  BY <1>1, <1>2, <1>3 DEF Served

LEMMA RequestsStep ==
  ASSUME IInv, [Next]_vars
  PROVE  RequestsOfDocs'
<1> USE DEF RequestsOfDocs, Active
<1>0. RequestsOfDocs /\ call \in [Calls -> Call] /\ stages \subseteq Calls
      /\ dialog.doc \in Docs \cup {NoDoc}
  BY DEF IInv, TypeOK, Dialog
<1>1. ASSUME NEW c \in Calls, Quench(c) PROVE RequestsOfDocs'
  BY <1>0, <1>1 DEF Quench, Open, watches
<1>2. ASSUME NEW c \in Calls, ReportArrives(c) \/ ListLoaded(c) PROVE RequestsOfDocs'
  <2>1. call' = [call EXCEPT ![c] = NoCall] /\ stages' = stages \ {c}
    BY <1>2 DEF ReportArrives, ListLoaded, Ends
  <2> QED
    BY <1>0, <2>1 DEF NoCall
<1>3. ASSUME NEW c \in Calls, StagePolled(c) \/ StageShown(c) PROVE RequestsOfDocs'
  BY <1>0, <1>3 DEF StagePolled, StageShown
<1>4. CASE Served
  BY <1>0, <1>4, ServedStep DEF SameRequests
<1>5. CASE UNCHANGED <<stages, call>>
  BY <1>0, <1>5
<1> QED
  BY <1>1, <1>2, <1>3, <1>4, <1>5
  DEF Next, Served, User, Fetch, OfCall, Faults, Click, Close, ReadServed, Opened, Reloaded, ReadFails,
      Pull, PollServed, PollIgnored, PollFails, LockedByOther, OtherEnded, vars, watches

LEMMA GateStep ==
  ASSUME IInv, [Next]_vars
  PROVE  HoldersRun' /\ ProgressIsHolders'
<1> USE DEF HoldersRun, ProgressIsHolders, Active, server
<1>0. TypeOK /\ HoldersRun /\ ProgressIsHolders
      /\ call \in [Calls -> Call] /\ holder \in [Docs -> Holder] /\ progress \in [Docs -> BOOLEAN]
  BY DEF IInv, TypeOK
<1>1. ASSUME NEW c \in Calls, Quench(c)
      PROVE  HoldersRun' /\ ProgressIsHolders'
  BY <1>0, <1>1 DEF Quench, Open, watches
<1>2. ASSUME NEW c \in Calls, ReportArrives(c) \/ ListLoaded(c)
      PROVE  HoldersRun' /\ ProgressIsHolders'
  <2>1. HoldersRun'
    BY <1>0, <1>2 DEF ReportArrives, ListLoaded, Ends, NoCall
  <2>2. ProgressIsHolders'
    BY <1>0, <1>2 DEF ReportArrives, ListLoaded, Ends, NoCall
  <2> QED
    BY <2>1, <2>2
<1>3. ASSUME NEW c \in Calls, ErrorArrives(c) \/ Refused(c)
      PROVE  HoldersRun' /\ ProgressIsHolders'
  <2>1. HoldersRun'
    BY <1>0, <1>3 DEF ErrorArrives, Refused, Answer, Call, watches
  <2>2. ProgressIsHolders'
    BY <1>0, <1>3 DEF ErrorArrives, Refused, Answer, Call, watches
  <2> QED
    BY <2>1, <2>2
<1>4. ASSUME NEW c \in Calls, Enter(c)
      PROVE  HoldersRun' /\ ProgressIsHolders'
  BY <1>0, <1>4 DEF Enter, Call, Holder, watches
<1>5. CASE UNCHANGED <<call, server>>
  BY <1>0, <1>5
<1>6. ASSUME NEW d \in Docs, SendVsd(d) \/ StoreVsd(d) \/ OtherEnters(d)
      PROVE  HoldersRun' /\ ProgressIsHolders'
  <2>1. HoldersRun'
    BY <1>0, <1>6 DEF SendVsd, StoreVsd, OtherEnters, Holder, watches
  <2>2. ProgressIsHolders'
    BY <1>0, <1>6 DEF SendVsd, StoreVsd, OtherEnters, Holder, watches
  <2> QED
    BY <2>1, <2>2
<1>7. ASSUME NEW d \in Docs, Leave(d)
      PROVE  HoldersRun' /\ ProgressIsHolders'
  <2>1. HoldersRun'
    BY <1>0, <1>7 DEF Leave, Answer, Free, Call, Holder, watches
  <2>2. ProgressIsHolders'
    BY <1>0, <1>7 DEF Leave, Answer, Free, Call, Holder, watches
  <2> QED
    BY <2>1, <2>2
<1>8. ASSUME NEW c \in Calls, AnswerLost(c)
      PROVE  HoldersRun' /\ ProgressIsHolders'
  <2>1. HoldersRun'
    BY <1>0, <1>8 DEF AnswerLost, Answer, Call, Holder, watches
  <2>2. ProgressIsHolders'
    BY <1>0, <1>8 DEF AnswerLost, Answer, Call, Holder, watches
  <2> QED
    BY <2>1, <2>2
<1>9. CASE ServerRestarts
  <2>1. HoldersRun'
    BY <1>0, <1>9 DEF ServerRestarts, Free, Call, watches
  <2>2. ProgressIsHolders'
    BY <1>0, <1>9 DEF ServerRestarts, Free, Call, watches
  <2> QED
    BY <2>1, <2>2
<1> QED
  BY <1>1, <1>2, <1>3, <1>4, <1>5, <1>6, <1>7, <1>8, <1>9
  DEF Next, User, Fetch, OfCall, OfDocument, StagePolled, StageShown, Faults, Click, Close, ReadServed, Opened, Reloaded,
      ReadFails, Pull, PollServed, PollIgnored, PollFails, LockedByOther, OtherEnded, vars, watches
-----------------------------------------------------------------------------
(* The request that holds the window, and who unlocks it                   *)

LEMMA OwnStep ==
  ASSUME IInv, [Next]_vars
  PROVE  OwnIsAlone'
<1> USE DEF OwnIsAlone, Active, Open
<1>0. /\ OwnIsAlone /\ WindowOfOpened /\ RequestsOfDocs
      /\ dialog \in Dialog /\ call \in [Calls -> Call] /\ dialog.own \in Calls \cup {Nobody}
  BY DEF IInv, TypeOK, Dialog
<1>1. ASSUME NEW r \in reads, Opened(r) PROVE OwnIsAlone'
  BY <1>1 DEF Opened, Shows
<1>2. CASE Close
  BY <1>2 DEF Close, Closed, Shows
<1>3. ASSUME NEW c \in Calls, Quench(c) PROVE OwnIsAlone'
  <2>1. /\ call' = [call EXCEPT ![c] = [phase |-> "posted", doc |-> dialog.doc, got |-> 0]]
        /\ dialog'.disabled /\ dialog'.doc = dialog.doc /\ busyId' = dialog.doc /\ Open
        /\ dialog'.own = IF \E o \in Calls : Active(o) /\ call[o].doc = dialog.doc THEN Nobody ELSE c
    BY <1>0, <1>3 DEF Quench, Dialog
  <2> QED
    BY <1>0, <2>1
<1>4. ASSUME NEW c \in Calls, ReportArrives(c) \/ ListLoaded(c) PROVE OwnIsAlone'
  <2>1. PICK shown \in Dialog :
          Rest(shown) = Rest(dialog) /\ Ends(c, shown) /\ Active(c) /\ UNCHANGED openedId
    BY <1>4, EndOfRequest
  <2>2. /\ call' = [call EXCEPT ![c] = NoCall] /\ dialog'.doc = dialog.doc
        /\ busyId' = IF busyId = call[c].doc THEN NoDoc ELSE busyId
        /\ IF SameDocument(call[c].doc)
             THEN dialog'.own = IF dialog.own = c THEN Nobody ELSE dialog.own
             ELSE dialog'.own = dialog.own /\ dialog'.disabled = dialog.disabled
    BY <2>1, EndsEffect DEF IInv
  <2>3. CASE SameDocument(call[c].doc)
    <3>1. call[c].doc = dialog.doc
      BY <1>0, <2>3 DEF SameDocument, WindowOfOpened
    <3>2. dialog.own = Nobody \/ dialog.own = c
      BY <1>0, <2>1, <3>1
    <3> QED
      BY <2>2, <2>3, <3>2
  <2>4. CASE ~SameDocument(call[c].doc)
    <3>1. dialog.own # Nobody => call[c].doc # dialog.doc
      BY <1>0, <2>4 DEF SameDocument, WindowOfOpened
    <3> QED
      BY <1>0, <2>2, <2>4, <3>1 DEF NoCall
  <2> QED
    BY <2>3, <2>4
<1>5. CASE Served
  BY <1>0, <1>5, ServedStep DEF SameRequests, script
<1>6. CASE /\ UNCHANGED <<busyId, call>>
           /\ dialog'.doc = dialog.doc /\ dialog'.own = dialog.own /\ dialog'.disabled = dialog.disabled
  BY <1>0, <1>6
<1>7. ASSUME NEW r \in reads, Reloaded(r) \/ ReadFails(r) PROVE OwnIsAlone'
  BY <1>0, <1>6, <1>7 DEF Reloaded, ReadFails, Dialog
<1>8. ASSUME NEW c \in Calls, StageShown(c) PROVE OwnIsAlone'
  BY <1>0, <1>6, <1>8 DEF StageShown, Dialog
<1>9. CASE LockedByOther \/ OtherEnded
  BY <1>0, <1>6, <1>9 DEF LockedByOther, OtherEnded, Dialog
<1> QED
  BY <1>1, <1>2, <1>3, <1>4, <1>5, <1>6, <1>7, <1>8, <1>9
  DEF Next, Served, User, Fetch, OfCall, Faults, Click, ReadServed, StagePolled,
      Pull, PollServed, PollIgnored, PollFails, vars, script

LEMMA LocksStep ==
  ASSUME IInv, [Next]_vars
  PROVE  NoOrphanLock'
<1> USE DEF NoOrphanLock, OwnRequest, Active
<1>0. /\ NoOrphanLock /\ WindowOfOpened /\ RequestsOfDocs
      /\ dialog \in Dialog /\ call \in [Calls -> Call] /\ reads \subseteq Read
      /\ busyId \in Docs \cup {NoDoc}
  BY DEF IInv, TypeOK
<1>1. ASSUME NEW r \in reads, Opened(r) PROVE NoOrphanLock'
  BY <1>0, <1>1 DEF Opened, Shows
<1>2. CASE Close
  BY <1>0, <1>2 DEF Close, Closed, Shows
<1>3. ASSUME NEW c \in Calls, Quench(c) PROVE NoOrphanLock'
  <2>1. /\ call' = [call EXCEPT ![c] = [phase |-> "posted", doc |-> dialog.doc, got |-> 0]]
        /\ dialog'.doc = dialog.doc /\ busyId' = dialog.doc /\ reads' = reads
        /\ dialog'.saw = dialog.saw /\ dialog'.editable = dialog.editable
        /\ dialog'.stranded = dialog.stranded
    BY <1>0, <1>3 DEF Quench, Dialog
  <2>2. call'[c].phase # "idle" /\ call'[c].doc = dialog.doc
    BY <1>0, <2>1
  <2> QED
    BY <1>0, <2>1, <2>2
<1>4. ASSUME NEW c \in Calls, ReportArrives(c) \/ ListLoaded(c) PROVE NoOrphanLock'
  <2>1. PICK shown \in Dialog :
          Rest(shown) = Rest(dialog) /\ Ends(c, shown) /\ UNCHANGED <<openedId, reads>>
    BY <1>4, EndOfRequest
  <2>2. /\ call' = [call EXCEPT ![c] = NoCall] /\ dialog'.doc = dialog.doc
        /\ busyId' = IF busyId = call[c].doc THEN NoDoc ELSE busyId
        /\ dialog'.saw = dialog.saw /\ dialog'.editable = dialog.editable
        /\ dialog'.stranded = dialog.stranded
        /\ IF SameDocument(call[c].doc)
             THEN ~dialog'.stage /\ ~dialog'.disabled
             ELSE dialog'.stage = dialog.stage /\ dialog'.disabled = dialog.disabled
    BY <2>1, EndsEffect DEF IInv
  <2>3. \A d : OwnRequest(d) /\ d # call[c].doc => OwnRequest(d)'
    BY <1>0, <2>2
  <2>4. SameDocument(call[c].doc) \/ dialog.doc # call[c].doc \/ (~dialog.stage /\ ~dialog.disabled)
    BY <1>0 DEF SameDocument, WindowOfOpened
  <2> HIDE DEF OwnRequest
  <2> QED
    BY <1>0, <2>1, <2>2, <2>3, <2>4
<1>5. CASE Served
  BY <1>0, <1>5, ServedStep DEF SameRequests, script
<1>6. ASSUME NEW r \in reads, ReadServed(r) PROVE NoOrphanLock'
  <2>1. \A s \in reads : s.use = "reload" /\ s.doc = dialog.doc =>
          \E t \in reads' : t.use = "reload" /\ t.doc = dialog.doc
    <3> DEFINE u == [r EXCEPT !.rows = quenched[r.doc]]
    <3>1. u \in reads' /\ u.use = r.use /\ u.doc = r.doc
      BY <1>0, <1>6 DEF ReadServed, Read
    <3>2. reads \ {r} \subseteq reads'
      BY <1>6 DEF ReadServed
    <3> QED
      BY <3>1, <3>2
  <2> QED
    BY <1>0, <1>6, <2>1 DEF ReadServed, script
<1>7. ASSUME NEW r \in reads, Reloaded(r) PROVE NoOrphanLock'
  <2>1. r.use = "reload" /\ reads' = reads \ {r} /\ UNCHANGED <<busyId, call>>
        /\ dialog'.doc = dialog.doc /\ dialog'.stage = dialog.stage /\ dialog'.saw = dialog.saw
        /\ dialog'.disabled = dialog.disabled /\ dialog'.stranded = dialog.stranded
        /\ dialog'.editable = (dialog.editable \/ SameDocument(r.doc))
    BY <1>0, <1>7 DEF Reloaded, Dialog
  <2>2. SameDocument(r.doc) \/ r.doc # dialog.doc \/ dialog.editable
    BY <1>0 DEF SameDocument, WindowOfOpened
  <2> QED
    BY <1>0, <2>1, <2>2
<1>8. ASSUME NEW r \in reads, ReadFails(r) PROVE NoOrphanLock'
  <2>1. reads' = reads \ {r} /\ UNCHANGED <<busyId, call>>
        /\ dialog'.doc = dialog.doc /\ dialog'.stage = dialog.stage /\ dialog'.saw = dialog.saw
        /\ dialog'.disabled = dialog.disabled /\ dialog'.editable = dialog.editable
        /\ dialog'.stranded = (dialog.stranded \/ (r.use = "reload" /\ r.doc = dialog.doc))
    BY <1>0, <1>8 DEF ReadFails, Dialog
  <2> QED
    BY <1>0, <2>1
<1>9. ASSUME NEW c \in Calls, StageShown(c) PROVE NoOrphanLock'
  <2>1. Active(c) /\ UNCHANGED <<busyId, call, reads>>
        /\ dialog' = IF SameDocument(call[c].doc) THEN [dialog EXCEPT !.stage = TRUE] ELSE dialog
    BY <1>0, <1>9 DEF StageShown, RequestsOfDocs
  <2>2. SameDocument(call[c].doc) => OwnRequest(dialog.doc)
    BY <1>0, <2>1 DEF SameDocument, WindowOfOpened
  <2> QED
    BY <1>0, <2>1, <2>2 DEF Dialog
<1>10. CASE LockedByOther
  BY <1>0, <1>10 DEF LockedByOther, Dialog
<1>11. CASE OtherEnded
  <2>1. /\ UNCHANGED <<busyId, call>>
        /\ dialog' = [dialog EXCEPT !.saw = FALSE, !.stage = FALSE]
        /\ [use |-> "reload", doc |-> dialog.doc, rows |-> Unread] \in reads'
    BY <1>11 DEF OtherEnded
  <2> QED
    BY <1>0, <2>1 DEF Dialog
<1>12. ASSUME NEW d \in Docs, Click(d) PROVE NoOrphanLock'
  BY <1>0, <1>12 DEF Click, script
<1>13. CASE UNCHANGED <<busyId, dialog, call, reads>>
  BY <1>0, <1>13
<1> QED
  BY <1>1, <1>2, <1>3, <1>4, <1>5, <1>6, <1>7, <1>8, <1>9, <1>10, <1>11, <1>12, <1>13
  DEF Next, Served, User, Fetch, OfCall, Faults, StagePolled, Pull, PollServed, PollIgnored, PollFails,
      vars, script

-----------------------------------------------------------------------------
(* The theorems                                                            *)

LEMMA Invariant == Spec => []IInv
<1>1. IInv /\ [Next]_vars => IInv'
  BY TypesStep, WindowStep, RequestsStep, GateStep, OwnStep, LocksStep DEF IInv
<1> QED
  BY InitTyped, <1>1, PTL DEF Spec

\* Whatever is clicked, answered or lost, the fields of the window and of the
\* gate have their types; no record counts more VSDs than it has.
THEOREM TypesKept == Spec => []TypeOK
BY Invariant, PTL DEF IInv

\* However late a report or a reload comes, the window shows the rows of its
\* own document.
THEOREM RowsKept == Spec => []RowsAreOwn
BY Invariant, PTL DEF IInv

\* While the only request of its document is under way, the window stays
\* disabled and cannot be closed.
THEOREM WindowHeld == Spec => []OwnQuenchHoldsWindow
<1>1. IInv => OwnQuenchHoldsWindow
  BY DEF IInv, OwnIsAlone, OwnQuenchHoldsWindow, Closable, WindowOfOpened, Open
<1> QED
  BY <1>1, Invariant, PTL

\* Every lock of the window has somebody on the way who ends it, unless a
\* reload failed.
THEOREM LocksOwned == Spec => []NoOrphanLock
BY Invariant, PTL DEF IInv

\* The progress store says Running of the documents that are being sent, and
\* of no other.
THEOREM ProgressKept == Spec => []ProgressIsHolders
BY Invariant, PTL DEF IInv
=============================================================================
