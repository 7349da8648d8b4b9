------------------------ MODULE InstanceExchangeProofs ------------------------
(***************************************************************************)
(* The types of InstanceExchange, AssignedStaysPending and                 *)
(* ForcedStaysOrdered, for any number of requests, groups, update files,   *)
(* commands and faults.  While an assignment is owed, every copy that was  *)
(* read after it carries it, so only a request that has missed it can put  *)
(* the record back.                                                        *)
(***************************************************************************)
EXTENDS InstanceExchange, TLAPS

USE InstanceAssumption

Typed == TypeOK /\ RequestsFit

-----------------------------------------------------------------------------
(* Types                                                                   *)

LEMMA BlankTyped ==
  /\ Blank \in Record 
  /\ Free \in Request /\ Fits(Free)
BY DEF Blank, Free, Record, Request, Op, Phase, Schema, Update, Fits

\* A step changes one slot.
LEMMA SlotTyped ==
  ASSUME Typed, NEW w \in Requests, NEW r \in Request, Fits(r),
         req' = [req EXCEPT ![w] = r]
  PROVE  /\ req' \in [Requests -> Request]
         /\ RequestsFit'
BY DEF Typed, TypeOK, RequestsFit

LEMMA FinishTyped ==
  ASSUME Typed, NEW w \in Requests, Finish(w)
  PROVE  req' \in [Requests -> Request] /\ RequestsFit'
BY SlotTyped, BlankTyped DEF Finish

LEMMA HoldTyped ==
  ASSUME Typed, NEW w \in Requests, NEW phase \in Phase, NEW copy \in Record,
         NEW missed \in SUBSET {"owed", "order"},
         req[w].op = "export" /\ phase = "held" => copy.group = req[w].arg,
         req[w].op = "form" => phase \notin {"sent", "touching"},
         Hold(w, phase, copy, missed)
  PROVE  req' \in [Requests -> Request] /\ RequestsFit'
<1> DEFINE r == [req[w] EXCEPT !.phase = phase, !.copy = copy, !.missed = missed]
<1>1. req \in [Requests -> Request] /\ req[w] \in Request /\ Fits(req[w])
  BY DEF Typed, TypeOK, RequestsFit
<1>2. r \in Request /\ Fits(r)
  BY <1>1 DEF Request, Fits
<1>3. req' = [req EXCEPT ![w] = r]
  BY <1>1 DEF Hold
<1> HIDE DEF r
<1> QED
  BY <1>2, <1>3, SlotTyped

LEMMA SendTyped ==
  ASSUME Typed, NEW w \in Requests, NEW op \in Op, NEW phase \in Phase,
         NEW arg \in Schema \cup Update \cup BOOLEAN,
         Fits([op |-> op, phase |-> phase, arg |-> arg, copy |-> Blank, missed |-> Since(op)]),
         Send(w, op, phase, arg)
  PROVE  req' \in [Requests -> Request] /\ RequestsFit'
<1>1. [op |-> op, phase |-> phase, arg |-> arg, copy |-> Blank, missed |-> Since(op)] \in Request
  BY BlankTyped DEF Request, Since
<1> QED
  BY <1>1, SlotTyped DEF Send

\* What is read from a slot has its type.
LEMMA SlotFields ==
  ASSUME Typed, NEW w \in Requests
  PROVE  /\ req[w].copy \in Record
         /\ req[w].copy.forced \in Update
         /\ req[w].copy.group \in Schema
         /\ req[w].arg \in Schema \cup Update \cup BOOLEAN
         /\ req[w].missed \in SUBSET {"owed", "order"}
         /\ Fresh(w) \in SUBSET {"owed", "order"}
         /\ Fits(req[w])
BY DEF Typed, TypeOK, RequestsFit, Request, Record, Fresh

\* A command ends; what the others have missed is their only change.
LEMMA CommandEnds ==
  ASSUME Typed, NEW w \in Requests, NEW what \in {"owed", "order"}, FinishCommand(w, what)
  PROVE  req' \in [Requests -> Request] /\ RequestsFit'
<1>1. Free \in Request /\ Fits(Free)
  BY BlankTyped
<1>2. ASSUME NEW v \in Requests PROVE req'[v] \in Request /\ Fits(req'[v])
  <2>1. req[v] \in Request /\ Fits(req[v])
    BY DEF Typed, TypeOK, RequestsFit
  <2>2. CASE v = w
    BY <1>1, <2>2 DEF FinishCommand
  <2>3. CASE v # w
    <3> DEFINE missed == IF Misses(req[v], what) THEN req[v].missed \cup {what} ELSE req[v].missed
    <3>1. req'[v] = [req[v] EXCEPT !.missed = missed]
      BY <2>3 DEF FinishCommand
    <3>2. missed \in SUBSET {"owed", "order"}
      BY <2>1 DEF Request
    <3> HIDE DEF missed
    <3> QED
      BY <2>1, <3>1, <3>2 DEF Request, Fits
  <2> QED
    BY <2>2, <2>3
<1>3. req' = [v \in Requests |-> req'[v]]
  BY DEF FinishCommand
<1> QED
  BY <1>2, <1>3 DEF RequestsFit

\* Whatever is saved, the debts keep their types.
LEMMA DebtsTyped ==
  ASSUME Typed, NEW w \in Requests, NEW copy
  PROVE  StillOwed(w, copy) \in Schema /\ StillOrdered(w, copy) \in Update
BY DEF Typed, TypeOK, StillOwed, StillOrdered, Schema, Update

\* What a packet may leave in the record.
LEMMA ReportedTyped ==
  ASSUME NEW copy \in Record, NEW incoming \in Schema, NEW new \in Reported(copy, incoming)
  PROVE  /\ new \in Record
         /\ new.forced = copy.forced /\ new.group = copy.group /\ new.modified = copy.modified
         /\ new.snapshot /\ new.schema \in Resolved(copy, incoming)
<1>1. Resolved(copy, incoming) \subseteq Schema
  BY DEF Resolved, Applied, Record
<1>2. PICK s \in Resolved(copy, incoming) : new = Having(copy, s)
  BY DEF Reported
<1> QED
  BY <1>1, <1>2 DEF Record, Having

\* How an assignment is saved: without a group, or with the group's settings if
\* they can be read.
LEMMA AssignmentSaved ==
  ASSUME Typed, NEW w \in Requests, AssignSave(w)
  PROVE  /\ At(w, "assign", "held") /\ req[w].arg \in Schema
         /\ UNCHANGED <<files, instance, legacy, bounds>>
         /\ \E moved \in Record :
              /\ moved.forced = req[w].copy.forced /\ moved.group = req[w].arg
              /\ moved.schema = req[w].copy.schema /\ moved.modified = req[w].copy.modified
              /\ moved.snapshot = req[w].copy.snapshot
              /\ \/ req[w].arg = NoGroup /\ SaveOver(w, moved) /\ Finish(w) /\ UNCHANGED older
                 \/ /\ req[w].arg # NoGroup
                    /\ \E copy \in Record : /\ copy.forced = req[w].copy.forced
                                            /\ copy.group = req[w].arg
                                            /\ Assign(w, req[w].arg, copy)
<1> DEFINE moved == Moved(req[w])
<1>1. At(w, "assign", "held") /\ UNCHANGED <<files, instance, legacy, bounds>>
  BY DEF AssignSave
<1>2. req[w].arg \in Schema /\ req[w].copy \in Record
  BY <1>1, SlotFields DEF At, Fits
<1>3. moved \in Record /\ moved.forced = req[w].copy.forced /\ moved.group = req[w].arg
      /\ moved.schema = req[w].copy.schema /\ moved.modified = req[w].copy.modified
      /\ moved.snapshot = req[w].copy.snapshot
  BY <1>2 DEF Record, Moved
<1>4. \/ req[w].arg = NoGroup /\ SaveOver(w, moved) /\ Finish(w) /\ UNCHANGED older
      \/ req[w].arg # NoGroup /\ \E s \in Applied(req[w].arg, req[w].copy.schema) :
                                   Assign(w, req[w].arg, [moved EXCEPT !.schema = s])
  BY DEF AssignSave
<1> HIDE DEF moved
<1>5. ASSUME NEW s \in Applied(req[w].arg, req[w].copy.schema)
      PROVE  LET copy == [moved EXCEPT !.schema = s]
             IN  copy \in Record /\ copy.forced = req[w].copy.forced /\ copy.group = req[w].arg
  BY <1>2, <1>3 DEF Record, Applied
<1>6. \/ req[w].arg = NoGroup /\ SaveOver(w, moved) /\ Finish(w) /\ UNCHANGED older
      \/ /\ req[w].arg # NoGroup
         /\ \E copy \in Record : /\ copy.forced = req[w].copy.forced
                                 /\ copy.group = req[w].arg
                                 /\ Assign(w, req[w].arg, copy)
  BY <1>4, <1>5
<1> QED
  BY <1>1, <1>2, <1>3, <1>6

\* The instance is told only what it can do.
LEMMA AnswerTyped ==
  ASSUME Typed, NEW w \in Requests, NEW rest \in SUBSET Todo, Answer(w, rest)
  PROVE  awaits' \in Requests \cup {NoRequest} /\ todo' \subseteq Todo
BY DEF Answer, Typed, TypeOK

LEMMA InstanceTyped ==
  ASSUME Typed, Instance
  PROVE  Typed'
<1> USE DEF Typed, TypeOK
<1>1. \A op \in {"settings", "confirm", "download", "handshake"}, phase \in Phase :
        Fits([op |-> op, phase |-> phase, arg |-> NoGroup, copy |-> Blank, missed |-> Since(op)])
  BY DEF Fits
<1>2. FirstPhase \in Phase /\ "sent" \in Phase /\ "ready" \in Phase
  BY DEF FirstPhase, Phase
<1>3. NoGroup \in Schema /\ applied \in Schema
  BY DEF Schema
<1>4. {"settings", "confirm", "download", "handshake", "packet"} \subseteq Op
  BY DEF Op
<1>5. ASSUME NEW w \in Requests, NEW op \in {"settings", "confirm", "download", "handshake"},
             NEW phase \in Phase, Call(w, op, phase, NoGroup), UNCHANGED todo, greeted' \in BOOLEAN
      PROVE  Typed'
  <2>1. req' \in [Requests -> Request] /\ RequestsFit'
    BY <1>1, <1>3, <1>4, <1>5, SendTyped DEF Call
  <2> QED
    BY <2>1, <1>5 DEF Call, history, bounds
<1>6. ASSUME NEW w \in Requests, Post(w) PROVE Typed'
  <2>1. Fits([op |-> "packet", phase |-> "ready", arg |-> applied, copy |-> Blank, missed |-> Since("packet")])
    BY <1>3 DEF Fits
  <2>2. req' \in [Requests -> Request] /\ RequestsFit'
    BY <2>1, <1>2, <1>3, <1>4, <1>6, SendTyped DEF Post, Call
  <2> QED
    BY <2>2, <1>6 DEF Post, Call, history, bounds
<1>7. ASSUME NEW w \in Requests, Greet(w) \/ AskSettings(w) \/ Confirm(w) \/ Download(w)
      PROVE  Typed'
  BY <1>2, <1>5, <1>7 DEF Greet, AskSettings, Confirm, Download
<1>8. CASE ApplySettings
  BY <1>8, <1>3 DEF ApplySettings, Todo, RequestsFit, bounds
<1> QED
  BY <1>6, <1>7, <1>8 DEF Instance

\* Timestamps and packets.
LEMMA PacketTyped ==
  ASSUME Typed, NEW w \in Requests,
         \/ TouchRead(w) \/ TouchSave(w)
         \/ PacketRead(w) \/ PacketSave(w) \/ PacketAnswer(w) \/ PacketForgets(w)
  PROVE  Typed'
<1> USE DEF Typed, TypeOK
<1>1. {"touching", "ready", "held", "saved"} \subseteq Phase /\ NoUpdate \in Update
  BY DEF Phase, Update
<1>2. CASE TouchRead(w)
  <2>1. req' \in [Requests -> Request] /\ RequestsFit'
    BY <1>1, <1>2, HoldTyped, SlotFields DEF TouchRead, Fits
  <2> QED
    BY <1>2, <2>1 DEF TouchRead, instance, history, bounds
<1>3. CASE TouchSave(w)
  <2>1. req' \in [Requests -> Request] /\ RequestsFit'
    BY <1>1, <1>3, HoldTyped, FinishTyped, BlankTyped, SlotFields DEF TouchSave
  <2>2. record' \in Record /\ owed' \in Schema /\ order' \in Update
    BY <1>3, SlotFields, DebtsTyped DEF TouchSave, SaveOver, Save
  <2>3. awaits' \in Requests \cup {NoRequest} /\ todo' \subseteq Todo
    BY <1>3, AnswerTyped DEF TouchSave
  <2> QED
    BY <1>3, <2>1, <2>2, <2>3 DEF TouchSave, history, bounds
<1>4. CASE PacketRead(w)
  <2>1. req[w].op = "packet"
    BY <1>4 DEF PacketRead, ReadRecord, At
  <2>2. req' \in [Requests -> Request] /\ RequestsFit'
    BY <1>1, <1>4, <2>1, HoldTyped, SlotFields DEF PacketRead, ReadRecord
  <2> QED
    BY <1>4, <2>2 DEF PacketRead, ReadRecord, instance, history, bounds
<1>5. CASE PacketSave(w)
  <2>1. req[w].copy \in Record /\ req[w].arg \in Schema
    BY <1>5, SlotFields DEF PacketSave, At, Fits
  <2>2. PICK copy \in Reported(req[w].copy, req[w].arg) :
          /\ record' = copy
          /\ Hold(w, "saved", copy, req[w].missed)
          /\ owed' \in {NoGroup, StillOwed(w, copy)}
          /\ order' = StillOrdered(w, copy)
    BY <1>5 DEF PacketSave, Save
  <2>3. copy \in Record
    BY <2>1, <2>2, ReportedTyped
  <2>4. req' \in [Requests -> Request] /\ RequestsFit'
    BY <1>1, <1>5, <2>2, <2>3, HoldTyped, SlotFields DEF PacketSave, At
  <2>5. owed' \in Schema /\ order' \in Update
    BY <2>2, DebtsTyped DEF Schema
  <2> QED
    BY <1>5, <2>2, <2>3, <2>4, <2>5 DEF PacketSave, instance, bounds
<1>6. ASSUME NEW copy \in Record, NEW offered \in BOOLEAN PROVE Told(copy, offered) \in SUBSET Todo
  BY DEF Told, Todo
<1>7. CASE PacketAnswer(w)
  <2>1. req' \in [Requests -> Request] /\ RequestsFit'
    BY <1>7, FinishTyped DEF PacketAnswer
  <2>2. PICK offered \in BOOLEAN : Answer(w, Told(req[w].copy, offered))
    BY <1>7 DEF PacketAnswer
  <2>3. awaits' \in Requests \cup {NoRequest} /\ todo' \subseteq Todo
    BY <2>2, <1>6, SlotFields, AnswerTyped
  <2> QED
    BY <1>7, <2>1, <2>3 DEF PacketAnswer, history, bounds
<1>8. CASE PacketForgets(w)
  <2>1. req' \in [Requests -> Request] /\ RequestsFit'
    BY <1>8, FinishTyped DEF PacketForgets
  <2>2. PICK offered \in BOOLEAN : Answer(w, Told(req[w].copy, offered))
    BY <1>8 DEF PacketForgets
  <2>3. awaits' \in Requests \cup {NoRequest} /\ todo' \subseteq Todo
    BY <2>2, <1>6, SlotFields, AnswerTyped
  <2>4. record' \in Record
    BY <1>1, <1>8, SlotFields DEF PacketForgets, Save, Record
  <2>5. owed' \in Schema /\ order' \in Update /\ faults' \in 0 .. MaxFaults
    BY <1>1, <1>8, DebtsTyped DEF PacketForgets, Fault
  <2> QED
    BY <1>8, <2>1, <2>3, <2>4, <2>5 DEF PacketForgets
<1> QED
  BY <1>2, <1>3, <1>4, <1>5, <1>7, <1>8

\* Settings, confirmations and downloads.
LEMMA AskedTyped ==
  ASSUME Typed, NEW w \in Requests,
         \/ GiveSettings(w) \/ ConfirmRead(w) \/ ConfirmSave(w)
         \/ DownloadRead(w) \/ DownloadSave(w) \/ DownloadEnds(w)
  PROVE  Typed'
<1> USE DEF Typed, TypeOK
<1>1. {"held", "streaming"} \subseteq Phase /\ NoUpdate \in Update
  BY DEF Phase, Update
<1>2. CASE GiveSettings(w)
  <2>1. req' \in [Requests -> Request] /\ RequestsFit'
    BY <1>2, FinishTyped DEF GiveSettings
  <2>2. awaits' \in Requests \cup {NoRequest} /\ todo' \subseteq Todo
    BY <1>2, AnswerTyped DEF GiveSettings, Todo
  <2>3. fetched' \in Schema /\ older' \in BOOLEAN
    BY <1>2 DEF GiveSettings, Record
  <2> QED
    BY <1>2, <2>1, <2>2, <2>3 DEF GiveSettings, bounds
<1>3. CASE ConfirmRead(w)
  <2>1. req[w].op = "confirm"
    BY <1>3 DEF ConfirmRead, ReadRecord, At
  <2>2. req' \in [Requests -> Request] /\ RequestsFit'
    BY <1>1, <1>3, <2>1, HoldTyped, SlotFields DEF ConfirmRead, ReadRecord
  <2> QED
    BY <1>3, <2>2 DEF ConfirmRead, ReadRecord, instance, history, bounds
<1>4. CASE ConfirmSave(w)
  <2>1. req' \in [Requests -> Request] /\ RequestsFit'
    BY <1>4, FinishTyped DEF ConfirmSave
  <2>2. awaits' \in Requests \cup {NoRequest} /\ todo' \subseteq Todo
    BY <1>4, AnswerTyped DEF ConfirmSave
  <2>3. record' \in Record /\ owed' \in Schema /\ order' \in Update
    BY <1>4, SlotFields, DebtsTyped DEF ConfirmSave, SaveOver, Save, Record
  <2> QED
    BY <1>4, <2>1, <2>2, <2>3 DEF ConfirmSave, bounds
<1>5. CASE DownloadRead(w)
  <2>1. req' \in [Requests -> Request] /\ RequestsFit'
    BY <1>1, <1>5, FinishTyped, HoldTyped, SlotFields DEF DownloadRead, At
  <2>2. awaits' \in Requests \cup {NoRequest} /\ todo' \subseteq Todo
    BY <1>5, AnswerTyped DEF DownloadRead
  <2> QED
    BY <1>5, <2>1, <2>2 DEF DownloadRead, history, bounds
<1>6. CASE DownloadSave(w)
  <2>1. req' \in [Requests -> Request] /\ RequestsFit'
    BY <1>1, <1>6, HoldTyped, SlotFields DEF DownloadSave, At
  <2>2. record' \in Record /\ owed' \in Schema /\ order' \in Update
    BY <1>1, <1>6, SlotFields, DebtsTyped DEF DownloadSave, Save, Record
  <2> QED
    BY <1>1, <1>6, <2>1, <2>2 DEF DownloadSave, instance, bounds
<1>7. CASE DownloadEnds(w)
  <2>1. req' \in [Requests -> Request] /\ RequestsFit'
    BY <1>7, FinishTyped DEF DownloadEnds
  <2>2. awaits' \in Requests \cup {NoRequest} /\ todo' \subseteq Todo
    BY <1>7, AnswerTyped DEF DownloadEnds
  <2> QED
    BY <1>1, <1>7, <2>1, <2>2 DEF DownloadEnds, history, bounds
<1> QED
  BY <1>2, <1>3, <1>4, <1>5, <1>6, <1>7

\* What the server does for the users.
LEMMA CommandTyped ==
  ASSUME Typed, NEW w \in Requests,
         \/ ForceRead(w) \/ ForceSave(w) \/ AssignRead(w) \/ AssignSave(w)
         \/ ExportRead(w) \/ ExportSave(w) \/ FormRead(w) \/ FormSave(w)
  PROVE  Typed'
<1> USE DEF Typed, TypeOK
<1>1. "held" \in Phase /\ NoUpdate \in Update /\ NoGroup \in Schema /\ Groups \subseteq Schema
  BY DEF Phase, Update, Schema
<1>2. CASE ForceRead(w) \/ AssignRead(w) \/ ExportRead(w)
  <2>1. req' \in [Requests -> Request] /\ RequestsFit'
    BY <1>1, <1>2, HoldTyped, FinishTyped, SlotFields DEF ForceRead, AssignRead, ExportRead, ReadRecord, At
  <2> QED
    BY <1>2, <2>1 DEF ForceRead, AssignRead, ExportRead, ReadRecord, instance, history, bounds
<1>3. CASE ForceSave(w)
  <2>1. req' \in [Requests -> Request] /\ RequestsFit'
    BY <1>3, CommandEnds DEF ForceSave
  <2>2. req[w].arg \in Update /\ req[w].copy \in Record
    BY <1>3, SlotFields DEF ForceSave, At, Fits, Update
  <2>3. record' \in Record /\ order' \in Update /\ owed' \in Schema
    BY <1>1, <1>3, <2>2, DebtsTyped DEF ForceSave, Save, Record
  <2> QED
    BY <1>1, <1>3, <2>1, <2>3 DEF ForceSave, instance, bounds
<1>4. ASSUME NEW g \in Schema, NEW copy \in Record, Assign(w, g, copy),
             UNCHANGED <<files, instance, legacy, bounds>>
      PROVE  Typed'
  <2>1. req' \in [Requests -> Request] /\ RequestsFit'
    BY <1>4, CommandEnds DEF Assign
  <2>2. record' \in Record /\ owed' \in Schema /\ order' \in Update /\ older' \in BOOLEAN
    BY <1>1, <1>4, DebtsTyped DEF Assign, Save, Record
  <2> QED
    BY <1>4, <2>1, <2>2 DEF instance, bounds
<1>5. CASE AssignSave(w)
  <2>1. PICK moved \in Record :
          \/ SaveOver(w, moved) /\ Finish(w) /\ UNCHANGED older
          \/ \E copy \in Record : Assign(w, req[w].arg, copy)
    BY <1>5, AssignmentSaved
  <2>2. req[w].arg \in Schema /\ UNCHANGED <<files, instance, legacy, bounds>>
    BY <1>5, AssignmentSaved
  <2>3. CASE SaveOver(w, moved) /\ Finish(w) /\ UNCHANGED older
    BY <2>2, <2>3, FinishTyped, DebtsTyped DEF SaveOver, Save, instance, bounds
  <2> QED
    BY <1>4, <2>1, <2>2, <2>3
<1>8. CASE ExportSave(w)
  <2> DEFINE copy == [req[w].copy EXCEPT !.schema = req[w].arg]
  <2>1. At(w, "export", "held") /\ Assign(w, req[w].arg, copy)
        /\ UNCHANGED <<files, instance, legacy, bounds>>
    BY <1>8 DEF ExportSave
  <2>2. req[w].arg \in Schema /\ req[w].copy \in Record
    BY <1>1, <2>1, SlotFields DEF At, Fits
  <2>3. copy \in Record
    BY <2>2 DEF Record
  <2> HIDE DEF copy
  <2> QED
    BY <1>4, <2>1, <2>2, <2>3
<1>6. CASE FormRead(w)
  <2> DEFINE copy == [record EXCEPT !.group = req[w].copy.group, !.modified = req[w].arg]
             r == [req[w] EXCEPT !.phase = "held", !.copy = copy, !.arg = (copy = record)]
  <2>1. req[w].arg \in BOOLEAN /\ req[w].copy.group \in Schema /\ req[w].op = "form"
    BY <1>6, SlotFields DEF FormRead, At, Fits
  <2>2. copy \in Record
    BY <2>1 DEF Record
  <2>3. (copy = record) \in BOOLEAN
    OBVIOUS
  <2>4. r \in Request /\ Fits(r)
    BY <1>1, <2>1, <2>2, <2>3 DEF Request, Fits
  <2>5. req' = [req EXCEPT ![w] = r]
    BY <1>6 DEF FormRead
  <2>6. req' \in [Requests -> Request] /\ RequestsFit'
    BY <2>4, <2>5, SlotTyped
  <2> QED
    BY <1>6, <2>6 DEF FormRead, instance, history, bounds
<1>7. CASE FormSave(w)
  <2>1. req' \in [Requests -> Request] /\ RequestsFit'
    BY <1>7, FinishTyped DEF FormSave
  <2>2. record' \in Record /\ owed' \in Schema /\ order' \in Update
    BY <1>1, <1>7, SlotFields, DebtsTyped DEF FormSave, Save
  <2> QED
    BY <1>7, <2>1, <2>2 DEF FormSave, instance, bounds
<1> QED
  BY <1>2, <1>3, <1>5, <1>6, <1>7, <1>8

LEMMA UsersTyped ==
  ASSUME Typed, Users
  PROVE  Typed'
<1> USE DEF Typed, TypeOK
<1>1. {"force", "assign", "export", "form"} \subseteq Op /\ "ready" \in Phase
  BY DEF Op, Phase
<1>2. Groups \subseteq Schema /\ Updates \subseteq Update
  BY DEF Schema, Update
<1>3. ASSUME NEW w \in Requests, NEW op \in {"force", "assign", "export"},
             NEW arg \in Schema \cup Update,
             Fits([op |-> op, phase |-> "ready", arg |-> arg, copy |-> Blank, missed |-> Since(op)]), Command(w, op, arg)
      PROVE  Typed'
  <2>1. req' \in [Requests -> Request] /\ RequestsFit'
    BY <1>1, <1>3, SendTyped DEF Command
  <2> QED
    BY <1>3, <2>1 DEF Command, Edit, instance, history
<1>4. ASSUME NEW w \in Requests, NEW u \in Updates, ForceUpdate(w, u) PROVE Typed'
  <2>1. Fits([op |-> "force", phase |-> "ready", arg |-> u, copy |-> Blank, missed |-> Since("force")])
    BY DEF Fits
  <2> QED
    BY <1>2, <1>3, <1>4, <2>1 DEF ForceUpdate
<1>5. ASSUME NEW w \in Requests, NEW g \in Schema, AssignGroup(w, g) \/ ExportSettings(w, g)
      PROVE  Typed'
  <2>1. Fits([op |-> "assign", phase |-> "ready", arg |-> g, copy |-> Blank, missed |-> Since("assign")])
    BY DEF Fits
  <2>2. g # NoGroup => Fits([op |-> "export", phase |-> "ready", arg |-> g, copy |-> Blank, missed |-> Since("export")])
    BY DEF Fits, Schema
  <2> QED
    BY <1>3, <1>5, <2>1, <2>2 DEF AssignGroup, ExportSettings
<1>6. ASSUME NEW w \in Requests, NEW g \in Schema, NEW m \in BOOLEAN, SubmitForm(w, g, m)
      PROVE  Typed'
  <2> DEFINE r == [op |-> "form", phase |-> "ready", arg |-> m, copy |-> [Blank EXCEPT !.group = g], missed |-> {}]
  <2>1. [Blank EXCEPT !.group = g] \in Record
    BY BlankTyped DEF Record
  <2>2. r \in Request /\ Fits(r)
    BY <1>1, <2>1 DEF Request, Fits
  <2>3. req' \in [Requests -> Request] /\ RequestsFit'
    BY <1>6, <2>2, SlotTyped DEF SubmitForm
  <2> QED
    BY <1>6, <2>3 DEF SubmitForm, Edit, instance, history
<1>7. ASSUME NEW u \in Updates, DeleteFile(u) PROVE Typed'
  BY <1>7 DEF DeleteFile, Edit, instance, history, RequestsFit
<1> QED
  BY <1>4, <1>5, <1>6, <1>7 DEF Users

LEMMA FaultTyped ==
  ASSUME Typed, TimeOut \/ \E w \in Requests : SaveSkipped(w) \/ Abort(w)
  PROVE  Typed'
<1> USE DEF Typed, TypeOK
<1>1. CASE TimeOut
  BY <1>1 DEF TimeOut, Fault, history, RequestsFit
<1>2. ASSUME NEW w \in Requests, Abort(w) PROVE Typed'
  <2>1. req' \in [Requests -> Request] /\ RequestsFit'
    BY <1>2, FinishTyped DEF Abort
  <2>2. awaits' \in Requests \cup {NoRequest} /\ todo' \subseteq Todo
    BY <1>2, AnswerTyped DEF Abort
  <2> QED
    BY <1>2, <2>1, <2>2 DEF Abort, Fault, history
<1>3. ASSUME NEW w \in Requests, SaveSkipped(w) PROVE Typed'
  <2>1. Blank \in Record /\ {"ready", "streaming", "saved"} \subseteq Phase
    BY BlankTyped DEF Phase
  <2>2. req[w].copy \in Record /\ (req[w].op = "packet" => req[w].arg \in Schema)
    BY SlotFields DEF Fits
  <2>3. \A copy \in Reported(req[w].copy, req[w].arg) : req[w].op = "packet" => copy \in Record
    BY <2>2, ReportedTyped
  <2>4. req' \in [Requests -> Request] /\ RequestsFit'
    BY <1>3, <2>1, <2>2, <2>3, HoldTyped, SlotFields DEF SaveSkipped, At
  <2>5. awaits' \in Requests \cup {NoRequest} /\ todo' \subseteq Todo
    BY <1>3, AnswerTyped DEF SaveSkipped
  <2> QED
    BY <1>3, <2>4, <2>5 DEF SaveSkipped, Fault, history
<1> QED
  BY <1>1, <1>2, <1>3

LEMMA TypedInvariant == Spec => []Typed
<1>1. Init => Typed
  <2> SUFFICES ASSUME Init PROVE Typed
    OBVIOUS
  <2>1. req \in [Requests -> Request] /\ RequestsFit
    BY BlankTyped DEF Init, RequestsFit
  <2>2. record \in Record
    BY DEF Init, Record, Schema, Update
  <2> QED
    <3>1. 0 \in 0 .. MaxEdits /\ 0 \in 0 .. MaxFaults
      OBVIOUS
    <3>2. NoGroup \in Schema /\ NoUpdate \in Update
      BY DEF Schema, Update
    <3> QED
      BY <2>1, <2>2, <3>1, <3>2, BlankTyped DEF Init, Typed, TypeOK
<1>2. Typed /\ [Next]_vars => Typed'
  <2> SUFFICES ASSUME Typed, [Next]_vars PROVE Typed'
    OBVIOUS
  <2>1. CASE UNCHANGED vars
    BY <2>1 DEF vars, instance, history, bounds, Typed, TypeOK, RequestsFit
  <2>2. ASSUME NEW w \in Requests, Server(w) PROVE Typed'
    BY <2>2, PacketTyped, AskedTyped, CommandTyped DEF Server
  <2> QED
    BY <2>1, <2>2, InstanceTyped, UsersTyped, FaultTyped DEF Next
<1> QED
  BY <1>1, <1>2, PTL DEF Spec

\* Every variable keeps its type: no copy that is read, changed and saved
\* brings anything into the record that does not belong there.
THEOREM TypesKept == Spec => []TypeOK
BY TypedInvariant, PTL DEF Typed

-----------------------------------------------------------------------------
(* One slot changes, the others stay, but for what they have missed         *)

\* What the other requests do, hold and carry stays as it is.
Beside(w) ==
  \A v \in Requests \ {w} :
    /\ req'[v].op = req[v].op /\ req'[v].phase = req[v].phase
    /\ req'[v].arg = req[v].arg /\ req'[v].copy = req[v].copy
    /\ req[v].missed \subseteq req'[v].missed

LEMMA SlotChanges ==
  ASSUME Typed, NEW w \in Requests, NEW r, req' = [req EXCEPT ![w] = r]
  PROVE  req'[w] = r /\ Beside(w)
BY DEF Typed, TypeOK, Beside

LEMMA HoldChanges ==
  ASSUME Typed, NEW w \in Requests, NEW phase, NEW copy, NEW missed, Hold(w, phase, copy, missed)
  PROVE  /\ req'[w].op = req[w].op /\ req'[w].phase = phase /\ req'[w].copy = copy
         /\ req'[w].arg = req[w].arg /\ req'[w].missed = missed
         /\ Beside(w)
<1>1. req[w] \in Request
  BY DEF Typed, TypeOK
<1> QED
  BY <1>1 DEF Hold, Typed, TypeOK, Request, Beside

LEMMA FinishChanges ==
  ASSUME Typed, NEW w \in Requests, Finish(w)
  PROVE  req'[w].op = "none" /\ req'[w].phase = "free" /\ Beside(w)
<1>1. req'[w] = Free
  BY DEF Finish, Typed, TypeOK
<1> QED
  BY <1>1 DEF Finish, Free, Typed, TypeOK, Beside

\* A command that ends tells the others what they have missed.
LEMMA CommandChanges ==
  ASSUME Typed, NEW w \in Requests, NEW what, FinishCommand(w, what)
  PROVE  /\ req'[w].op = "none" /\ req'[w].phase = "free" /\ Beside(w)
         /\ \A v \in Requests \ {w} : Misses(req[v], what) => what \in req'[v].missed
<1>1. req'[w] = Free
  BY DEF FinishCommand
<1>2. ASSUME NEW v \in Requests \ {w}
      PROVE  /\ req'[v].op = req[v].op /\ req'[v].phase = req[v].phase
             /\ req'[v].arg = req[v].arg /\ req'[v].copy = req[v].copy
             /\ req[v].missed \subseteq req'[v].missed
             /\ Misses(req[v], what) => what \in req'[v].missed
  <2> DEFINE missed == IF Misses(req[v], what) THEN req[v].missed \cup {what} ELSE req[v].missed
  <2>1. req[v] \in Request
    BY DEF Typed, TypeOK
  <2>2. req'[v] = [req[v] EXCEPT !.missed = missed]
    BY DEF FinishCommand
  <2>3. req[v].missed \subseteq missed /\ (Misses(req[v], what) => what \in missed)
    OBVIOUS
  <2> HIDE DEF missed
  <2> QED
    BY <2>1, <2>2, <2>3 DEF Request
<1> QED
  BY <1>1, <1>2 DEF Free, Beside

LEMMA SendChanges ==
  ASSUME Typed, NEW w \in Requests, NEW op, NEW phase, NEW arg, Send(w, op, phase, arg)
  PROVE  req'[w].op = op /\ req'[w].phase = phase /\ req'[w].missed = Since(op) /\ Beside(w)
<1> DEFINE r == [op |-> op, phase |-> phase, arg |-> arg, copy |-> Blank, missed |-> Since(op)]
<1>1. req'[w] = r
  BY DEF Send, Typed, TypeOK
<1> QED
  BY <1>1 DEF Send, Typed, TypeOK, Beside

\* The form goes on from the record as it is now.
LEMMA FormChanges ==
  ASSUME Typed, NEW w \in Requests, FormRead(w)
  PROVE  /\ req'[w].op = "form" /\ req'[w].phase = "held" /\ Beside(w)
         /\ req'[w].copy.forced = record.forced
         /\ req'[w].arg => req'[w].copy = record
<1> DEFINE copy == [record EXCEPT !.group = req[w].copy.group, !.modified = req[w].arg]
           r == [req[w] EXCEPT !.phase = "held", !.copy = copy, !.arg = (copy = record)]
<1>1. req[w] \in Request /\ record \in Record /\ req[w].op = "form"
  BY DEF Typed, TypeOK, FormRead, At
<1>2. /\ r.op = "form" /\ r.phase = "held" /\ r.copy = copy /\ (r.arg => copy = record)
      /\ copy.forced = record.forced
  BY <1>1 DEF Request, Record
<1>3. req' = [req EXCEPT ![w] = r]
  BY DEF FormRead
<1> HIDE DEF copy, r
<1> QED
  BY <1>2, <1>3, SlotChanges

\* A user submits the form.
LEMMA SubmitChanges ==
  ASSUME Typed, NEW w \in Requests, NEW g \in Schema, NEW m \in BOOLEAN, SubmitForm(w, g, m)
  PROVE  req'[w].op = "form" /\ req'[w].phase = "ready" /\ Beside(w)
<1> DEFINE r == [op |-> "form", phase |-> "ready", arg |-> m, copy |-> [Blank EXCEPT !.group = g], missed |-> {}]
<1>1. req' = [req EXCEPT ![w] = r] /\ r.op = "form" /\ r.phase = "ready"
  BY DEF SubmitForm
<1> HIDE DEF r
<1> QED
  BY <1>1, SlotChanges

-----------------------------------------------------------------------------
(* A forced update                                                         *)

\* Nothing is ordered anew: record and copy in the changed slot have what is
\* still ordered.
LEMMA OrderStep ==
  ASSUME OrderInv, NEW w \in Requests, Beside(w),
         order' # NoUpdate =>
           /\ order' = order
           /\ record'.forced = order
           /\ req'[w].phase \in Holding /\ "order" \notin req'[w].missed => req'[w].copy.forced = order
  PROVE  OrderInv'
BY DEF OrderInv, Beside

\* The request goes away or does not hold a copy; the record stays.
LEMMA OrderKept ==
  ASSUME OrderInv, NEW w \in Requests, Beside(w), req'[w].phase \notin Holding,
         UNCHANGED <<record, order>>
  PROVE  OrderInv'
BY OrderStep DEF OrderInv

LEMMA InstanceOrder ==
  ASSUME Typed, OrderInv, Instance
  PROVE  OrderInv'
<1>1. FirstPhase \notin Holding /\ "sent" \notin Holding /\ "ready" \notin Holding
  BY DEF FirstPhase, Holding
<1>2. ASSUME NEW w \in Requests, NEW op, NEW phase, NEW arg, Call(w, op, phase, arg),
             phase \notin Holding
      PROVE  OrderInv'
  BY <1>2, SendChanges, OrderKept DEF Call, history
<1>3. ASSUME NEW w \in Requests,
             Greet(w) \/ Post(w) \/ AskSettings(w) \/ Confirm(w) \/ Download(w)
      PROVE  OrderInv'
  BY <1>1, <1>2, <1>3 DEF Greet, Post, AskSettings, Confirm, Download
<1>4. CASE ApplySettings
  BY <1>4 DEF ApplySettings, OrderInv
<1> QED
  BY <1>3, <1>4 DEF Instance

LEMMA ReadOrder ==
  ASSUME Typed, OrderInv, NEW w \in Requests,
         \/ TouchRead(w) \/ PacketRead(w) \/ ConfirmRead(w) \/ DownloadRead(w)
         \/ ForceRead(w) \/ AssignRead(w) \/ ExportRead(w) \/ FormRead(w)
  PROVE  OrderInv'
<1>1. "free" \notin Holding /\ UNCHANGED <<record, order>>
  BY DEF Holding, TouchRead, PacketRead, ConfirmRead, DownloadRead, ForceRead, AssignRead,
     ExportRead, FormRead, ReadRecord, history
<1>2. CASE \E phase \in Phase : Hold(w, phase, record, Fresh(w))
  BY <1>1, <1>2, HoldChanges, OrderStep DEF OrderInv
<1>3. CASE Finish(w)
  BY <1>1, <1>3, FinishChanges, OrderKept
<1>4. CASE FormRead(w)
  BY <1>1, <1>4, FormChanges, OrderStep DEF OrderInv
<1> QED
  BY <1>2, <1>3, <1>4
     DEF TouchRead, PacketRead, ConfirmRead, DownloadRead, ForceRead, AssignRead, ExportRead,
         ReadRecord, Phase

\* Of a copy that is saved with its forced update as it was read, what is still
\* ordered is there.
LEMMA StillThere ==
  ASSUME OrderInv, NEW w \in Requests, req[w].phase \in Holding,
         NEW copy, copy.forced = req[w].copy.forced,
         order' = StillOrdered(w, copy)
  PROVE  order' # NoUpdate => order' = order /\ copy.forced = order
BY DEF OrderInv, StillOrdered

LEMMA SaveOrder ==
  ASSUME Typed, OrderInv, NEW w \in Requests,
         \/ TouchSave(w) \/ PacketSave(w) \/ ConfirmSave(w)
         \/ AssignSave(w) \/ ExportSave(w) \/ FormSave(w)
  PROVE  OrderInv'
<1>1. req[w].phase \in Holding
  BY AssignmentSaved DEF Holding, TouchSave, PacketSave, ConfirmSave, ExportSave, FormSave, At
<1>2. req[w].copy \in Record
  BY SlotFields
<1>3. "free" \notin Holding /\ "ready" \notin Holding
  BY DEF Holding
<1>4. ASSUME NEW copy, copy.forced = req[w].copy.forced, record' = copy,
             order' = StillOrdered(w, copy), req'[w].phase \notin Holding, Beside(w)
      PROVE  OrderInv'
  BY <1>1, <1>4, StillThere, OrderStep
<1>5. CASE TouchSave(w)
  <2>1. req'[w].phase \notin Holding /\ Beside(w)
    BY <1>3, <1>5, HoldChanges, FinishChanges DEF TouchSave
  <2> QED
    BY <1>4, <1>5, <2>1 DEF TouchSave, SaveOver, Save
<1>6. CASE PacketSave(w)
  <2>1. PICK copy \in Reported(req[w].copy, req[w].arg) :
          /\ record' = copy
          /\ Hold(w, "saved", copy, req[w].missed)
          /\ order' = StillOrdered(w, copy)
    BY <1>6 DEF PacketSave, Save
  <2>2. req[w].arg \in Schema
    BY <1>6, SlotFields DEF PacketSave, At, Fits
  <2>4. copy.forced = req[w].copy.forced
    BY <1>2, <2>1, <2>2, ReportedTyped
  <2>3. req'[w].copy = copy /\ Beside(w)
    BY <2>1, HoldChanges
  <2> QED
    BY <1>1, <2>1, <2>3, <2>4, StillThere, OrderStep
<1>7. CASE ConfirmSave(w)
  <2> DEFINE copy == [req[w].copy EXCEPT !.modified = FALSE]
  <2>1. copy.forced = req[w].copy.forced
    BY <1>2 DEF Record
  <2>2. record' = copy /\ order' = StillOrdered(w, copy) /\ Finish(w)
    BY <1>7 DEF ConfirmSave, SaveOver, Save
  <2> HIDE DEF copy
  <2> QED
    BY <1>3, <1>4, <2>1, <2>2, FinishChanges
<1>8. CASE FormSave(w)
  BY <1>3, <1>4, <1>8, FinishChanges DEF FormSave, Save
<1>9. ASSUME NEW g, NEW copy \in Record, copy.forced = req[w].copy.forced, Assign(w, g, copy)
      PROVE  OrderInv'
  <2>1. Beside(w) /\ req'[w].phase \notin Holding
    BY <1>3, <1>9, CommandChanges DEF Assign
  <2>2. record'.forced = copy.forced /\ order' = StillOrdered(w, copy)
    BY <1>9 DEF Assign, Save, Record
  <2> QED
    BY <1>1, <1>9, <2>1, <2>2, StillThere, OrderStep
<1>10. CASE AssignSave(w)
  <2>1. PICK moved \in Record :
          /\ moved.forced = req[w].copy.forced
          /\ \/ SaveOver(w, moved) /\ Finish(w)
             \/ \E copy \in Record : copy.forced = req[w].copy.forced /\ Assign(w, req[w].arg, copy)
    BY <1>10, AssignmentSaved
  <2>2. CASE SaveOver(w, moved) /\ Finish(w)
    BY <1>3, <1>4, <2>1, <2>2, FinishChanges DEF SaveOver, Save
  <2> QED
    BY <1>9, <2>1, <2>2
<1>11. CASE ExportSave(w)
  <2> DEFINE copy == [req[w].copy EXCEPT !.schema = req[w].arg]
  <2>1. At(w, "export", "held") /\ Assign(w, req[w].arg, copy)
    BY <1>11 DEF ExportSave
  <2>2. req[w].arg \in Schema
    BY <2>1, SlotFields DEF At, Fits, Schema
  <2>3. copy \in Record /\ copy.forced = req[w].copy.forced
    BY <1>2, <2>2 DEF Record
  <2> HIDE DEF copy
  <2> QED
    BY <1>9, <2>1, <2>3
<1> QED
  BY <1>5, <1>6, <1>7, <1>8, <1>10, <1>11

\* The update goes out or is not found, and is not ordered any more; or another
\* takes its place, and whoever holds a copy has missed that.
LEMMA ForgetOrder ==
  ASSUME Typed, OrderInv, NEW w \in Requests,
         PacketForgets(w) \/ DownloadSave(w) \/ ForceSave(w)
  PROVE  OrderInv'
<1>1. CASE PacketForgets(w) \/ DownloadSave(w)
  <2>1. req[w].phase \in Holding
    BY <1>1 DEF PacketForgets, DownloadSave, At, Holding
  <2>2. order' = NoUpdate
    BY <1>1, <2>1 DEF PacketForgets, DownloadSave, OrderInv
  <2> QED
    BY <2>2 DEF OrderInv
<1>2. CASE ForceSave(w)
  <2>1. record'.forced = req[w].arg /\ order' = req[w].arg
    BY <1>2, SlotFields DEF ForceSave, Save, Record
  <2>2. /\ req'[w].phase = "free" /\ Beside(w)
        /\ \A v \in Requests \ {w} : Misses(req[v], "order") => "order" \in req'[v].missed
    BY <1>2, CommandChanges DEF ForceSave
  <2> QED
    BY <2>1, <2>2 DEF OrderInv, Misses, Beside, Holding
<1> QED
  BY <1>1, <1>2

LEMMA SkipOrder ==
  ASSUME Typed, OrderInv, NEW w \in Requests, SaveSkipped(w)
  PROVE  OrderInv'
<1>1. record' = record /\ order' = order /\ req[w].copy \in Record
  BY SlotFields DEF SaveSkipped, history
<1>2. "ready" \notin Holding /\ "streaming" \notin Holding /\ "held" \in Holding
  BY DEF Holding
<1>3. ASSUME At(w, "packet", "held"), NEW copy \in Reported(req[w].copy, req[w].arg),
             NEW missed, req[w].missed \subseteq missed, Hold(w, "saved", copy, missed)
      PROVE  OrderInv'
  <2>3. req[w].arg \in Schema
    BY <1>3, SlotFields DEF At, Fits
  <2>1. copy.forced = req[w].copy.forced
    BY <1>1, <1>3, <2>3, ReportedTyped
  <2>2. req'[w].copy = copy /\ req'[w].missed = missed /\ Beside(w)
    BY <1>3, HoldChanges
  <2> QED
    BY <1>1, <1>2, <1>3, <2>1, <2>2, OrderStep DEF OrderInv, At
<1>4. CASE Hold(w, "ready", Blank, Fresh(w)) \/ Hold(w, "streaming", req[w].copy, req[w].missed)
  BY <1>1, <1>2, <1>4, HoldChanges, OrderKept
<1>5. CASE /\ At(w, "packet", "held")
           /\ \E copy \in Reported(req[w].copy, req[w].arg) :
                Hold(w, "saved", copy, IF KeepsOwn(req[w], copy) THEN req[w].missed \cup {"owed"}
                                       ELSE req[w].missed)
  <2>1. PICK copy \in Reported(req[w].copy, req[w].arg) :
          Hold(w, "saved", copy, IF KeepsOwn(req[w], copy) THEN req[w].missed \cup {"owed"}
                                 ELSE req[w].missed)
    BY <1>5
  <2>2. req[w].missed \subseteq IF KeepsOwn(req[w], copy) THEN req[w].missed \cup {"owed"} ELSE req[w].missed
    OBVIOUS
  <2> QED
    BY <1>3, <1>5, <2>1, <2>2
<1> QED
  BY <1>4, <1>5 DEF SaveSkipped

LEMMA RestOrder ==
  ASSUME Typed, OrderInv,
         \/ \E w \in Requests : \/ PacketAnswer(w) \/ GiveSettings(w) \/ DownloadEnds(w)
                                \/ Abort(w)
         \/ TimeOut \/ Users
  PROVE  OrderInv'
<1>1. "free" \notin Holding /\ "ready" \notin Holding
  BY DEF Holding
<1>2. ASSUME NEW w \in Requests,
             PacketAnswer(w) \/ GiveSettings(w) \/ DownloadEnds(w) \/ Abort(w)
      PROVE  OrderInv'
  <2>1. Finish(w) /\ UNCHANGED <<record, order>>
    BY <1>2 DEF PacketAnswer, GiveSettings, DownloadEnds, Abort, history
  <2> QED
    BY <1>1, <2>1, FinishChanges, OrderKept
<1>3. CASE TimeOut \/ \E u \in Updates : DeleteFile(u)
  BY <1>3 DEF TimeOut, DeleteFile, history, OrderInv
<1>4. ASSUME NEW w \in Requests, NEW op, NEW arg, Command(w, op, arg) PROVE OrderInv'
  BY <1>1, <1>4, SendChanges, OrderKept DEF Command, history
<1>5. ASSUME NEW w \in Requests, NEW g \in Schema, NEW m \in BOOLEAN, SubmitForm(w, g, m)
      PROVE  OrderInv'
  BY <1>1, <1>5, SubmitChanges, OrderKept DEF SubmitForm, history
<1> QED
  BY <1>2, <1>3, <1>4, <1>5 DEF Users, ForceUpdate, AssignGroup, ExportSettings

LEMMA OrderInvariant == Spec => []OrderInv
<1>1. Init => OrderInv
  BY DEF Init, OrderInv
<1>2. Typed /\ OrderInv /\ [Next]_vars => OrderInv'
  <2> SUFFICES ASSUME Typed, OrderInv, [Next]_vars PROVE OrderInv'
    OBVIOUS
  <2>1. CASE UNCHANGED vars
    BY <2>1 DEF vars, history, OrderInv
  <2>2. ASSUME NEW w \in Requests, Server(w) PROVE OrderInv'
    BY <2>2, ReadOrder, SaveOrder, ForgetOrder, RestOrder DEF Server
  <2> QED
    BY <2>1, <2>2, InstanceOrder, SkipOrder, RestOrder DEF Next
<1> QED
  BY <1>1, <1>2, TypedInvariant, PTL DEF Spec

\* A forced update stays in the record until it is handed out or its lookup
\* fails, unless a request that had read the record before the command was saved
\* puts it back: no request that reads the record later takes the update away.
THEOREM ForcedUpdateKept == Spec => []ForcedStaysOrdered
<1>1. OrderInv => ForcedStaysOrdered
  BY DEF OrderInv, ForcedStaysOrdered
<1> QED
  BY <1>1, OrderInvariant, PTL

-----------------------------------------------------------------------------
(* An assigned schema                                                      *)

\* Nothing is assigned anew: what has not missed the assignment carries what is
\* still owed, and confirms nothing else.
LEMMA OwedStep ==
  ASSUME OwedInv, NEW w \in Requests, Beside(w),
         owed' # NoGroup =>
           /\ owed' = owed
           /\ Carries(record', owed)
           /\ "owed" \notin req'[w].missed =>
                req'[w].op # "confirm" /\ (Saves(req'[w]) => Carries(req'[w].copy, owed))
           /\ ~older' => "confirm" \notin todo' /\ ("apply" \in todo' => fetched' = owed)
  PROVE  OwedInv'
BY DEF OwedInv, Saves, Carries, Beside

\* The request goes away or does not hold a copy; record and instance stay.
LEMMA OwedKept ==
  ASSUME OwedInv, NEW w \in Requests, Beside(w), req'[w].phase \notin Holding,
         owed # NoGroup /\ req'[w].op = "confirm" => "owed" \in req'[w].missed,
         UNCHANGED <<record, owed, older, todo, fetched>>
  PROVE  OwedInv'
<1>1. ~Saves(req'[w])
  BY DEF Saves
<1> QED
  BY <1>1, OwedStep DEF OwedInv

LEMMA InstanceOwed ==
  ASSUME Typed, OwedInv, Instance
  PROVE  OwedInv'
<1>1. FirstPhase \notin Holding /\ "sent" \notin Holding /\ "ready" \notin Holding
  BY DEF FirstPhase, Holding
<1>2. ASSUME NEW w \in Requests, NEW op, NEW phase, NEW arg, Call(w, op, phase, arg),
             phase \notin Holding, owed # NoGroup /\ op = "confirm" => older, UNCHANGED todo
      PROVE  OwedInv'
  BY <1>2, SendChanges, OwedKept DEF Call, history, Since
<1>3. ASSUME NEW w \in Requests,
             Greet(w) \/ Post(w) \/ AskSettings(w) \/ Download(w)
      PROVE  OwedInv'
  BY <1>1, <1>2, <1>3 DEF Greet, Post, AskSettings, Download
<1>4. ASSUME NEW w \in Requests, Confirm(w) PROVE OwedInv'
  <2>1. owed # NoGroup => older
    BY <1>4 DEF Confirm, OwedInv
  <2> QED
    BY <1>1, <1>2, <1>4, <2>1 DEF Confirm
<1>5. CASE ApplySettings
  <2>1. UNCHANGED <<record, req, older, fetched>> /\ (owed' # NoGroup => owed' = owed /\ older)
    BY <1>5 DEF ApplySettings, OwedInv
  <2> QED
    BY <2>1 DEF OwedInv, Carries, Saves
<1> QED
  BY <1>3, <1>4, <1>5 DEF Instance

\* A confirmation that goes on has missed what it had missed.
LEMMA StaysOlder ==
  ASSUME OwedInv, NEW w \in Requests, owed # NoGroup, req[w].op = "confirm"
  PROVE  "owed" \in Fresh(w)
BY DEF OwedInv, Fresh

LEMMA ReadOwed ==
  ASSUME Typed, OwedInv, NEW w \in Requests,
         \/ TouchRead(w) \/ PacketRead(w) \/ ConfirmRead(w)
         \/ ForceRead(w) \/ AssignRead(w) \/ ExportRead(w) \/ FormRead(w)
  PROVE  OwedInv'
<1>1. UNCHANGED <<record, owed, older, todo, fetched>>
  BY DEF TouchRead, PacketRead, ConfirmRead, ForceRead, AssignRead, ExportRead, FormRead,
     ReadRecord, instance, history
<1>2. CASE \E phase \in Phase : Hold(w, phase, record, Fresh(w))
  <2>1. /\ req'[w].op = req[w].op /\ req'[w].copy = record /\ req'[w].missed = Fresh(w)
        /\ Beside(w)
    BY <1>2, HoldChanges
  <2> QED
    BY <1>1, <2>1, StaysOlder, OwedStep DEF OwedInv
<1>3. CASE Finish(w)
  BY <1>1, <1>3, FinishChanges, OwedKept DEF Holding
<1>4. CASE FormRead(w)
  <2>1. Saves(req'[w]) => req'[w].copy = record
    BY <1>4, FormChanges DEF Saves
  <2> QED
    BY <1>1, <1>4, <2>1, FormChanges, OwedStep DEF OwedInv
<1> QED
  BY <1>2, <1>3, <1>4
     DEF TouchRead, PacketRead, ConfirmRead, ForceRead, AssignRead, ExportRead, ReadRecord, Phase

\* Of a copy that is saved with its settings as they were read, what is still
\* owed is there.
LEMMA StillCarried ==
  ASSUME OwedInv, NEW w \in Requests, Saves(req[w]), NEW copy,
         Carries(req[w].copy, owed) => Carries(copy, owed),
         owed' = StillOwed(w, copy), owed' # NoGroup
  PROVE  owed' = owed /\ Carries(copy, owed)
BY DEF OwedInv, StillOwed

\* Such a copy is saved, and the request ends or goes on without it.
LEMMA SavedOwed ==
  ASSUME Typed, OwedInv, NEW w \in Requests, Saves(req[w]), NEW copy,
         Carries(req[w].copy, owed) => Carries(copy, owed),
         Carries(copy, owed) => Carries(record', owed),
         owed' = StillOwed(w, copy),
         Beside(w), req'[w].phase \notin Holding,
         \/ req'[w].op # "confirm"
         \/ req'[w].op = req[w].op /\ req'[w].missed = Fresh(w),
         older' = older, fetched' = fetched,
         todo' \subseteq todo \cup {"settings", "update"}
  PROVE  OwedInv'
<1>1. owed' # NoGroup => owed' = owed /\ Carries(record', owed)
  BY StillCarried
<1>2. ~Saves(req'[w])
  BY DEF Saves
<1>3. owed' # NoGroup /\ req'[w].op = "confirm" => "owed" \in req'[w].missed
  BY <1>1, StaysOlder
<1>4. owed' # NoGroup => (~older' => "confirm" \notin todo' /\ ("apply" \in todo' => fetched' = owed))
  BY <1>1 DEF OwedInv
<1> QED
  BY <1>1, <1>2, <1>3, <1>4, OwedStep

\* Only the forced update of the copy is changed.
LEMMA ForcedCarries ==
  ASSUME NEW copy \in Record, NEW u \in Update, NEW g, Carries(copy, g)
  PROVE  Carries([copy EXCEPT !.forced = u], g)
BY DEF Carries, Record

\* A packet drops flagged settings only when it is the instance's first.
LEMMA ReportCarries ==
  ASSUME NEW copy \in Record, NEW incoming \in Schema, NEW g, g # NoGroup, Carries(copy, g),
         NEW new \in Reported(copy, incoming)
  PROVE  Carries(new, g) \/ (~copy.snapshot /\ new.schema = incoming)
<1>1. new.modified = copy.modified /\ new.snapshot /\ new.schema \in Resolved(copy, incoming)
  BY ReportedTyped
<1> QED
  BY <1>1 DEF Carries, Resolved, Applied

LEMMA SaveOwed ==
  ASSUME Typed, OwedInv, NEW w \in Requests,
         TouchSave(w) \/ PacketSave(w) \/ PacketForgets(w) \/ ConfirmSave(w)
  PROVE  OwedInv'
<1>1. /\ "free" \notin Holding /\ "ready" \notin Holding
      /\ "touching" \in Holding /\ "held" \in Holding /\ "saved" \in Holding
      /\ NoUpdate \in Update
  BY DEF Holding, Update
<1>2. CASE ConfirmSave(w)
  <2> DEFINE copy == [req[w].copy EXCEPT !.modified = FALSE]
  <2>1. req[w].op = "confirm" /\ owed' = StillOwed(w, copy)
    BY <1>2 DEF ConfirmSave, SaveOver, At
  <2>2. ~Carries(copy, owed)
    BY SlotFields DEF Carries, Record
  <2>3. owed' = NoGroup
    BY <2>1, <2>2 DEF StillOwed, OwedInv
  <2> QED
    BY <2>3 DEF OwedInv
<1>3. CASE TouchSave(w)
  <2>1. Saves(req[w])
    BY <1>1, <1>3, SlotFields DEF TouchSave, Saves, Fits
  <2>2. /\ req'[w].phase \notin Holding /\ Beside(w)
        /\ req'[w].op # "confirm" \/ (req'[w].op = req[w].op /\ req'[w].missed = Fresh(w))
    BY <1>1, <1>3, HoldChanges, FinishChanges DEF TouchSave
  <2>3. /\ record' = req[w].copy /\ owed' = StillOwed(w, req[w].copy)
        /\ older' = older /\ fetched' = fetched /\ todo' = todo
    BY <1>3 DEF TouchSave, SaveOver, Save, Answer
  <2> QED
    BY <2>1, <2>2, <2>3, SavedOwed
<1>4. CASE PacketForgets(w)
  <2>1. Saves(req[w])
    BY <1>1, <1>4 DEF PacketForgets, At, Saves
  <2>2. req'[w].phase = "free" /\ req'[w].op = "none" /\ Beside(w)
    BY <1>4, FinishChanges DEF PacketForgets
  <2>3. /\ record' = [req[w].copy EXCEPT !.forced = NoUpdate]
        /\ owed' = StillOwed(w, req[w].copy) /\ older' = older /\ fetched' = fetched
    BY <1>4 DEF PacketForgets, Save
  <2>4. todo' \subseteq todo \cup {"settings", "update"}
    BY <1>4 DEF PacketForgets, Answer, Told
  <2>5. Carries(req[w].copy, owed) => Carries(record', owed)
    BY <1>1, <2>3, SlotFields, ForcedCarries
  <2> QED
    BY <1>1, <2>1, <2>2, <2>3, <2>4, <2>5, SavedOwed
<1>5. CASE PacketSave(w)
  <2>1. Saves(req[w]) /\ req[w].op = "packet" /\ UNCHANGED <<older, todo, fetched>>
    BY <1>1, <1>5 DEF PacketSave, At, Saves, instance
  <2>2. PICK copy \in Reported(req[w].copy, req[w].arg) :
          /\ record' = copy
          /\ Hold(w, "saved", copy, req[w].missed)
          /\ owed' = IF KeepsOwn(req[w], copy) /\ ~Carries(copy, owed) THEN NoGroup
                     ELSE StillOwed(w, copy)
    BY <1>5 DEF PacketSave, Save
  <2>3. req[w].copy \in Record /\ req[w].arg \in Schema
    BY <2>1, SlotFields DEF Fits
  <2>4. /\ req'[w].copy = copy /\ req'[w].op = "packet" /\ req'[w].missed = req[w].missed
        /\ Beside(w)
    BY <2>1, <2>2, HoldChanges
  <2>5. owed # NoGroup /\ Carries(req[w].copy, owed) => Carries(copy, owed) \/ KeepsOwn(req[w], copy)
    BY <2>3, ReportCarries DEF KeepsOwn
  <2>6. ASSUME owed' # NoGroup PROVE owed' = owed /\ Carries(copy, owed)
    BY <2>1, <2>2, <2>5, <2>6 DEF StillOwed, OwedInv
  <2> QED
    BY <2>1, <2>2, <2>4, <2>6, OwedStep DEF OwedInv
<1> QED
  BY <1>2, <1>3, <1>4, <1>5

\* An assignment is owed if its settings could be applied and the instance does
\* not run with them; whoever is under way has missed it.
LEMMA AssignOwed ==
  ASSUME Typed, OwedInv, NEW w \in Requests, NEW g, NEW copy \in Record, copy.group = g,
         Assign(w, g, copy), UNCHANGED <<todo, fetched>>
  PROVE  OwedInv'
<1>1. /\ req'[w].op = "none" /\ req'[w].phase = "free" /\ Beside(w)
      /\ \A v \in Requests \ {w} : Misses(req[v], "owed") => "owed" \in req'[v].missed
  BY CommandChanges DEF Assign
<1>2. \A v \in Requests : "owed" \notin req'[v].missed => req'[v].op # "confirm" /\ ~Saves(req'[v])
  BY <1>1 DEF Misses, Saves, Beside, Holding
<1>3. record' = [copy EXCEPT !.modified = TRUE]
  BY DEF Assign, Save
<1>4. owed' # NoGroup => owed' = g /\ Carries(record', g)
  BY <1>3 DEF Assign, Carries, Record
<1>5. ~older' => "apply" \notin todo' /\ "confirm" \notin todo'
  BY DEF Assign
<1> QED
  BY <1>2, <1>4, <1>5 DEF OwedInv, Saves, Carries

\* The commands of the users: a forced update leaves the settings alone; an
\* assignment takes the place of what was owed; a form drops it only by what the
\* user changed.
LEMMA CommandOwed ==
  ASSUME Typed, OwedInv, NEW w \in Requests,
         ForceSave(w) \/ AssignSave(w) \/ ExportSave(w) \/ FormSave(w)
  PROVE  OwedInv'
<1>1. "free" \notin Holding /\ "held" \in Holding
  BY DEF Holding
<1>2. CASE ForceSave(w)
  <2>1. Saves(req[w]) /\ req[w].arg \in Update
    BY <1>1, <1>2, SlotFields DEF ForceSave, At, Saves, Fits, Update
  <2>2. /\ record' = [req[w].copy EXCEPT !.forced = req[w].arg] /\ owed' = StillOwed(w, req[w].copy)
        /\ older' = older /\ fetched' = fetched /\ todo' = todo
    BY <1>2 DEF ForceSave, Save, instance
  <2>3. Carries(req[w].copy, owed) => Carries(record', owed)
    BY <2>1, <2>2, SlotFields, ForcedCarries
  <2>4. req'[w].phase = "free" /\ req'[w].op = "none" /\ Beside(w)
    BY <1>2, CommandChanges DEF ForceSave
  <2> QED
    BY <1>1, <2>1, <2>2, <2>3, <2>4, SavedOwed
<1>3. CASE FormSave(w)
  <2>1. /\ At(w, "form", "held") /\ record' = req[w].copy /\ Finish(w)
        /\ owed' = IF req[w].arg = FALSE /\ ~Carries(req[w].copy, owed) THEN NoGroup
                   ELSE StillOwed(w, req[w].copy)
        /\ UNCHANGED <<older, fetched, todo>>
    BY <1>3 DEF FormSave, Save, instance
  <2>2. req[w].arg \in BOOLEAN
    BY <2>1, SlotFields DEF At, Fits
  <2>3. req'[w].phase = "free" /\ req'[w].op = "none" /\ Beside(w)
    BY <2>1, FinishChanges
  <2>4. ~Saves(req'[w])
    BY <1>1, <2>3 DEF Saves
  <2>5. ASSUME owed' # NoGroup PROVE owed' = owed /\ Carries(req[w].copy, owed)
    <3>1. CASE req[w].arg = FALSE
      BY <2>1, <2>5, <3>1 DEF StillOwed
    <3>2. CASE req[w].arg = TRUE
      <4>1. Saves(req[w])
        BY <1>1, <2>1, <3>2 DEF At, Saves
      <4>2. owed' = StillOwed(w, req[w].copy)
        BY <2>1, <3>2
      <4> QED
        BY <2>5, <4>1, <4>2, StillCarried
    <3> QED
      BY <2>2, <3>1, <3>2
  <2> QED
    BY <2>1, <2>3, <2>4, <2>5, OwedStep DEF OwedInv
<1>4. CASE ExportSave(w)
  <2> DEFINE copy == [req[w].copy EXCEPT !.schema = req[w].arg]
  <2>1. At(w, "export", "held") /\ Assign(w, req[w].arg, copy) /\ UNCHANGED <<todo, fetched>>
    BY <1>4 DEF ExportSave, instance
  <2>2. req[w].arg \in Schema /\ req[w].copy.group = req[w].arg /\ req[w].copy \in Record
    BY <2>1, SlotFields DEF At, Fits, Schema
  <2>3. copy \in Record /\ copy.group = req[w].arg
    BY <2>2 DEF Record
  <2> HIDE DEF copy
  <2> QED
    BY <2>1, <2>3, AssignOwed
<1>5. CASE AssignSave(w)
  <2>1. PICK moved \in Record :
          /\ moved.group = req[w].arg /\ moved.schema = req[w].copy.schema
          /\ moved.modified = req[w].copy.modified /\ moved.snapshot = req[w].copy.snapshot
          /\ \/ req[w].arg = NoGroup /\ SaveOver(w, moved) /\ Finish(w) /\ UNCHANGED older
             \/ \E copy \in Record : copy.group = req[w].arg /\ Assign(w, req[w].arg, copy)
    BY <1>5, AssignmentSaved
  <2>2. At(w, "assign", "held") /\ UNCHANGED <<todo, fetched>>
    BY <1>5, AssignmentSaved DEF instance
  <2>3. CASE req[w].arg = NoGroup /\ SaveOver(w, moved) /\ Finish(w) /\ UNCHANGED older
    <3>1. Saves(req[w])
      BY <1>1, <2>2 DEF At, Saves
    <3>2. Carries(req[w].copy, owed) => Carries(moved, owed)
      BY <2>1, <2>3 DEF Carries
    <3>3. record' = moved /\ owed' = StillOwed(w, moved)
      BY <2>3 DEF SaveOver, Save
    <3>4. req'[w].phase = "free" /\ req'[w].op = "none" /\ Beside(w)
      BY <2>3, FinishChanges
    <3> QED
      BY <1>1, <2>2, <2>3, <3>1, <3>2, <3>3, <3>4, SavedOwed
  <2> QED
    BY <2>1, <2>2, <2>3, AssignOwed
<1> QED
  BY <1>2, <1>3, <1>4, <1>5

LEMMA AnswerOwed ==
  ASSUME Typed, OwedInv, NEW w \in Requests,
         \/ PacketAnswer(w) \/ GiveSettings(w) \/ Abort(w)
         \/ DownloadRead(w) \/ DownloadSave(w) \/ DownloadEnds(w)
  PROVE  OwedInv'
<1>1. "free" \notin Holding /\ "streaming" \notin Holding /\ "held" \in Holding
      /\ NoUpdate \in Update
  BY DEF Holding, Update
<1>2. CASE DownloadSave(w)
  <2>1. Saves(req[w]) /\ req[w].op = "download"
    BY <1>1, <1>2 DEF DownloadSave, At, Saves
  <2>2. req'[w].phase = "streaming" /\ req'[w].op = "download" /\ Beside(w)
    BY <1>2, <2>1, HoldChanges DEF DownloadSave
  <2>3. /\ record' = [req[w].copy EXCEPT !.forced = NoUpdate]
        /\ owed' = StillOwed(w, req[w].copy)
        /\ older' = older /\ fetched' = fetched /\ todo' = todo
    BY <1>2 DEF DownloadSave, Save, instance
  <2>4. Carries(req[w].copy, owed) => Carries(record', owed)
    BY <1>1, <2>3, SlotFields, ForcedCarries
  <2> QED
    BY <1>1, <2>1, <2>2, <2>3, <2>4, SavedOwed
<1>3. CASE At(w, "download", "ready") /\ Hold(w, "held", record, Fresh(w))
           /\ UNCHANGED <<record, owed, older, todo, fetched>>
  <2>1. req'[w].op = "download" /\ req'[w].copy = record /\ Beside(w)
    BY <1>3, HoldChanges DEF At
  <2> QED
    BY <1>3, <2>1, OwedStep DEF OwedInv
<1>4. ASSUME Finish(w), record' = record, owed' = owed,
             \/ /\ todo' \subseteq todo \cup {"settings", "update"}
                /\ fetched' = fetched /\ older' = older
             \/ /\ todo' \subseteq todo \cup {"apply"}
                /\ fetched' = record.schema /\ older' = (older /\ "confirm" \in todo)
      PROVE  OwedInv'
  <2>1. /\ req'[w].phase = "free" /\ req'[w].op = "none" /\ Beside(w)
    BY <1>4, FinishChanges
  <2>2. ~Saves(req'[w])
    BY <1>1, <2>1 DEF Saves
  <2>3. owed # NoGroup => (~older' => "confirm" \notin todo' /\ ("apply" \in todo' => fetched' = owed))
    <3>1. CASE /\ todo' \subseteq todo \cup {"settings", "update"}
               /\ fetched' = fetched /\ older' = older
      BY <3>1 DEF OwedInv
    <3>2. CASE /\ todo' \subseteq todo \cup {"apply"}
               /\ fetched' = record.schema /\ older' = (older /\ "confirm" \in todo)
      <4>1. owed # NoGroup => record.schema = owed /\ (older \/ "confirm" \notin todo)
        BY DEF OwedInv, Carries
      <4>2. ~older' => ~older \/ "confirm" \notin todo
        BY <3>2
      <4> QED
        BY <3>2, <4>1, <4>2
    <3> QED
      BY <1>4, <3>1, <3>2
  <2> QED
    BY <1>4, <2>1, <2>2, <2>3, OwedStep DEF OwedInv
<1>5. CASE PacketAnswer(w) \/ Abort(w) \/ DownloadEnds(w)
  <2>1. todo' \subseteq todo \cup {"settings", "update"}
    BY <1>5 DEF PacketAnswer, Abort, DownloadEnds, Answer, Told
  <2> QED
    BY <1>4, <1>5, <2>1 DEF PacketAnswer, Abort, DownloadEnds, history
<1>6. CASE DownloadRead(w)
  <2>1. UNCHANGED <<record, owed, older, fetched>> /\ At(w, "download", "ready")
    BY <1>6 DEF DownloadRead, history
  <2>2. CASE Finish(w) /\ Answer(w, todo \ {"update"})
    BY <1>4, <2>1, <2>2 DEF Answer
  <2>3. CASE Hold(w, "held", record, Fresh(w)) /\ UNCHANGED <<todo, awaits>>
    BY <1>3, <2>1, <2>3
  <2> QED
    BY <1>6, <2>2, <2>3 DEF DownloadRead
<1>7. CASE GiveSettings(w)
  BY <1>4, <1>7 DEF GiveSettings, Answer
<1> QED
  BY <1>2, <1>5, <1>6, <1>7

LEMMA SkipOwed ==
  ASSUME Typed, OwedInv, NEW w \in Requests, SaveSkipped(w)
  PROVE  OwedInv'
<1>1. UNCHANGED <<record, owed, older, fetched>> /\ todo' \subseteq todo
  BY DEF SaveSkipped, Answer, history
<1>2. "ready" \notin Holding /\ "streaming" \notin Holding /\ "held" \in Holding
  BY DEF Holding
<1>3. ASSUME At(w, "packet", "held"), NEW copy \in Reported(req[w].copy, req[w].arg),
             NEW missed, req[w].missed \subseteq missed, KeepsOwn(req[w], copy) => "owed" \in missed,
             Hold(w, "saved", copy, missed)
      PROVE  OwedInv'
  <2>1. Saves(req[w]) /\ req[w].op = "packet"
    BY <1>2, <1>3 DEF At, Saves
  <2>2. req[w].copy \in Record /\ req[w].arg \in Schema
    BY <2>1, SlotFields DEF Fits
  <2>3. /\ req'[w].copy = copy /\ req'[w].op = "packet" /\ req'[w].missed = missed
        /\ Beside(w)
    BY <1>3, <2>1, HoldChanges
  <2>4. owed # NoGroup /\ Carries(req[w].copy, owed) => Carries(copy, owed) \/ KeepsOwn(req[w], copy)
    BY <1>3, <2>2, ReportCarries DEF KeepsOwn
  <2>5. owed # NoGroup /\ "owed" \notin missed => Carries(copy, owed)
    BY <1>3, <2>1, <2>4 DEF OwedInv
  <2> QED
    BY <1>1, <2>3, <2>5, OwedStep DEF OwedInv
<1>4. CASE Hold(w, "ready", Blank, Fresh(w)) \/ (Hold(w, "streaming", req[w].copy, req[w].missed) /\ At(w, "download", "held"))
  <2>1. /\ req'[w].op = req[w].op /\ req'[w].phase \notin Holding /\ Beside(w)
        /\ req'[w].missed = Fresh(w) \/ req[w].op = "download"
    BY <1>2, <1>4, HoldChanges DEF At
  <2>2. ~Saves(req'[w]) /\ (owed # NoGroup /\ req'[w].op = "confirm" => "owed" \in req'[w].missed)
    BY <2>1, StaysOlder DEF Saves
  <2> QED
    BY <1>1, <2>1, <2>2, OwedStep DEF OwedInv
<1>5. CASE /\ At(w, "packet", "held")
           /\ \E copy \in Reported(req[w].copy, req[w].arg) :
                Hold(w, "saved", copy, IF KeepsOwn(req[w], copy) THEN req[w].missed \cup {"owed"}
                                       ELSE req[w].missed)
  <2>1. PICK copy \in Reported(req[w].copy, req[w].arg) :
          Hold(w, "saved", copy, IF KeepsOwn(req[w], copy) THEN req[w].missed \cup {"owed"}
                                 ELSE req[w].missed)
    BY <1>5
  <2> DEFINE missed == IF KeepsOwn(req[w], copy) THEN req[w].missed \cup {"owed"} ELSE req[w].missed
  <2>2. req[w].missed \subseteq missed /\ (KeepsOwn(req[w], copy) => "owed" \in missed)
    OBVIOUS
  <2>3. Hold(w, "saved", copy, missed)
    BY <2>1
  <2> HIDE DEF missed
  <2> QED
    BY <1>3, <1>5, <2>2, <2>3
<1> QED
  BY <1>4, <1>5 DEF SaveSkipped

LEMMA UsersOwed ==
  ASSUME Typed, OwedInv, Users \/ TimeOut
  PROVE  OwedInv'
<1>1. "ready" \notin Holding
  BY DEF Holding
<1>2. CASE TimeOut \/ \E u \in Updates : DeleteFile(u)
  <2>1. UNCHANGED <<record, req, owed, older, fetched>> /\ todo' \subseteq todo
    BY <1>2 DEF TimeOut, DeleteFile, instance, history
  <2> QED
    BY <2>1 DEF OwedInv, Carries, Saves
<1>3. ASSUME NEW w \in Requests, NEW op \in {"force", "assign", "export"}, NEW arg,
             Command(w, op, arg)
      PROVE  OwedInv'
  BY <1>1, <1>3, SendChanges, OwedKept DEF Command, instance, history
<1>4. ASSUME NEW w \in Requests, NEW g \in Schema, NEW m \in BOOLEAN, SubmitForm(w, g, m)
      PROVE  OwedInv'
  BY <1>1, <1>4, SubmitChanges, OwedKept DEF SubmitForm, instance, history
<1> QED
  BY <1>2, <1>3, <1>4 DEF Users, ForceUpdate, AssignGroup, ExportSettings

LEMMA OwedInvariant == Spec => []OwedInv
<1>1. Init => OwedInv
  BY DEF Init, OwedInv
<1>2. Typed /\ OwedInv /\ [Next]_vars => OwedInv'
  <2> SUFFICES ASSUME Typed, OwedInv, [Next]_vars PROVE OwedInv'
    OBVIOUS
  <2>1. CASE UNCHANGED vars
    BY <2>1 DEF vars, instance, history, OwedInv, Carries, Saves
  <2>2. ASSUME NEW w \in Requests, Server(w) PROVE OwedInv'
    BY <2>2, ReadOwed, SaveOwed, CommandOwed, AnswerOwed DEF Server
  <2> QED
    BY <2>1, <2>2, InstanceOwed, SkipOwed, AnswerOwed, UsersOwed DEF Next
<1> QED
  BY <1>1, <1>2, TypedInvariant, PTL DEF Spec

\* Assigned settings stay in the record, flagged, until the instance runs with
\* them.  The exceptions are those AssignedStaysPending names: a request that had
\* read the record before, the confirmation of older settings, a later assignment,
\* a form that changes group or flag, a first packet that cannot read its group.
THEOREM AssignmentKept == Spec => []AssignedStaysPending
<1>1. OwedInv => AssignedStaysPending
  BY DEF OwedInv, AssignedStaysPending, Carries
<1> QED
  BY <1>1, OwedInvariant, PTL

-----------------------------------------------------------------------------
(* No request is forgotten                                                 *)

UnderWay(r) == <<r.op, r.phase>> \in Stages

\* A step that moves one slot moves it to a stage some handler goes on from,
\* and frees it only together with the instance that waits for it.
LEMMA SlotGoesOn ==
  ASSUME Typed, RequestsGoOn, NEW w \in Requests,
         Beside(w),
         req'[w].phase = "free" \/ UnderWay(req'[w]),
         awaits' \in {awaits, NoRequest, w},
         awaits' = w => req'[w].phase # "free" /\ req'[w].op \in NodeOps
  PROVE  RequestsGoOn'
<1>1. \A v \in Requests : req'[v].phase = "free" \/ UnderWay(req'[v])
  BY DEF RequestsGoOn, UnderWay, Beside
<1>2. CASE awaits' \in {NoRequest, w}
  BY <1>1, <1>2 DEF RequestsGoOn, UnderWay, Beside
<1>3. CASE awaits' = awaits /\ awaits # w
  <2>1. awaits \in Requests \cup {NoRequest}
    BY DEF Typed, TypeOK
  <2> QED
    BY <1>1, <1>3, <2>1 DEF RequestsGoOn, UnderWay, Beside
<1> QED
  BY <1>2, <1>3

\* Who waits for the request that ends is answered.
LEMMA FinishGoesOn ==
  ASSUME Typed, RequestsGoOn, NEW w \in Requests, NEW rest, Finish(w), Answer(w, rest)
  PROVE  RequestsGoOn'
<1>1. awaits' \in {awaits, NoRequest} /\ awaits' # w
  BY DEF Answer
<1> QED
  BY <1>1, FinishChanges, SlotGoesOn

\* A request nobody can wait for ends without an answer.
LEMMA CommandGoesOn ==
  ASSUME Typed, RequestsGoOn, NEW w \in Requests, req[w].op \notin NodeOps,
         awaits' = awaits, Finish(w) \/ \E what \in {"owed", "order"} : FinishCommand(w, what)
  PROVE  RequestsGoOn'
<1>1. awaits # w
  BY DEF RequestsGoOn
<1>2. req'[w].phase = "free" /\ Beside(w)
  BY FinishChanges, CommandChanges
<1> QED
  BY <1>1, <1>2, SlotGoesOn

LEMMA HoldGoesOn ==
  ASSUME Typed, RequestsGoOn, NEW w \in Requests, NEW phase, NEW copy, NEW missed,
         Hold(w, phase, copy, missed),
         <<req[w].op, phase>> \in Stages, phase # "free",
         awaits' \in {awaits, NoRequest}
  PROVE  RequestsGoOn'
<1>1. awaits' = w => req[w].op \in NodeOps
  BY DEF RequestsGoOn
<1>2. req'[w].op = req[w].op /\ req'[w].phase = phase /\ Beside(w)
  BY HoldChanges
<1> QED
  BY <1>1, <1>2, SlotGoesOn DEF UnderWay

LEMMA SentGoesOn ==
  ASSUME Typed, RequestsGoOn, NEW w \in Requests, NEW op, NEW phase, NEW arg, Send(w, op, phase, arg),
         <<op, phase>> \in Stages, phase # "free",
         awaits' = awaits \/ (awaits' = w /\ op \in NodeOps)
  PROVE  RequestsGoOn'
<1>1. awaits # w
  BY DEF RequestsGoOn, Send
<1>2. req'[w].op = op /\ req'[w].phase = phase /\ Beside(w)
  BY SendChanges
<1> QED
  BY <1>1, <1>2, SlotGoesOn DEF UnderWay

LEMMA InstanceGoesOn ==
  ASSUME Typed, RequestsGoOn, Instance
  PROVE  RequestsGoOn'
<1>1. ASSUME NEW w \in Requests, NEW op \in NodeOps, NEW phase, NEW arg, Call(w, op, phase, arg),
             <<op, phase>> \in Stages, phase # "free"
      PROVE  RequestsGoOn'
  BY <1>1, SentGoesOn DEF Call
<1>2. FirstPhase \in {"sent", "ready"}
  BY DEF FirstPhase
<1>3. ASSUME NEW w \in Requests, Greet(w) \/ Post(w) PROVE RequestsGoOn'
  BY <1>1, <1>3 DEF Greet, Post, NodeOps, Stages, Op
<1>4. ASSUME NEW w \in Requests, AskSettings(w) \/ Confirm(w) \/ Download(w) PROVE RequestsGoOn'
  BY <1>1, <1>2, <1>4 DEF AskSettings, Confirm, Download, NodeOps, Stages, Op
<1>5. CASE ApplySettings
  BY <1>5 DEF ApplySettings, RequestsGoOn
<1> QED
  BY <1>3, <1>4, <1>5 DEF Instance

\* The handlers of the node's requests.
LEMMA NodeGoesOn ==
  ASSUME Typed, RequestsGoOn, NEW w \in Requests,
         \/ TouchRead(w) \/ TouchSave(w) \/ PacketRead(w) \/ PacketSave(w) \/ PacketAnswer(w)
         \/ PacketForgets(w) \/ GiveSettings(w) \/ ConfirmRead(w) \/ ConfirmSave(w)
         \/ DownloadRead(w) \/ DownloadSave(w) \/ DownloadEnds(w) \/ SaveSkipped(w) \/ Abort(w)
  PROVE  RequestsGoOn'
<1>1. req[w].phase = "free" \/ <<req[w].op, req[w].phase>> \in Stages
  BY DEF RequestsGoOn
<1>2. CASE TouchRead(w)
  <2>1. <<req[w].op, "touching">> \in Stages
    BY <1>1, <1>2 DEF TouchRead, Stages
  <2> QED
    BY <1>2, <2>1, HoldGoesOn DEF TouchRead, instance
<1>3. CASE TouchSave(w)
  <2>1. req[w].op # "handshake" => <<req[w].op, "ready">> \in Stages
    BY <1>1, <1>3 DEF TouchSave, Stages, NodeOps, Op
  <2> QED
    BY <1>3, <2>1, HoldGoesOn, FinishGoesOn DEF TouchSave
<1>4. CASE PacketRead(w) \/ ConfirmRead(w)
  BY <1>4, HoldGoesOn DEF PacketRead, ConfirmRead, ReadRecord, At, Stages, Op, instance
<1>5. CASE PacketSave(w) \/ DownloadSave(w)
  BY <1>5, HoldGoesOn DEF PacketSave, DownloadSave, At, Stages, instance
<1>6. CASE PacketAnswer(w) \/ PacketForgets(w) \/ GiveSettings(w) \/ ConfirmSave(w) \/ DownloadEnds(w) \/ Abort(w)
  <2>1. Finish(w) /\ \E rest : Answer(w, rest)
    BY <1>6 DEF PacketAnswer, PacketForgets, GiveSettings, ConfirmSave, DownloadEnds, Abort
  <2> QED
    BY <2>1, FinishGoesOn
<1>7. CASE DownloadRead(w)
  <2>1. CASE Finish(w) /\ Answer(w, todo \ {"update"})
    BY <2>1, FinishGoesOn
  <2>2. CASE At(w, "download", "ready") /\ Hold(w, "held", record, Fresh(w)) /\ UNCHANGED awaits
    BY <2>2, HoldGoesOn DEF At, Stages, Op
  <2> QED
    BY <1>7, <2>1, <2>2 DEF DownloadRead
<1>8. CASE SaveSkipped(w)
  <2>1. CASE req[w].phase = "touching" /\ req[w].op # "handshake" /\ Hold(w, "ready", Blank, Fresh(w))
             /\ UNCHANGED awaits
    <3>1. <<req[w].op, "ready">> \in Stages
      BY <1>1, <2>1 DEF Stages, NodeOps, Op
    <3> QED
      BY <2>1, <3>1, HoldGoesOn
  <2>2. CASE At(w, "download", "held") /\ Hold(w, "streaming", req[w].copy, req[w].missed) /\ UNCHANGED awaits
    BY <2>2, HoldGoesOn DEF At, Stages
  <2>3. CASE At(w, "packet", "held") /\ (\E copy, missed : Hold(w, "saved", copy, missed)) /\ Answer(w, {})
    BY <2>3, HoldGoesOn DEF At, Stages, Answer
  <2> QED
    BY <1>8, <2>1, <2>2, <2>3 DEF SaveSkipped
<1> QED
  BY <1>2, <1>3, <1>4, <1>5, <1>6, <1>7, <1>8

\* The form reads the record anew.
LEMMA FormGoesOn ==
  ASSUME Typed, RequestsGoOn, NEW w \in Requests, FormRead(w)
  PROVE  RequestsGoOn'
<1>1. req[w].op = "form" /\ awaits' = awaits
  BY DEF FormRead, At, instance
<1>2. awaits # w
  BY <1>1 DEF RequestsGoOn, NodeOps
<1>3. req'[w].op = "form" /\ req'[w].phase = "held" /\ Beside(w)
  BY <1>1, FormChanges
<1>4. UnderWay(req'[w])
  BY <1>3 DEF UnderWay, Stages, Op
<1> QED
  BY <1>1, <1>2, <1>3, <1>4, SlotGoesOn

\* The commands of the users.
LEMMA UsersGoOn ==
  ASSUME Typed, RequestsGoOn,
         \/ \E w \in Requests : \/ ForceRead(w) \/ ForceSave(w) \/ AssignRead(w) \/ AssignSave(w)
                                \/ ExportRead(w) \/ ExportSave(w) \/ FormRead(w) \/ FormSave(w)
         \/ TimeOut \/ Users
  PROVE  RequestsGoOn'
<1>1. ASSUME NEW w \in Requests, ForceRead(w) \/ AssignRead(w) \/ ExportRead(w) PROVE RequestsGoOn'
  <2>1. req[w].op \in {"force", "assign", "export"} /\ awaits' = awaits
        /\ (Finish(w) \/ Hold(w, "held", record, Fresh(w)))
    BY <1>1 DEF ForceRead, AssignRead, ExportRead, ReadRecord, At, instance
  <2>2. req[w].op \notin NodeOps /\ <<req[w].op, "held">> \in Stages
    BY <2>1 DEF Stages, NodeOps, Op
  <2> QED
    BY <2>1, <2>2, HoldGoesOn, CommandGoesOn
<1>2. ASSUME NEW w \in Requests, ForceSave(w) \/ AssignSave(w) \/ ExportSave(w) \/ FormSave(w)
      PROVE  RequestsGoOn'
  <2>1. req[w].op \in {"force", "assign", "export", "form"} /\ awaits' = awaits
        /\ (Finish(w) \/ \E what \in {"owed", "order"} : FinishCommand(w, what))
    <3>0. \A g, copy : Assign(w, g, copy) => FinishCommand(w, "owed")
      BY DEF Assign
    <3>1. CASE ForceSave(w) \/ FormSave(w)
      BY <3>1 DEF ForceSave, FormSave, At, instance
    <3>2. CASE ExportSave(w)
      BY <3>0, <3>2 DEF ExportSave, At, instance
    <3>3. CASE AssignSave(w)
      <4>1. At(w, "assign", "held") /\ awaits' = awaits
        BY <3>3 DEF AssignSave, instance
      <4>2. Finish(w) \/ FinishCommand(w, "owed")
        BY <3>0, <3>3 DEF AssignSave
      <4> QED
        BY <4>1, <4>2 DEF At
    <3> QED
      BY <1>2, <3>1, <3>2, <3>3
  <2>2. req[w].op \notin NodeOps
    BY <2>1 DEF NodeOps
  <2> QED
    BY <2>1, <2>2, CommandGoesOn
<1>3. ASSUME NEW w \in Requests, FormRead(w) PROVE RequestsGoOn'
  BY <1>3, FormGoesOn
<1>4. ASSUME NEW w \in Requests, NEW op \in {"force", "assign", "export"}, NEW arg, Command(w, op, arg)
      PROVE  RequestsGoOn'
  BY <1>4, SentGoesOn DEF Command, Stages, Op, instance
<1>5. ASSUME NEW w \in Requests, NEW g \in Schema, NEW m \in BOOLEAN, SubmitForm(w, g, m)
      PROVE  RequestsGoOn'
  <2>2. req'[w].op = "form" /\ req'[w].phase = "ready" /\ Beside(w)
    BY <1>5, SubmitChanges
  <2>3. awaits # w /\ awaits' = awaits
    BY <1>5 DEF SubmitForm, RequestsGoOn, instance
  <2> QED
    BY <2>2, <2>3, SlotGoesOn DEF UnderWay, Stages, Op
<1>6. CASE TimeOut \/ \E u \in Updates : DeleteFile(u)
  BY <1>6 DEF TimeOut, DeleteFile, instance, RequestsGoOn
<1> QED
  BY <1>1, <1>2, <1>3, <1>4, <1>5, <1>6 DEF Users, ForceUpdate, AssignGroup, ExportSettings

\* Whatever fails, times out or is skipped, every request stands where a handler
\* of InstanceExchange goes on, and the node waits for one of its own that is
\* under way: the safe half of Settles.
THEOREM NoRequestIsForgotten == Spec => []RequestsGoOn
<1>1. Init => RequestsGoOn
  BY DEF Init, RequestsGoOn, Free
<1>2. Typed /\ RequestsGoOn /\ [Next]_vars => RequestsGoOn'
  <2> SUFFICES ASSUME Typed, RequestsGoOn, [Next]_vars PROVE RequestsGoOn'
    OBVIOUS
  <2>1. CASE UNCHANGED vars
    BY <2>1 DEF vars, instance, RequestsGoOn
  <2>2. ASSUME NEW w \in Requests, Server(w) PROVE RequestsGoOn'
    BY <2>2, NodeGoesOn, UsersGoOn DEF Server
  <2> QED
    BY <2>1, <2>2, InstanceGoesOn, NodeGoesOn, UsersGoOn DEF Next
<1> QED
  BY <1>1, <1>2, TypedInvariant, PTL DEF Spec
=============================================================================
