-------------------------- MODULE EtrnExchangeProofs --------------------------
(***************************************************************************)
(* Proofs about the exchange of consignment notes: its typing, that a note *)
(* shown as decided was executed so by the operator, that a closed note    *)
(* has left its acceptance stage, and that the position in the feed passes *)
(* over nothing, for any number of notes and requests and any page size.   *)
(***************************************************************************)
EXTENDS EtrnExchange, Integers, TLAPS

LEMMA SaveOutcomeIsBoolean ==
  \A o \in SaveOutcome : o.stored \in BOOLEAN /\ o.ok \in BOOLEAN
  BY DEF SaveOutcome

\* A Save writes well-typed values over the record of one note.
LEMMA PutTyped ==
  ASSUME TypeOK, NEW o \in SaveOutcome, NEW d \in Docs,
         NEW s \in Status, NEW x \in BOOLEAN, Put(o, d, s, x)
  PROVE  /\ status' \in [Docs -> Status]
         /\ aged' \in [Docs -> BOOLEAN]
         /\ xml' \in [Docs -> BOOLEAN]
         /\ pair' \in Nat
  BY DEF TypeOK, Put

LEMMA LeaveTyped ==
  ASSUME TypeOK, NEW c \in Callers, Leave(c)
  PROVE  /\ busy' \subseteq Docs
         /\ at' \in [Callers -> CallerStep]
         /\ target' \in [Callers -> Docs \cup {NoDoc}]
         /\ choice' \in [Callers -> Decision \cup {"None"}]
         /\ copyXml' \in [Callers -> BOOLEAN]
  BY DEF TypeOK, Leave, CallerStep

LEMMA OrphanTyped ==
  ASSUME TypeOK, NEW authors \in SUBSET Callers, Orphan(authors)
  PROVE  wire' \subseteq Request
  BY DEF TypeOK, Orphan, Request

LEMMA ReportTyped ==
  ASSUME TypeOK, NEW d \in Docs, NEW b \in BOOLEAN, Report(d, b)
  PROVE  feed' \in Seq(Event)
  BY DEF TypeOK, Report, Event

\* The invariant part a caller's Save needs besides its types.
CallerInv == TypeOK /\ CallersAreBound /\ DraftIsUndecided

LEMMA CallerStepTyped ==
  ASSUME CallerInv, NEW c \in Callers, CallerNext(c)
  PROVE  TypeOK'
<1> USE DEF CallerInv
<1>1. ASSUME NEW d \in Docs, NEW decision \in Decision, Enter(c, d, decision)
      PROVE  TypeOK'
  BY <1>1 DEF TypeOK, Enter, CallerStep, dbVars, pollVars, operatorVars
<1>2. CASE FindRefuses(c)
  BY <1>2, LeaveTyped DEF TypeOK, FindRefuses, dbVars, pollVars, operatorVars
<1>3. CASE Find(c)
  BY <1>3 DEF TypeOK, Find, CallerStep, CallersAreBound, dbVars, pollVars, operatorVars
<1>4. CASE SaveSending(c)
  <2>1. PICK o \in SaveOutcome : Put(o, target[c], "Sending", copyXml[c])
    BY <1>4 DEF SaveSending
  <2>2. target[c] \in Docs /\ "Sending" \in Status /\ copyXml[c] \in BOOLEAN
    BY <1>4 DEF SaveSending, CallersAreBound, TypeOK, Status
  <2>3. /\ status' \in [Docs -> Status] /\ aged' \in [Docs -> BOOLEAN]
        /\ xml' \in [Docs -> BOOLEAN] /\ pair' \in Nat
    BY <2>1, <2>2, PutTyped
  <2>4. /\ busy' \subseteq Docs
        /\ at' \in [Callers -> CallerStep]
        /\ target' \in [Callers -> Docs \cup {NoDoc}]
        /\ choice' \in [Callers -> Decision \cup {"None"}]
        /\ copyXml' \in [Callers -> BOOLEAN]
    BY <1>4, LeaveTyped DEF SaveSending, TypeOK, CallerStep
  <2>5. QED
    BY <1>4, <2>3, <2>4 DEF SaveSending, TypeOK, pollVars, operatorVars
<1>5. CASE GatewayFails(c)
  BY <1>5 DEF TypeOK, GatewayFails, CallerStep, dbVars, pollVars, operatorVars
<1>6. CASE SendExecute(c)
  BY <1>6 DEF TypeOK, SendExecute, CallerStep, CallersAreBound, Request, dbVars, pollVars
<1>7. CASE ExecuteTimesOut(c)
  <2>1. wire' \subseteq Request
    BY <1>7, OrphanTyped DEF ExecuteTimesOut
  <2>2. QED
    BY <1>7, <2>1 DEF TypeOK, ExecuteTimesOut, CallerStep, dbVars, pollVars
<1>8. CASE Cancel(c)
  <2>1. wire' \subseteq Request
    BY <1>8, OrphanTyped DEF Cancel
  <2>2. QED
    BY <1>8, <2>1, LeaveTyped DEF TypeOK, Cancel, dbVars, pollVars
<1>9. CASE SaveSucceeded(c)
  <2>1. PICK o \in SaveOutcome : Put(o, target[c], choice[c], copyXml[c])
    BY <1>9 DEF SaveSucceeded
  <2>2. target[c] \in Docs /\ choice[c] \in Status /\ copyXml[c] \in BOOLEAN
    BY <1>9 DEF SaveSucceeded, CallersAreBound, TypeOK, Status, Final
  <2>3. QED
    BY <1>9, <2>1, <2>2, PutTyped, LeaveTyped
    DEF SaveSucceeded, TypeOK, pollVars, operatorVars
<1>10. CASE SaveFailed(c)
  <2>1. PICK o \in SaveOutcome : Put(o, target[c], "Waiting", copyXml[c])
    BY <1>10 DEF SaveFailed
  <2>2. target[c] \in Docs /\ "Waiting" \in Status /\ copyXml[c] \in BOOLEAN
    BY <1>10 DEF SaveFailed, CallersAreBound, TypeOK, Status
  <2>3. QED
    BY <1>10, <2>1, <2>2, PutTyped, LeaveTyped
    DEF SaveFailed, TypeOK, pollVars, operatorVars
<1>11. QED
  BY <1>1, <1>2, <1>3, <1>4, <1>5, <1>6, <1>7, <1>8, <1>9, <1>10 DEF CallerNext

\* The page only names documents of the feed, and its pair lies inside it.
LEMMA FetchTyped ==
  ASSUME TypeOK, Fetch
  PROVE  TypeOK'
<1>1. PICK stop \in PageFirst .. PageLast + 1 : FetchUpTo(stop)
  BY DEF Fetch
<1>2. PageFirst \in Nat \ {0} /\ Len(feed) \in Nat /\ PageLast \in Int /\ PageLast <= Len(feed)
  BY ConstantsAssumption DEF TypeOK, PageFirst, PageLast, Smaller
<1>3. \A i \in Processed(stop) : feed[i] \in Event
  BY <1>2 DEF TypeOK, Processed
<1>4. toSave' \subseteq Docs /\ toClose' \subseteq Docs
  BY <1>1, <1>3 DEF FetchUpTo, Event
<1>5. next' \in Nat
  BY <1>1, <1>2 DEF FetchUpTo, TypeOK, Advance, Smaller
<1>6. QED
  BY <1>1, <1>4, <1>5 DEF TypeOK, FetchUpTo, RoundStep, dbVars, callVars, operatorVars

LEMMA PollStepTyped ==
  ASSUME CallerInv, PollNext
  PROVE  TypeOK'
<1> USE DEF CallerInv
<1>1. CASE StartRound
  BY <1>1 DEF TypeOK, StartRound, RoundStep, dbVars, callVars, operatorVars
<1>2. ASSUME NEW d \in Docs, StageUnknown(d) PROVE TypeOK'
  BY <1>2 DEF TypeOK, StageUnknown, dbVars, callVars, operatorVars
<1>3. ASSUME NEW d \in Docs, ReadStage(d) PROVE TypeOK'
  BY <1>3 DEF TypeOK, ReadStage, Reconciled, RoundStep, Draft, Status, Final, dbVars, callVars, operatorVars
<1>4. CASE SaveReconciled
  <2>1. PICK o \in SaveOutcome : Put(o, cur, draft.status, draft.xml)
    BY <1>4 DEF SaveReconciled
  <2>2. cur \in Docs /\ draft.status \in Status /\ draft.xml \in BOOLEAN
    BY <1>4 DEF SaveReconciled, DraftIsUndecided, TypeOK, Draft
  <2>3. /\ status' \in [Docs -> Status] /\ aged' \in [Docs -> BOOLEAN]
        /\ xml' \in [Docs -> BOOLEAN] /\ pair' \in Nat
    BY <2>1, <2>2, PutTyped
  <2>4. QED
    BY <1>4, <2>3
    DEF SaveReconciled, TypeOK, RoundStep, NoDraft, Draft, Status, callVars, operatorVars
<1>5. CASE ReadPair
  BY <1>5 DEF TypeOK, ReadPair, RoundStep, dbVars, callVars, operatorVars
<1>6. CASE FetchFails
  BY <1>6 DEF TypeOK, FetchFails, RoundStep, dbVars, callVars, operatorVars
<1>7. CASE Fetch
  BY <1>7, FetchTyped
<1>8. ASSUME NEW d \in Docs, SkipDocument(d) PROVE TypeOK'
  BY <1>8 DEF TypeOK, SkipDocument, dbVars, callVars, operatorVars
<1>9. ASSUME NEW d \in Docs, FindDocument(d) PROVE TypeOK'
  BY <1>9 DEF TypeOK, FindDocument, RoundStep, Draft, Status, dbVars, callVars, operatorVars
<1>10. CASE SaveDocument
  <2>1. PICK o \in SaveOutcome : Put(o, cur, draft.status, draft.xml)
    BY <1>10 DEF SaveDocument
  <2>2. cur \in Docs /\ draft.status \in Status /\ draft.xml \in BOOLEAN
    BY <1>10 DEF SaveDocument, DraftIsUndecided, TypeOK, Draft
  <2>3. /\ status' \in [Docs -> Status] /\ aged' \in [Docs -> BOOLEAN]
        /\ xml' \in [Docs -> BOOLEAN] /\ pair' \in Nat
    BY <2>1, <2>2, PutTyped
  <2>4. QED
    BY <1>10, <2>3
    DEF SaveDocument, TypeOK, RoundStep, NoDraft, Draft, Status, callVars, operatorVars
<1>11. CASE DocumentsDone
  BY <1>11 DEF TypeOK, DocumentsDone, RoundStep, dbVars, callVars, operatorVars
<1>12. ASSUME NEW d \in Docs, SkipClosed(d) PROVE TypeOK'
  BY <1>12 DEF TypeOK, SkipClosed, dbVars, callVars, operatorVars
<1>13. ASSUME NEW d \in Docs, FindClosed(d) PROVE TypeOK'
  BY <1>13 DEF TypeOK, FindClosed, RoundStep, Draft, Status, Final, dbVars, callVars, operatorVars
<1>14. CASE SaveClosed
  <2>1. PICK o \in SaveOutcome : Put(o, cur, draft.status, draft.xml)
    BY <1>14 DEF SaveClosed
  <2>2. cur \in Docs /\ draft.status \in Status /\ draft.xml \in BOOLEAN
    BY <1>14 DEF SaveClosed, DraftIsUndecided, TypeOK, Draft
  <2>3. /\ status' \in [Docs -> Status] /\ aged' \in [Docs -> BOOLEAN]
        /\ xml' \in [Docs -> BOOLEAN] /\ pair' \in Nat
    BY <2>1, <2>2, PutTyped
  <2>4. QED
    BY <1>14, <2>3
    DEF SaveClosed, TypeOK, RoundStep, NoDraft, Draft, Status, callVars, operatorVars
<1>15. CASE ClosedDone
  BY <1>15 DEF TypeOK, ClosedDone, RoundStep, dbVars, callVars, operatorVars
<1>16. CASE SavePair
  BY <1>16 DEF TypeOK, SavePair, RoundStep, callVars, operatorVars
<1>17. QED
  BY <1>1, <1>2, <1>3, <1>4, <1>5, <1>6, <1>7, <1>8, <1>9, <1>10, <1>11, <1>12,
     <1>13, <1>14, <1>15, <1>16 DEF PollNext

LEMMA OperatorStepTyped ==
  ASSUME CallerInv, OperatorNext
  PROVE  TypeOK'
<1> USE DEF CallerInv
<1>1. ASSUME NEW d \in Docs, EarlyStage(d) PROVE TypeOK'
  BY <1>1, ReportTyped DEF TypeOK, EarlyStage, Stage, dbVars, callVars, pollVars
<1>2. ASSUME NEW d \in Docs, ReachAcceptance(d) PROVE TypeOK'
  BY <1>2, ReportTyped DEF TypeOK, ReachAcceptance, Stage, dbVars, callVars, pollVars
<1>3. ASSUME NEW d \in Docs, DecidedElsewhere(d) PROVE TypeOK'
  BY <1>3, ReportTyped DEF TypeOK, DecidedElsewhere, Stage, dbVars, callVars, pollVars
<1>4. ASSUME NEW r \in wire, ExecuteAction(r) PROVE TypeOK'
  <2>1. r.doc \in Docs /\ r.decision \in Decision /\ r.by \in Callers \cup {NoCaller}
    BY DEF TypeOK, Request
  <2>2. at' \in [Callers -> CallerStep]
    BY <1>4, <2>1 DEF TypeOK, ExecuteAction, CallerStep
  <2>3. feed' \in Seq(Event)
    BY <1>4, <2>1, ReportTyped DEF TypeOK, ExecuteAction
  <2>4. stage' \in [Docs -> Stage] /\ executed' \in [Docs -> Decision \cup {"None"}]
    BY <1>4, <2>1 DEF TypeOK, ExecuteAction, Stage
  <2>5. QED
    BY <1>4, <2>2, <2>3, <2>4 DEF TypeOK, ExecuteAction, dbVars, pollVars
<1>5. QED
  BY <1>1, <1>2, <1>3, <1>4 DEF OperatorNext

LEMMA RestartTyped ==
  ASSUME TypeOK, Restart
  PROVE  TypeOK'
<1>1. wire' \subseteq Request
  BY OrphanTyped DEF Restart
<1>2. QED
  BY <1>1 DEF TypeOK, Restart, CallerStep, RoundStep, NoDraft, Draft, Status, dbVars

LEMMA StepTyped ==
  ASSUME CallerInv, [Next]_vars
  PROVE  TypeOK'
<1>1. ASSUME NEW d \in Docs, TenMinutesPass(d) PROVE TypeOK'
  BY <1>1 DEF CallerInv, TypeOK, TenMinutesPass, callVars, pollVars, operatorVars
<1>2. CASE UNCHANGED vars
  BY <1>2 DEF CallerInv, TypeOK, vars, dbVars, callVars, pollVars, operatorVars
<1>3. QED
  BY <1>1, <1>2, CallerStepTyped, PollStepTyped, OperatorStepTyped, RestartTyped
  DEF Next, CallerInv

-----------------------------------------------------------------------------
(* A note shown as decided was executed so by the operator.                *)

\* What DecisionInv adds to the types.
DecisionParts ==
  /\ CallersAreBound
  /\ RequestsAreAwaited
  /\ SuccessIsTrue
  /\ ExecutedMeansLeft
  /\ DraftIsUndecided
  /\ DecisionsAreExecuted

LEMMA CallerKeepsDecisions ==
  ASSUME DecisionInv, NEW c \in Callers, CallerNext(c)
  PROVE  DecisionParts'
<1> USE DEF DecisionInv, DecisionParts, TypeOK, Request, CallersAreBound, RequestsAreAwaited,
            SuccessIsTrue, ExecutedMeansLeft, DraftIsUndecided, DecisionsAreExecuted
<1>1. ASSUME NEW d \in Docs, NEW decision \in Decision, Enter(c, d, decision)
      PROVE  DecisionParts'
  BY <1>1 DEF Enter, dbVars, pollVars, operatorVars
<1>2. CASE FindRefuses(c)
  BY <1>2 DEF FindRefuses, Leave, dbVars, pollVars, operatorVars
<1>3. CASE Find(c)
  BY <1>3 DEF Find, dbVars, pollVars, operatorVars
<1>4. CASE SaveSending(c)
  BY <1>4 DEF SaveSending, Put, SaveOutcome, Leave, Decision, pollVars, operatorVars
<1>5. CASE GatewayFails(c)
  BY <1>5 DEF GatewayFails, dbVars, pollVars, operatorVars
<1>6. CASE SendExecute(c)
  BY <1>6 DEF SendExecute, dbVars, pollVars
<1>7. CASE ExecuteTimesOut(c)
  BY <1>7 DEF ExecuteTimesOut, Orphan, dbVars, pollVars
<1>8. CASE Cancel(c)
  BY <1>8 DEF Cancel, Leave, Orphan, dbVars, pollVars
<1>9. CASE SaveSucceeded(c)
  BY <1>9 DEF SaveSucceeded, Put, SaveOutcome, Leave, pollVars, operatorVars
<1>10. CASE SaveFailed(c)
  BY <1>10 DEF SaveFailed, Put, SaveOutcome, Leave, Decision, pollVars, operatorVars
<1>11. QED
  BY <1>1, <1>2, <1>3, <1>4, <1>5, <1>6, <1>7, <1>8, <1>9, <1>10 DEF CallerNext

LEMMA PollKeepsDecisions ==
  ASSUME DecisionInv, PollNext
  PROVE  DecisionParts'
<1> USE DEF DecisionInv, DecisionParts, TypeOK, Request, CallersAreBound, RequestsAreAwaited,
            SuccessIsTrue, ExecutedMeansLeft, DraftIsUndecided, DecisionsAreExecuted
<1>1. CASE StartRound
  BY <1>1 DEF StartRound, dbVars, callVars, operatorVars
<1>2. ASSUME NEW d \in Docs, StageUnknown(d) PROVE DecisionParts'
  BY <1>2 DEF StageUnknown, dbVars, callVars, operatorVars
<1>3. ASSUME NEW d \in Docs, ReadStage(d) PROVE DecisionParts'
  BY <1>3 DEF ReadStage, Reconciled, Decision, dbVars, callVars, operatorVars
<1>4. CASE SaveReconciled
  BY <1>4 DEF SaveReconciled, Put, SaveOutcome, Decision, NoDraft, callVars, operatorVars
<1>5. CASE ReadPair
  BY <1>5 DEF ReadPair, dbVars, callVars, operatorVars
<1>6. CASE FetchFails
  BY <1>6 DEF FetchFails, dbVars, callVars, operatorVars
<1>7. CASE Fetch
  BY <1>7 DEF Fetch, FetchUpTo, dbVars, callVars, operatorVars
<1>8. ASSUME NEW d \in Docs, SkipDocument(d) PROVE DecisionParts'
  BY <1>8 DEF SkipDocument, dbVars, callVars, operatorVars
<1>9. ASSUME NEW d \in Docs, FindDocument(d) PROVE DecisionParts'
  BY <1>9 DEF FindDocument, Decision, dbVars, callVars, operatorVars
<1>10. CASE SaveDocument
  BY <1>10 DEF SaveDocument, Put, SaveOutcome, Decision, NoDraft, callVars, operatorVars
<1>11. CASE DocumentsDone
  BY <1>11 DEF DocumentsDone, dbVars, callVars, operatorVars
<1>12. ASSUME NEW d \in Docs, SkipClosed(d) PROVE DecisionParts'
  BY <1>12 DEF SkipClosed, dbVars, callVars, operatorVars
<1>13. ASSUME NEW d \in Docs, FindClosed(d) PROVE DecisionParts'
  BY <1>13 DEF FindClosed, Decision, dbVars, callVars, operatorVars
<1>14. CASE SaveClosed
  BY <1>14 DEF SaveClosed, Put, SaveOutcome, Decision, NoDraft, callVars, operatorVars
<1>15. CASE ClosedDone
  BY <1>15 DEF ClosedDone, dbVars, callVars, operatorVars
<1>16. CASE SavePair
  BY <1>16 DEF SavePair, callVars, operatorVars
<1>17. QED
  BY <1>1, <1>2, <1>3, <1>4, <1>5, <1>6, <1>7, <1>8,
     <1>9, <1>10, <1>11, <1>12, <1>13, <1>14, <1>15, <1>16 DEF PollNext

\* The operator's answer reaches the caller that still waits for it, if any.
LEMMA ExecuteKeepsDecisions ==
  ASSUME DecisionInv, NEW r \in wire, ExecuteAction(r)
  PROVE  DecisionParts'
<1>1. TypeOK
  BY DEF DecisionInv
<1>2. r.doc \in Docs /\ r.decision \in Decision /\ r.by \in Callers \cup {NoCaller}
  BY <1>1 DEF TypeOK, Request
<1>3. r.by # NoCaller =>
        at[r.by] = "awaiting" /\ target[r.by] = r.doc /\ choice[r.by] = r.decision
  BY DEF DecisionInv, RequestsAreAwaited
<1>4. executed' = executed \/ executed' = [executed EXCEPT ![r.doc] = r.decision]
  BY DEF ExecuteAction
<1>5. \A d \in Docs : executed[d] # "None" => executed'[d] = executed[d]
  <2>1. CASE stage[r.doc] = "acceptance"
    <3>1. executed[r.doc] = "None"
      BY <1>2, <2>1 DEF DecisionInv, ExecutedMeansLeft
    <3>2. QED
      BY <1>1, <1>2, <1>4, <3>1 DEF TypeOK
  <2>2. CASE stage[r.doc] # "acceptance"
    BY <2>2 DEF ExecuteAction
  <2>3. QED
    BY <2>1, <2>2
<1>6. \A c \in Callers : at'[c] = at[c] \/ (c = r.by /\ at'[c] \in {"executed", "failed"})
  <2>1. at' = at \/ \E answer \in {"executed", "failed"} : at' = [at EXCEPT ![r.by] = answer]
    BY DEF ExecuteAction
  <2>2. QED
    BY <1>1, <2>1 DEF TypeOK
<1>7. /\ target' = target /\ choice' = choice /\ draft' = draft
      /\ round' = round /\ cur' = cur /\ status' = status
  BY DEF ExecuteAction, dbVars, pollVars
<1>8. CallersAreBound'
  <2>1. \A c \in Callers : at'[c] # "idle" => at[c] # "idle"
    BY <1>3, <1>6, ConstantsAssumption
  <2>2. QED
    BY <1>7, <2>1 DEF DecisionInv, CallersAreBound
<1>9. ExecutedMeansLeft'
  BY <1>1, <1>2 DEF ExecuteAction, DecisionInv, ExecutedMeansLeft, TypeOK
<1>10. DraftIsUndecided'
  BY <1>7 DEF DecisionInv, DraftIsUndecided
<1>11. DecisionsAreExecuted'
  BY <1>5, <1>7 DEF DecisionInv, DecisionsAreExecuted, Decision
<1>12. SuccessIsTrue'
  <2>1. SUFFICES ASSUME NEW c \in Callers, at'[c] = "executed"
                 PROVE  executed'[target[c]] = choice[c]
    BY <1>7 DEF SuccessIsTrue
  <2>2. CASE at[c] = "executed"
    <3>1. target[c] \in Docs /\ choice[c] \in Decision /\ executed[target[c]] = choice[c]
      BY <2>2 DEF DecisionInv, CallersAreBound, SuccessIsTrue
    <3>2. QED
      BY <1>5, <3>1 DEF Decision
  <2>3. CASE at[c] # "executed"
    <3>1. c = r.by /\ c # NoCaller
      BY <1>6, <2>1, <2>3, ConstantsAssumption
    <3>2. stage[r.doc] = "acceptance" /\ executed' = [executed EXCEPT ![r.doc] = r.decision]
      BY <1>1, <2>1, <3>1 DEF ExecuteAction, TypeOK
    <3>3. QED
      BY <1>1, <1>2, <1>3, <3>1, <3>2 DEF TypeOK
  <2>4. QED
    BY <2>2, <2>3
<1>13. RequestsAreAwaited'
  <2>1. SUFFICES ASSUME NEW q \in wire', q.by # NoCaller
                 PROVE  at'[q.by] = "awaiting" /\ target[q.by] = q.doc /\ choice[q.by] = q.decision
    BY <1>7 DEF RequestsAreAwaited
  <2>2. q \in wire /\ q # r
    BY DEF ExecuteAction
  <2>3. q \in Request /\ r \in Request
    BY <1>1, <2>2 DEF TypeOK
  <2>4. /\ at[q.by] = "awaiting" /\ target[q.by] = q.doc /\ choice[q.by] = q.decision
        /\ q.by \in Callers
    BY <2>1, <2>2, <2>3 DEF DecisionInv, RequestsAreAwaited, Request
  <2>5. q.by # r.by
    BY <1>3, <2>2, <2>3, <2>4, ConstantsAssumption DEF Request
  <2>6. QED
    BY <1>6, <2>4, <2>5
<1>14. QED
  BY <1>8, <1>9, <1>10, <1>11, <1>12, <1>13 DEF DecisionParts

LEMMA OperatorKeepsDecisions ==
  ASSUME DecisionInv, OperatorNext
  PROVE  DecisionParts'
<1> USE DEF DecisionInv, DecisionParts, TypeOK, CallersAreBound, RequestsAreAwaited,
            SuccessIsTrue, ExecutedMeansLeft, DraftIsUndecided, DecisionsAreExecuted
<1>1. ASSUME NEW d \in Docs, EarlyStage(d) PROVE DecisionParts'
  BY <1>1 DEF EarlyStage, dbVars, callVars, pollVars
<1>2. ASSUME NEW d \in Docs, ReachAcceptance(d) PROVE DecisionParts'
  BY <1>2 DEF ReachAcceptance, dbVars, callVars, pollVars
<1>3. ASSUME NEW d \in Docs, DecidedElsewhere(d) PROVE DecisionParts'
  BY <1>3 DEF DecidedElsewhere, dbVars, callVars, pollVars
<1>4. QED
  BY <1>1, <1>2, <1>3, ExecuteKeepsDecisions DEF OperatorNext

LEMMA RestartKeepsDecisions ==
  ASSUME DecisionInv, Restart
  PROVE  DecisionParts'
<1> USE DEF DecisionInv, DecisionParts, TypeOK, Request, CallersAreBound, RequestsAreAwaited,
            SuccessIsTrue, ExecutedMeansLeft, DraftIsUndecided, DecisionsAreExecuted
<1>1. QED
  BY DEF Restart, Orphan, NoDraft, Decision, dbVars

LEMMA DecisionInvInductive == DecisionInv /\ [Next]_vars => DecisionInv'
<1> SUFFICES ASSUME DecisionInv, [Next]_vars PROVE DecisionInv'
  OBVIOUS
<1>1. TypeOK'
  BY StepTyped DEF DecisionInv, CallerInv
<1>2. ASSUME NEW d \in Docs, TenMinutesPass(d) PROVE DecisionParts'
  BY <1>2 DEF DecisionInv, DecisionParts, TypeOK, Request, TenMinutesPass, CallersAreBound, RequestsAreAwaited,
     SuccessIsTrue, ExecutedMeansLeft, DraftIsUndecided, DecisionsAreExecuted,
     callVars, pollVars, operatorVars
<1>3. ASSUME UNCHANGED vars PROVE DecisionParts'
  <2>1. /\ status' = status /\ at' = at /\ target' = target /\ choice' = choice
        /\ round' = round /\ cur' = cur /\ draft' = draft /\ stage' = stage
        /\ executed' = executed /\ wire' = wire
    BY <1>3 DEF vars, dbVars, callVars, pollVars, operatorVars
  <2>2. CallersAreBound' /\ RequestsAreAwaited' /\ SuccessIsTrue'
    BY <2>1 DEF DecisionInv, CallersAreBound, RequestsAreAwaited, SuccessIsTrue
  <2>3. ExecutedMeansLeft' /\ DraftIsUndecided' /\ DecisionsAreExecuted'
    BY <2>1 DEF DecisionInv, ExecutedMeansLeft, DraftIsUndecided, DecisionsAreExecuted
  <2>4. QED
    BY <2>2, <2>3 DEF DecisionParts
<1>4. DecisionParts'
  BY <1>2, <1>3, CallerKeepsDecisions, PollKeepsDecisions, OperatorKeepsDecisions,
     RestartKeepsDecisions DEF Next
<1>5. QED
  BY <1>1, <1>4 DEF DecisionInv, DecisionParts

LEMMA InitTyped == Init => TypeOK
  BY DEF Init, TypeOK, Status, CallerStep, RoundStep, Stage, NoDraft, Draft, Event, Request

LEMMA DecisionInvInit == Init => DecisionInv
  BY InitTyped DEF Init, DecisionInv, CallersAreBound, RequestsAreAwaited, SuccessIsTrue,
     ExecutedMeansLeft, DraftIsUndecided, DecisionsAreExecuted, NoDraft, Decision

THEOREM DecisionInvHolds == Spec => []DecisionInv
  BY DecisionInvInit, DecisionInvInductive, PTL DEF Spec

\* Every variable of the exchange keeps its type.
THEOREM ExchangeTyped == Spec => []TypeOK
<1>1. DecisionInv => TypeOK
  BY DEF DecisionInv
<1>2. QED
  BY <1>1, DecisionInvHolds, PTL

\* A note Central shows as accepted or rejected was executed by the operator
\* with that decision: EtrnAcceptanceService saves Accepted or Rejected only
\* on the operator's own answer, and no stale copy can carry such a status.
THEOREM AcceptedNotesWereExecuted == Spec => []DecisionsAreExecuted
<1>1. DecisionInv => DecisionsAreExecuted
  BY DEF DecisionInv
<1>2. QED
  BY <1>1, DecisionInvHolds, PTL
-----------------------------------------------------------------------------
(* The gate lets one command at a time work on a note, so only the worker   *)
(* ever writes over a decision.                                             *)

GateParts == GateIsHeld /\ OneCommandPerNote /\ HeldIsUndecided

LEMMA CallerKeepsGate ==
  ASSUME DecisionInv, GateParts, NEW c \in Callers, CallerNext(c)
  PROVE  GateParts'
<1> USE DEF DecisionInv, GateParts, TypeOK, CallersAreBound,
            GateIsHeld, OneCommandPerNote, HeldIsUndecided
<1>1. ASSUME NEW d \in Docs, NEW decision \in Decision, Enter(c, d, decision)
      PROVE  GateParts'
  <2>1. \A e \in Callers : at[e] # "idle" => target[e] # d
    BY <1>1 DEF Enter
  <2> QED
    BY <1>1, <2>1 DEF Enter, dbVars
<1>2. CASE FindRefuses(c)
  BY <1>2 DEF FindRefuses, Leave, dbVars
<1>3. CASE Find(c)
  BY <1>3 DEF Find, dbVars, Decision
<1>4. CASE SaveSending(c)
  <2>1. \A d \in Docs : status'[d] \in Decision => status[d] \in Decision
    BY <1>4 DEF SaveSending, Put, Decision
  <2>2. /\ \A e \in Callers \ {c} : at'[e] = at[e] /\ target'[e] = target[e]
        /\ at'[c] = "idle" \/ (at'[c] = "executing" /\ target'[c] = target[c])
        /\ busy' = busy \/ (busy' = busy \ {target[c]} /\ at'[c] = "idle")
    BY <1>4 DEF SaveSending, Leave
  <2> QED
    BY <1>4, <2>1, <2>2 DEF SaveSending
<1>5. CASE GatewayFails(c)
  BY <1>5 DEF GatewayFails, dbVars
<1>6. CASE SendExecute(c)
  BY <1>6 DEF SendExecute, dbVars
<1>7. CASE ExecuteTimesOut(c)
  BY <1>7 DEF ExecuteTimesOut, dbVars
<1>8. CASE Cancel(c)
  BY <1>8 DEF Cancel, Leave, dbVars
<1>9. CASE SaveSucceeded(c)
  BY <1>9 DEF SaveSucceeded, Put, SaveOutcome, Leave
<1>10. CASE SaveFailed(c)
  BY <1>10 DEF SaveFailed, Put, SaveOutcome, Leave, Decision
<1>11. QED
  BY <1>1, <1>2, <1>3, <1>4, <1>5, <1>6, <1>7, <1>8, <1>9, <1>10 DEF CallerNext

LEMMA GateInvInductive == GateInv /\ [Next]_vars => GateInv'
<1> SUFFICES ASSUME DecisionInv, GateParts, [Next]_vars PROVE GateParts'
  BY DecisionInvInductive DEF GateInv, GateParts
<1> USE DEF GateParts, GateIsHeld, OneCommandPerNote, HeldIsUndecided
<1>1. CASE PollNext
  <2>1. UNCHANGED <<busy, at, target>>
    BY <1>1 DEF PollNext, StartRound, StageUnknown, ReadStage, SaveReconciled, ReadPair, FetchFails,
       Fetch, FetchUpTo, SkipDocument, FindDocument, SaveDocument, DocumentsDone,
       SkipClosed, FindClosed, SaveClosed, ClosedDone, SavePair, callVars
  <2>2. \A d \in Docs : status'[d] \in Decision => status[d] \in Decision
    <3>1. CASE SaveReconciled \/ SaveDocument \/ SaveClosed
      BY <3>1 DEF SaveReconciled, SaveDocument, SaveClosed, Put, DecisionInv, DraftIsUndecided, TypeOK
    <3>2. CASE ~(SaveReconciled \/ SaveDocument \/ SaveClosed)
      BY <1>1, <3>2 DEF PollNext, StartRound, StageUnknown, ReadStage, ReadPair, FetchFails,
         Fetch, FetchUpTo, SkipDocument, FindDocument, DocumentsDone, SkipClosed, FindClosed,
         ClosedDone, SavePair, dbVars
    <3> QED
      BY <3>1, <3>2
  <2> QED
    BY <2>1, <2>2 DEF DecisionInv, CallersAreBound
<1>2. ASSUME NEW r \in wire, ExecuteAction(r) PROVE GateParts'
  <2>1. r.by # NoCaller => at[r.by] = "awaiting"
    BY DEF DecisionInv, RequestsAreAwaited
  <2>2. UNCHANGED <<busy, target, status>>
    BY <1>2 DEF ExecuteAction, dbVars
  <2>3. at \in [Callers -> CallerStep] /\ r.by \in Callers \cup {NoCaller}
    BY DEF DecisionInv, TypeOK, Request
  <2>4. at' = at \/ \E answer \in {"executed", "failed"} : at' = [at EXCEPT ![r.by] = answer] /\ r.by # NoCaller
    BY <1>2 DEF ExecuteAction
  <2>5. \A c \in Callers : at'[c] = at[c] \/ (at[c] = "awaiting" /\ at'[c] \in {"executed", "failed"})
    BY <2>1, <2>3, <2>4
  <2> QED
    BY <2>2, <2>5
<1>3. CASE Restart
  BY <1>3 DEF Restart
<1>4. CASE UNCHANGED <<status, busy, at, target>>
  BY <1>4
<1>5. OperatorNext => UNCHANGED <<status, busy, at, target>> \/ \E r \in wire : ExecuteAction(r)
  BY DEF OperatorNext, EarlyStage, ReachAcceptance, DecidedElsewhere, dbVars, callVars
<1>6. ASSUME UNCHANGED vars \/ \E d \in Docs : TenMinutesPass(d) PROVE UNCHANGED <<status, busy, at, target>>
  BY <1>6 DEF TenMinutesPass, vars, dbVars, callVars
<1> QED
  BY <1>1, <1>2, <1>3, <1>4, <1>5, <1>6, CallerKeepsGate DEF Next

LEMMA GateInvHolds == Spec => []GateInv
<1>1. Init => GateInv
  BY DecisionInvInit DEF Init, GateInv, GateIsHeld, OneCommandPerNote, HeldIsUndecided
<1> QED
  BY <1>1, GateInvInductive, PTL DEF Spec

\* EtrnAcceptanceGate: for any number of requests, at most one at a time works
\* on a note, and what it has read is not decided beside it.
THEOREM GateLetsOneIn == Spec => [](OneCommandPerNote /\ HeldIsUndecided)
<1>1. GateInv => OneCommandPerNote /\ HeldIsUndecided
  BY DEF GateInv
<1> QED
  BY <1>1, GateInvHolds, PTL

\* A decision shown in Central is taken back by nobody but the polling worker,
\* in one of its three saves of a copy it read before: no other command, late
\* answer, failed save or restart does it.
THEOREM OnlyPollOverwrites == Spec => OnlyPollTakesBack
<1> DEFINE Stands(d) == status[d] \in Decision /\ status'[d] # status[d]
                          => cur = d /\ round \in {"saveReconciled", "saveDocument", "saveClosed"}
<1>1. ASSUME GateInv, [Next]_vars, NEW d \in Docs, status[d] \in Decision, status'[d] # status[d]
      PROVE  cur = d /\ round \in {"saveReconciled", "saveDocument", "saveClosed"}
  <2>t. TypeOK
    BY <1>1 DEF GateInv, DecisionInv
  <2>1. CASE SaveReconciled \/ SaveDocument \/ SaveClosed
    BY <1>1, <2>1, <2>t DEF SaveReconciled, SaveDocument, SaveClosed, Put, TypeOK
  <2>2. CASE PollNext /\ ~(SaveReconciled \/ SaveDocument \/ SaveClosed)
    BY <1>1, <2>2 DEF PollNext, StartRound, StageUnknown, ReadStage, ReadPair, FetchFails,
       Fetch, FetchUpTo, SkipDocument, FindDocument, DocumentsDone, SkipClosed, FindClosed,
       ClosedDone, SavePair, dbVars
  <2>3. ASSUME NEW c \in Callers, CallerNext(c) PROVE FALSE
    <3>1. at[c] \notin {"idle", "entered"} => target[c] # d
      BY <1>1 DEF GateInv, HeldIsUndecided
    <3> QED
      BY <1>1, <2>t, <2>3, <3>1 DEF CallerNext, Enter, FindRefuses, Find, SaveSending, GatewayFails,
         SendExecute, ExecuteTimesOut, Cancel, SaveSucceeded, SaveFailed, Put, dbVars, TypeOK
  <2>4. OperatorNext \/ Restart \/ (\E e \in Docs : TenMinutesPass(e)) \/ UNCHANGED vars => UNCHANGED status
    BY DEF OperatorNext, EarlyStage, ReachAcceptance, DecidedElsewhere, ExecuteAction, Restart,
           TenMinutesPass, vars, dbVars
  <2> QED
    BY <1>1, <2>1, <2>2, <2>3, <2>4 DEF Next
<1>2. GateInv /\ [Next]_vars => \A d \in Docs : Stands(d)
  BY <1>1
<1> QED
  BY <1>2, GateInvHolds, PTL DEF Spec, OnlyPollTakesBack
-----------------------------------------------------------------------------
(* A note is closed only after its acceptance stage is over, or when the   *)
(* feed told of it before that stage.                                      *)

\* The feed keeps its events at their places.
FeedKept ==
  /\ Len(feed') >= Len(feed)
  /\ \A i \in DOMAIN feed : feed'[i] = feed[i]

LEMMA FeedGrows ==
  ASSUME TypeOK, [Next]_vars
  PROVE  FeedKept /\ Len(feed) \in Nat /\ Len(feed') \in Nat
         /\ DOMAIN feed = 1 .. Len(feed) /\ DOMAIN feed' = 1 .. Len(feed')
<1>1. feed \in Seq(Event)
  BY DEF TypeOK
<1>2. CASE UNCHANGED feed
  BY <1>1, <1>2 DEF FeedKept
<1>3. ASSUME NEW d \in Docs, NEW b \in BOOLEAN, Report(d, b)
      PROVE  FeedKept /\ feed' \in Seq(Event)
  <2>1. PICK e \in Event : feed' = Append(feed, e)
    BY <1>3 DEF Report, Event
  <2> QED
    BY <1>1, <2>1 DEF FeedKept
<1>4. UNCHANGED feed \/ \E d \in Docs, b \in BOOLEAN : Report(d, b)
  <2>1. CASE OperatorNext
    <3>1. ASSUME NEW r \in wire, ExecuteAction(r) PROVE UNCHANGED feed \/ \E d \in Docs : Report(d, FALSE)
      BY <3>1 DEF ExecuteAction, TypeOK, Request
    <3> QED
      BY <2>1, <3>1 DEF OperatorNext, EarlyStage, ReachAcceptance, DecidedElsewhere
  <2>2. ASSUME NEW c \in Callers, CallerNext(c) PROVE UNCHANGED feed
    BY <2>2 DEF CallerNext, Enter, FindRefuses, Find, SaveSending, GatewayFails, SendExecute,
                ExecuteTimesOut, Cancel, SaveSucceeded, SaveFailed, operatorVars
  <2>3. CASE PollNext
    BY <2>3 DEF PollNext, StartRound, StageUnknown, ReadStage, SaveReconciled, ReadPair, FetchFails,
                Fetch, FetchUpTo, SkipDocument, FindDocument, SaveDocument, DocumentsDone,
                SkipClosed, FindClosed, SaveClosed, ClosedDone, SavePair, operatorVars
  <2> QED
    BY <2>1, <2>2, <2>3 DEF Next, TenMinutesPass, Restart, vars, operatorVars
<1> QED
  BY <1>1, <1>2, <1>3, <1>4

\* The operator never takes a note back to an earlier stage.
LEMMA StagesGoForward ==
  ASSUME TypeOK, [Next]_vars, NEW d \in Docs
  PROVE  /\ Reached(d) => Reached(d)'
         /\ stage[d] = "after" => stage'[d] = "after"
         /\ stage[d] # "absent" => stage'[d] # "absent"
<1>1. CASE UNCHANGED stage
  BY <1>1 DEF Reached
<1>2. ASSUME NEW e \in Docs, EarlyStage(e) \/ ReachAcceptance(e) \/ DecidedElsewhere(e)
      PROVE  /\ Reached(d) => Reached(d)'
             /\ stage[d] = "after" => stage'[d] = "after"
             /\ stage[d] # "absent" => stage'[d] # "absent"
  BY <1>2 DEF TypeOK, EarlyStage, ReachAcceptance, DecidedElsewhere, Reached
<1>3. ASSUME NEW r \in wire, ExecuteAction(r)
      PROVE  /\ Reached(d) => Reached(d)'
             /\ stage[d] = "after" => stage'[d] = "after"
             /\ stage[d] # "absent" => stage'[d] # "absent"
  BY <1>3 DEF TypeOK, ExecuteAction, Reached
<1>4. ASSUME NEW c \in Callers, CallerNext(c) PROVE UNCHANGED stage
  BY <1>4 DEF CallerNext, Enter, FindRefuses, Find, SaveSending, GatewayFails, SendExecute,
     ExecuteTimesOut, Cancel, SaveSucceeded, SaveFailed, operatorVars
<1>5. ASSUME PollNext PROVE UNCHANGED stage
  BY <1>5 DEF PollNext, StartRound, StageUnknown, ReadStage, SaveReconciled, ReadPair,
     FetchFails, Fetch, FetchUpTo, SkipDocument, FindDocument, SaveDocument, DocumentsDone,
     SkipClosed, FindClosed, SaveClosed, ClosedDone, SavePair, operatorVars
<1>6. ASSUME Restart \/ UNCHANGED vars \/ \E e \in Docs : TenMinutesPass(e)
      PROVE  UNCHANGED stage
  BY <1>6 DEF Restart, TenMinutesPass, vars, operatorVars
<1>7. QED
  BY <1>1, <1>2, <1>3, <1>4, <1>5, <1>6 DEF Next, OperatorNext

LEMMA FeedTyped ==
  ASSUME TypeOK
  PROVE  \A i \in DOMAIN feed : feed[i].doc \in Docs /\ feed[i].acceptance \in BOOLEAN
<1>1. \A i \in DOMAIN feed : feed[i] \in Event
  BY DEF TypeOK
<1>2. QED
  BY <1>1 DEF Event

\* What the feed told of a note, and that the note has left, stays true.
LEMMA MayCloseStays ==
  ASSUME TypeOK, [Next]_vars, NEW d \in Docs, MayClose(d)
  PROVE  MayClose(d)'
<1>1. CASE stage[d] = "after"
  BY <1>1, StagesGoForward DEF MayClose
<1>2. CASE ToldEarly(d)
  <2>1. FeedKept /\ Len(feed) \in Nat /\ Len(feed') \in Nat
        /\ DOMAIN feed = 1 .. Len(feed) /\ DOMAIN feed' = 1 .. Len(feed')
    BY FeedGrows
  <2>2. PICK i \in DOMAIN feed :
          /\ feed[i].doc = d /\ ~feed[i].acceptance
          /\ \A j \in 1 .. i : feed[j].doc = d => ~feed[j].acceptance
    BY <1>2 DEF ToldEarly
  <2>3. i \in DOMAIN feed' /\ feed'[i] = feed[i] /\ \A j \in 1 .. i : feed'[j] = feed[j]
    BY <2>1 DEF FeedKept
  <2> QED
    BY <2>2, <2>3 DEF MayClose, ToldEarly
<1> QED
  BY <1>1, <1>2 DEF MayClose

\* What ClosedInv adds to DecisionInv.
ClosedParts == KnownMeansReached /\ FeedTellsStage /\ ClosedMeansLeftOrTold

\* An event that fits its note may be appended to the feed.
LEMMA ReportKeepsFeed ==
  ASSUME TypeOK, [Next]_vars, NEW d \in Docs, NEW b \in BOOLEAN, Report(d, b),
         \A i \in DOMAIN feed, e \in Docs :
           feed[i].doc = e => /\ stage'[e] \in Told(feed[i].acceptance)
                              /\ feed[i].acceptance \/ MayClose(e),
         stage'[d] \in Told(b), b \/ MayClose(d)'
  PROVE  \A i \in DOMAIN feed', e \in Docs :
           feed'[i].doc = e => /\ stage'[e] \in Told(feed'[i].acceptance)
                               /\ feed'[i].acceptance \/ MayClose(e)'
<1>1. feed \in Seq(Event) /\ [doc |-> d, acceptance |-> b] \in Event
  BY DEF TypeOK, Event
<1>2. DOMAIN feed' = 1 .. Len(feed) + 1 /\ DOMAIN feed = 1 .. Len(feed)
  BY <1>1 DEF Report
<1>3. TAKE i \in DOMAIN feed', e \in Docs
<1>4. CASE i = Len(feed) + 1
  <2>1. feed'[i] = [doc |-> d, acceptance |-> b]
    BY <1>1, <1>4 DEF Report
  <2>2. feed'[i].doc = d /\ feed'[i].acceptance = b
    BY <2>1
  <2> QED
    BY <2>2
<1>5. CASE i # Len(feed) + 1
  <2>1. i \in DOMAIN feed
    BY <1>1, <1>2, <1>3, <1>5
  <2>2. feed'[i] = feed[i]
    BY <1>1, <1>2, <2>1 DEF Report
  <2>3. MayClose(e) => MayClose(e)'
    BY MayCloseStays
  <2> QED
    BY <2>1, <2>2, <2>3
<1> QED
  BY <1>4, <1>5

\* A note the operator reports before its acceptance stage is told early.
LEMMA EarlyReportIsTold ==
  ASSUME TypeOK, FeedTellsStage, NEW d \in Docs, EarlyStage(d)
  PROVE  ToldEarly(d)'
<1>1. feed \in Seq(Event) /\ [doc |-> d, acceptance |-> FALSE] \in Event
  BY DEF TypeOK, Event
<1>2. feed' = Append(feed, [doc |-> d, acceptance |-> FALSE])
  BY DEF EarlyStage, Report
<1>3. Len(feed') = Len(feed) + 1 /\ Len(feed) \in Nat /\ DOMAIN feed' = 1 .. Len(feed) + 1
      /\ feed'[Len(feed) + 1] = [doc |-> d, acceptance |-> FALSE]
      /\ \A j \in 1 .. Len(feed) : feed'[j] = feed[j] /\ j \in DOMAIN feed
  BY <1>1, <1>2
<1>4. \A j \in 1 .. Len(feed) : feed[j].doc = d => ~feed[j].acceptance
  BY <1>3 DEF FeedTellsStage, Told, EarlyStage
<1>5. \A j \in 1 .. Len(feed) + 1 : feed'[j].doc = d => ~feed'[j].acceptance
  BY <1>3, <1>4
<1> QED
  BY <1>3, <1>5 DEF ToldEarly

LEMMA OperatorKeepsClosed ==
  ASSUME DecisionInv, ClosedParts, OperatorNext
  PROVE  ClosedParts'
<1> DEFINE FeedTells ==
      \A i \in DOMAIN feed', e \in Docs :
        feed'[i].doc = e => /\ stage'[e] \in Told(feed'[i].acceptance)
                            /\ feed'[i].acceptance \/ MayClose(e)'
<1>1. TypeOK /\ [Next]_vars
  BY DEF DecisionInv, Next
<1>2. UNCHANGED <<status, round, stale, toSave, toClose, cur, draft, target>>
  BY DEF OperatorNext, EarlyStage, ReachAcceptance, DecidedElsewhere, ExecuteAction,
     dbVars, callVars, pollVars
<1>3. \A d \in Docs : /\ Reached(d) => Reached(d)'
                      /\ stage[d] = "after" => stage'[d] = "after"
                      /\ MayClose(d) => MayClose(d)'
  BY <1>1, StagesGoForward, MayCloseStays
<1>4. \A i \in DOMAIN feed :
        /\ feed[i].doc \in Docs /\ feed[i].acceptance \in BOOLEAN
        /\ \A e \in Docs : feed[i].doc = e => /\ stage[e] \in Told(feed[i].acceptance)
                                              /\ feed[i].acceptance \/ MayClose(e)
  BY <1>1, FeedTyped DEF ClosedParts, FeedTellsStage
<1>5. FeedTells
  <2>0. \A i \in DOMAIN feed, e \in Docs :
          feed[i].doc = e => /\ stage'[e] \in Told(feed[i].acceptance)
                             /\ feed[i].acceptance \/ MayClose(e)
    <3>1. \A e \in Docs : stage[e] # "absent" => stage'[e] # "absent"
      BY <1>1, StagesGoForward
    <3>2. \A e \in Docs : stage'[e] \in Stage
      BY <1>1, StepTyped DEF TypeOK, CallerInv, DecisionInv
    <3> QED
      BY <1>3, <1>4, <3>1, <3>2 DEF Told, Reached, Stage
  <2>1. ASSUME NEW d \in Docs, EarlyStage(d) PROVE FeedTells
    <3>1. Report(d, FALSE) /\ stage'[d] \in Told(FALSE)
      BY <1>1, <2>1 DEF EarlyStage, TypeOK, Told
    <3>2. MayClose(d)'
      BY <1>1, <2>1, EarlyReportIsTold DEF MayClose, ClosedParts
    <3> QED
      BY <1>1, <2>0, <3>1, <3>2, ReportKeepsFeed
  <2>2. ASSUME NEW d \in Docs, ReachAcceptance(d) PROVE FeedTells
    <3>1. Report(d, TRUE) /\ stage'[d] \in Told(TRUE)
      BY <1>1, <2>2 DEF ReachAcceptance, TypeOK, Told
    <3> QED
      BY <1>1, <2>0, <3>1, ReportKeepsFeed
  <2>3. ASSUME NEW d \in Docs, DecidedElsewhere(d) PROVE FeedTells
    <3>1. Report(d, FALSE) /\ stage'[d] \in Told(FALSE) /\ MayClose(d)'
      BY <1>1, <2>3 DEF DecidedElsewhere, TypeOK, Told, MayClose
    <3> QED
      BY <1>1, <2>0, <3>1, ReportKeepsFeed
  <2>4. ASSUME NEW r \in wire, ExecuteAction(r), stage[r.doc] = "acceptance" PROVE FeedTells
    <3>0. r.doc \in Docs
      BY <1>1 DEF TypeOK, Request
    <3>1. Report(r.doc, FALSE) /\ stage'[r.doc] \in Told(FALSE) /\ MayClose(r.doc)'
      BY <1>1, <2>4, <3>0 DEF ExecuteAction, TypeOK, Told, MayClose
    <3> QED
      BY <1>1, <2>0, <3>0, <3>1, ReportKeepsFeed
  <2>5. ASSUME NEW r \in wire, ExecuteAction(r), stage[r.doc] # "acceptance" PROVE FeedTells
    BY <1>3, <2>0, <2>5 DEF ExecuteAction
  <2> QED
    BY <2>1, <2>2, <2>3, <2>4, <2>5 DEF OperatorNext
<1>6. \A c \in Callers : at'[c] \notin {"idle", "entered"} => at[c] \notin {"idle", "entered"}
  <2>1. ASSUME NEW r \in wire, ExecuteAction(r), NEW c \in Callers,
               at'[c] \notin {"idle", "entered"}
        PROVE  at[c] \notin {"idle", "entered"}
    <3>1. r.by # NoCaller => at[r.by] = "awaiting"
      BY DEF DecisionInv, RequestsAreAwaited
    <3>2. at'[c] = at[c] \/ (c = r.by /\ c # NoCaller)
      BY <1>1, <2>1, ConstantsAssumption DEF ExecuteAction, TypeOK, Request
    <3>3. QED
      BY <2>1, <3>1, <3>2
  <2>2. QED
    BY <2>1 DEF OperatorNext, EarlyStage, ReachAcceptance, DecidedElsewhere, callVars
<1>7. \A c \in Callers : at[c] \notin {"idle", "entered"} => target[c] \in Docs
  BY DEF DecisionInv, CallersAreBound
<1>8. KnownMeansReached'
  BY <1>1, <1>2, <1>3, <1>6, <1>7 DEF ClosedParts, KnownMeansReached, TypeOK, Reached
<1>9. FeedTellsStage' /\ ClosedMeansLeftOrTold'
  BY <1>1, <1>2, <1>3, <1>5 DEF ClosedParts, FeedTellsStage, ClosedMeansLeftOrTold, TypeOK
<1>10. QED
  BY <1>8, <1>9 DEF ClosedParts

LEMMA CallerKeepsClosed ==
  ASSUME DecisionInv, ClosedParts, NEW c \in Callers, CallerNext(c)
  PROVE  ClosedParts'
<1> USE DEF DecisionInv, ClosedParts, TypeOK, CallersAreBound, KnownMeansReached,
            FeedTellsStage, ClosedMeansLeftOrTold, Reached
<1>0. /\ \A d \in Docs : MayClose(d) => MayClose(d)'
      /\ \A i \in DOMAIN feed : feed[i].doc \in Docs
  BY MayCloseStays, FeedTyped DEF Next
<1>1. ASSUME NEW d \in Docs, NEW decision \in Decision, Enter(c, d, decision)
      PROVE  ClosedParts'
  BY <1>0, <1>1 DEF Enter, dbVars, pollVars, operatorVars
<1>2. CASE FindRefuses(c)
  BY <1>0, <1>2 DEF FindRefuses, Leave, dbVars, pollVars, operatorVars
<1>3. CASE Find(c)
  BY <1>0, <1>3 DEF Find, dbVars, pollVars, operatorVars
<1>4. CASE SaveSending(c)
  BY <1>0, <1>4 DEF SaveSending, Put, SaveOutcome, Leave, pollVars, operatorVars
<1>5. CASE GatewayFails(c)
  BY <1>0, <1>5 DEF GatewayFails, dbVars, pollVars, operatorVars
<1>6. CASE SendExecute(c)
  BY <1>0, <1>6 DEF SendExecute, dbVars, pollVars
<1>7. CASE ExecuteTimesOut(c)
  BY <1>0, <1>7 DEF ExecuteTimesOut, dbVars, pollVars
<1>8. CASE Cancel(c)
  BY <1>0, <1>8 DEF Cancel, Leave, dbVars, pollVars
<1>9. CASE SaveSucceeded(c)
  BY <1>0, <1>9 DEF SaveSucceeded, Put, SaveOutcome, Leave, Decision, pollVars, operatorVars
<1>10. CASE SaveFailed(c)
  BY <1>0, <1>10 DEF SaveFailed, Put, SaveOutcome, Leave, pollVars, operatorVars
<1>11. QED
  BY <1>1, <1>2, <1>3, <1>4, <1>5, <1>6, <1>7, <1>8, <1>9, <1>10 DEF CallerNext

\* A page names documents after the stages its events tell.
LEMMA FetchKeepsClosed ==
  ASSUME DecisionInv, ClosedParts, Fetch
  PROVE  ClosedParts'
<1>1. PICK stop \in PageFirst .. PageLast + 1 : FetchUpTo(stop)
  BY DEF Fetch
<1>2. \A i \in Processed(stop) : i \in DOMAIN feed /\ feed[i].doc \in Docs
                                /\ feed[i].acceptance \in BOOLEAN
  <2>1. feed \in Seq(Event) /\ Len(feed) \in Nat /\ DOMAIN feed = 1 .. Len(feed)
    BY DEF DecisionInv, TypeOK
  <2>2. PageFirst \in Nat \ {0} /\ PageLast \in Int /\ PageLast <= Len(feed)
    BY <2>1, ConstantsAssumption DEF DecisionInv, TypeOK, PageFirst, PageLast, Smaller
  <2>3. \A i \in Processed(stop) : i \in DOMAIN feed
    BY <2>1, <2>2 DEF Processed
  <2>4. QED
    BY <2>3, FeedTyped DEF DecisionInv
<1>3. \A i \in Processed(stop), d \in Docs :
        feed[i].doc = d => /\ stage[d] \in Told(feed[i].acceptance)
                           /\ feed[i].acceptance \/ MayClose(d)
  BY <1>2 DEF ClosedParts, FeedTellsStage
<1>4. \A d \in toSave' : Reached(d)
  BY <1>1, <1>2, <1>3 DEF FetchUpTo, Told, Reached
<1>5. \A d \in toClose' : MayClose(d)
  BY <1>1, <1>2, <1>3 DEF FetchUpTo
<1>6. UNCHANGED <<status, at, target, stage, stale, cur, draft, feed>>
  BY <1>1 DEF FetchUpTo, dbVars, callVars, operatorVars
<1>7. \A d : MayClose(d)' <=> MayClose(d)
  BY <1>6 DEF MayClose, ToldEarly
<1>8. KnownMeansReached' /\ FeedTellsStage' /\ ClosedMeansLeftOrTold'
  BY <1>4, <1>5, <1>6, <1>7 DEF ClosedParts, KnownMeansReached, FeedTellsStage, ClosedMeansLeftOrTold, Reached
<1> QED
  BY <1>8 DEF ClosedParts

\* Writing the worker's draft closes only a note that may be closed.
LEMMA DraftKeepsClosed ==
  ASSUME DecisionInv, ClosedParts, NEW o \in SaveOutcome,
         cur \in Docs, Put(o, cur, draft.status, draft.xml),
         cur' = NoDoc, draft' = NoDraft,
         UNCHANGED <<at, target, stale, toSave, toClose, stage, feed>>
  PROVE  ClosedParts'
<1>1. \A d \in Docs : status'[d] = status[d] \/ (d = cur /\ status'[d] = draft.status)
  BY DEF Put, SaveOutcome, DecisionInv, TypeOK
<1>0. \A d : MayClose(d)' <=> MayClose(d)
  BY DEF MayClose, ToldEarly
<1>2. ClosedMeansLeftOrTold'
  BY <1>0, <1>1 DEF ClosedParts, ClosedMeansLeftOrTold, FeedTellsStage
<1>3. FeedTellsStage'
  BY <1>0, ConstantsAssumption DEF ClosedParts, FeedTellsStage
<1>4. KnownMeansReached'
  BY <1>1, ConstantsAssumption DEF ClosedParts, KnownMeansReached, Reached
<1>5. QED
  BY <1>2, <1>3, <1>4 DEF ClosedParts

LEMMA PollKeepsClosed ==
  ASSUME DecisionInv, ClosedParts, PollNext
  PROVE  ClosedParts'
<1> USE DEF DecisionInv, ClosedParts, TypeOK, DraftIsUndecided, KnownMeansReached,
            FeedTellsStage, ClosedMeansLeftOrTold, Reached
<1>0. /\ \A d \in Docs : MayClose(d) => MayClose(d)'
      /\ \A i \in DOMAIN feed : feed[i].doc \in Docs
  BY MayCloseStays, FeedTyped DEF Next
<1>1. CASE StartRound
  BY <1>0, <1>1 DEF StartRound, dbVars, callVars, operatorVars
<1>2. ASSUME NEW d \in Docs, StageUnknown(d) PROVE ClosedParts'
  BY <1>0, <1>2 DEF StageUnknown, dbVars, callVars, operatorVars
<1>3. ASSUME NEW d \in Docs, ReadStage(d) PROVE ClosedParts'
  <2>1. Reached(d) /\ (Reconciled(stage[d]) = "Closed" => MayClose(d))
    BY <1>3 DEF ReadStage, Reconciled, MayClose
  <2> QED
    BY <1>0, <1>3, <2>1 DEF ReadStage, dbVars, callVars, operatorVars
<1>4. CASE SaveReconciled
  BY <1>4, DraftKeepsClosed DEF SaveReconciled, callVars, operatorVars
<1>5. CASE ReadPair
  BY <1>0, <1>5 DEF ReadPair, dbVars, callVars, operatorVars
<1>6. CASE FetchFails
  BY <1>0, <1>6 DEF FetchFails, dbVars, callVars, operatorVars
<1>7. CASE Fetch
  BY <1>7, FetchKeepsClosed
<1>8. ASSUME NEW d \in Docs, SkipDocument(d) PROVE ClosedParts'
  BY <1>0, <1>8 DEF SkipDocument, dbVars, callVars, operatorVars
<1>9. ASSUME NEW d \in Docs, FindDocument(d) PROVE ClosedParts'
  BY <1>0, <1>9 DEF FindDocument, dbVars, callVars, operatorVars
<1>10. CASE SaveDocument
  BY <1>10, DraftKeepsClosed DEF SaveDocument, callVars, operatorVars
<1>11. CASE DocumentsDone
  BY <1>0, <1>11 DEF DocumentsDone, dbVars, callVars, operatorVars
<1>12. ASSUME NEW d \in Docs, SkipClosed(d) PROVE ClosedParts'
  BY <1>0, <1>12 DEF SkipClosed, dbVars, callVars, operatorVars
<1>13. ASSUME NEW d \in Docs, FindClosed(d) PROVE ClosedParts'
  BY <1>0, <1>13 DEF FindClosed, dbVars, callVars, operatorVars
<1>14. CASE SaveClosed
  BY <1>14, DraftKeepsClosed DEF SaveClosed, callVars, operatorVars
<1>15. CASE ClosedDone
  BY <1>0, <1>15 DEF ClosedDone, dbVars, callVars, operatorVars
<1>16. CASE SavePair
  BY <1>0, <1>16 DEF SavePair, callVars, operatorVars
<1>17. QED
  BY <1>1, <1>2, <1>3, <1>4, <1>5, <1>6, <1>7, <1>8,
     <1>9, <1>10, <1>11, <1>12, <1>13, <1>14, <1>15, <1>16 DEF PollNext

LEMMA ClosedPartsInductive ==
  ASSUME DecisionInv, ClosedParts, [Next]_vars
  PROVE  ClosedParts'
<1>0. /\ \A d \in Docs : MayClose(d) => MayClose(d)'
      /\ \A i \in DOMAIN feed : feed[i].doc \in Docs
      /\ cur \in Docs \cup {NoDoc} /\ toClose \subseteq Docs
  BY MayCloseStays, FeedTyped DEF DecisionInv, TypeOK
<1>1. ASSUME NEW d \in Docs, TenMinutesPass(d) PROVE ClosedParts'
  BY <1>0, <1>1 DEF TenMinutesPass, ClosedParts, KnownMeansReached, FeedTellsStage,
     ClosedMeansLeftOrTold, Reached, callVars, pollVars, operatorVars
<1>2. CASE Restart
  BY <1>0, <1>2, ConstantsAssumption DEF Restart, ClosedParts, KnownMeansReached, FeedTellsStage,
     ClosedMeansLeftOrTold, Reached, NoDraft, dbVars
<1>3. CASE UNCHANGED vars
  BY <1>0, <1>3 DEF ClosedParts, KnownMeansReached, FeedTellsStage, ClosedMeansLeftOrTold,
     Reached, vars, dbVars, callVars, pollVars, operatorVars
<1>4. QED
  BY <1>1, <1>2, <1>3, CallerKeepsClosed, PollKeepsClosed, OperatorKeepsClosed DEF Next

LEMMA ClosedPartsHold == Spec => []ClosedParts
<1>1. Init => ClosedParts
  BY ConstantsAssumption DEF Init, ClosedParts, KnownMeansReached, FeedTellsStage,
     ClosedMeansLeftOrTold, NoDraft
<1>2. DecisionInv /\ ClosedParts /\ [Next]_vars => ClosedParts'
  BY ClosedPartsInductive
<1>3. QED
  BY <1>1, <1>2, DecisionInvHolds, PTL DEF Spec

\* A note Central shows as closed has left its acceptance stage at the operator,
\* or the feed told of it before that stage: LoadConnectionAsync closes on any
\* event but acceptance, ReconcileAsync on the stage it reads.
THEOREM ClosedNotesMayClose == Spec => []ClosedMeansLeftOrTold
<1>1. ClosedParts => ClosedMeansLeftOrTold
  BY DEF ClosedParts
<1>2. QED
  BY <1>1, ClosedPartsHold, PTL

\* What a step can do to the stages and the feed.
LEMMA OperatorSteps ==
  ASSUME TypeOK, [Next]_vars
  PROVE  \/ UNCHANGED <<stage, feed>>
         \/ \E d \in Docs : EarlyStage(d) \/ ReachAcceptance(d)
         \/ \E d \in Docs : /\ stage[d] = "acceptance"
                            /\ stage' = [stage EXCEPT ![d] = "after"]
                            /\ Report(d, FALSE)
<1>1. CASE OperatorNext
  <2>1. ASSUME NEW r \in wire, ExecuteAction(r), ~UNCHANGED <<stage, feed>>
        PROVE  \E d \in Docs : /\ stage[d] = "acceptance"
                               /\ stage' = [stage EXCEPT ![d] = "after"]
                               /\ Report(d, FALSE)
    BY <2>1 DEF ExecuteAction, TypeOK, Request
  <2> QED
    BY <1>1, <2>1 DEF OperatorNext, DecidedElsewhere
<1>2. ASSUME NEW c \in Callers, CallerNext(c) PROVE UNCHANGED <<stage, feed>>
  BY <1>2 DEF CallerNext, Enter, FindRefuses, Find, SaveSending, GatewayFails, SendExecute,
     ExecuteTimesOut, Cancel, SaveSucceeded, SaveFailed, operatorVars
<1>3. CASE PollNext
  BY <1>3 DEF PollNext, StartRound, StageUnknown, ReadStage, SaveReconciled, ReadPair,
     FetchFails, Fetch, FetchUpTo, SkipDocument, FindDocument, SaveDocument, DocumentsDone,
     SkipClosed, FindClosed, SaveClosed, ClosedDone, SavePair, operatorVars
<1>4. CASE Restart \/ UNCHANGED vars \/ \E e \in Docs : TenMinutesPass(e)
  BY <1>4 DEF Restart, TenMinutesPass, vars, operatorVars
<1> QED
  BY <1>1, <1>2, <1>3, <1>4 DEF Next

\* A report tells of an early stage only of its own note, and only before the
\* report of its acceptance stage.
LEMMA ReportTells ==
  ASSUME TypeOK, NEW d \in Docs, NEW b \in BOOLEAN, Report(d, b), NEW e \in Docs,
         e # d \/ b \/ \E i \in DOMAIN feed : feed[i].doc = d /\ feed[i].acceptance
  PROVE  ToldEarly(e)' <=> ToldEarly(e)
<1>1. feed \in Seq(Event) /\ [doc |-> d, acceptance |-> b] \in Event
  BY DEF TypeOK, Event
<1>2. Len(feed) \in Nat /\ DOMAIN feed = 1 .. Len(feed) /\ DOMAIN feed' = 1 .. Len(feed) + 1
      /\ feed'[Len(feed) + 1] = [doc |-> d, acceptance |-> b]
      /\ \A j \in DOMAIN feed : feed'[j] = feed[j]
  BY <1>1 DEF Report
<1>3. ASSUME ToldEarly(e) PROVE ToldEarly(e)'
  BY <1>2, <1>3 DEF ToldEarly
<1>4. ASSUME ToldEarly(e)' PROVE ToldEarly(e)
  <2>1. PICK i \in DOMAIN feed' :
          /\ feed'[i].doc = e /\ ~feed'[i].acceptance
          /\ \A j \in 1 .. i : feed'[j].doc = e => ~feed'[j].acceptance
    BY <1>4 DEF ToldEarly
  <2>2. i # Len(feed) + 1
    <3> SUFFICES ASSUME i = Len(feed) + 1 PROVE FALSE
      OBVIOUS
    <3>1. e = d /\ ~b
      BY <1>2, <2>1
    <3>2. PICK j \in DOMAIN feed : feed[j].doc = d /\ feed[j].acceptance
      BY <3>1
    <3> QED
      BY <1>2, <2>1, <3>1, <3>2
  <2>3. i \in DOMAIN feed /\ \A j \in 1 .. i : feed'[j] = feed[j]
    BY <1>2, <2>2
  <2>4. i \in 1 .. i
    BY <1>2
  <2>5. feed[i].doc = e /\ ~feed[i].acceptance
    BY <2>1, <2>3, <2>4
  <2>6. \A j \in 1 .. i : feed[j].doc = e => ~feed[j].acceptance
    BY <2>1, <2>3
  <2> QED
    BY <2>3, <2>5, <2>6 DEF ToldEarly
<1> QED
  BY <1>3, <1>4

LEMMA ReachedStaysReported ==
  TypeOK /\ ReachedIsReported /\ [Next]_vars => ReachedIsReported'
<1> SUFFICES ASSUME TypeOK, ReachedIsReported, [Next]_vars, NEW e \in Docs, Reached(e)'
             PROVE  \E i \in DOMAIN feed' : feed'[i].doc = e /\ feed'[i].acceptance
  BY DEF ReachedIsReported
<1>1. CASE Reached(e)
  <2>1. PICK i \in DOMAIN feed : feed[i].doc = e /\ feed[i].acceptance
    BY <1>1 DEF ReachedIsReported
  <2>2. i \in DOMAIN feed' /\ feed'[i] = feed[i]
    BY FeedGrows DEF FeedKept
  <2> QED
    BY <2>1, <2>2
<1>2. CASE ~Reached(e)
  <2>1. ReachAcceptance(e)
    BY <1>2, OperatorSteps DEF TypeOK, Reached, EarlyStage, ReachAcceptance
  <2>2. feed \in Seq(Event) /\ [doc |-> e, acceptance |-> TRUE] \in Event
    BY DEF TypeOK, Event
  <2>3. feed' = Append(feed, [doc |-> e, acceptance |-> TRUE])
    BY <2>1 DEF ReachAcceptance, Report
  <2>4. Len(feed) + 1 \in DOMAIN feed' /\ feed'[Len(feed) + 1] = [doc |-> e, acceptance |-> TRUE]
    BY <2>2, <2>3
  <2> QED
    BY <2>4
<1> QED
  BY <1>1, <1>2

LEMMA ReachedNotesAreReported == Spec => []ReachedIsReported
<1>1. Init => ReachedIsReported
  BY DEF Init, ReachedIsReported, Reached
<1> QED
  BY <1>1, ReachedStaysReported, ExchangeTyped, PTL DEF Spec

LEMMA AcceptanceStaysFirst ==
  ASSUME EarlyStages = 0
  PROVE  TypeOK /\ ReachedIsReported /\ AcceptanceComesFirst /\ [Next]_vars => AcceptanceComesFirst'
<1> SUFFICES ASSUME TypeOK, ReachedIsReported, AcceptanceComesFirst, [Next]_vars PROVE AcceptanceComesFirst'
  OBVIOUS
<1>1. CASE UNCHANGED <<stage, feed>>
  BY <1>1 DEF AcceptanceComesFirst, ToldEarly
<1>2. ASSUME NEW d \in Docs, EarlyStage(d) PROVE FALSE
  BY <1>2 DEF EarlyStage
<1>3. ASSUME NEW d \in Docs, ReachAcceptance(d) PROVE AcceptanceComesFirst'
  BY <1>3, ReportTells DEF ReachAcceptance, AcceptanceComesFirst, TypeOK
<1>4. ASSUME NEW d \in Docs, stage[d] = "acceptance", stage' = [stage EXCEPT ![d] = "after"],
             Report(d, FALSE)
      PROVE  AcceptanceComesFirst'
  <2>1. \E i \in DOMAIN feed : feed[i].doc = d /\ feed[i].acceptance
    BY <1>4 DEF ReachedIsReported, Reached
  <2> QED
    BY <1>4, <2>1, ReportTells DEF AcceptanceComesFirst, TypeOK
<1> QED
  BY <1>1, <1>2, <1>3, <1>4, OperatorSteps

\* As long as the operator tells of no stage before acceptance, every note shown
\* as closed has left its acceptance stage.
THEOREM ClosedNotesHaveLeft ==
  ASSUME EarlyStages = 0
  PROVE  Spec => []ClosedMeansLeft
<1>1. Init => AcceptanceComesFirst
  BY DEF Init, AcceptanceComesFirst, ToldEarly
<1>2. TypeOK /\ ReachedIsReported /\ AcceptanceComesFirst /\ [Next]_vars => AcceptanceComesFirst'
  BY AcceptanceStaysFirst
<1>3. ClosedMeansLeftOrTold /\ AcceptanceComesFirst => ClosedMeansLeft
  BY DEF ClosedMeansLeftOrTold, MayClose, AcceptanceComesFirst, ClosedMeansLeft
<1> QED
  BY <1>1, <1>2, <1>3, ExchangeTyped, ReachedNotesAreReported, ClosedNotesMayClose, PTL DEF Spec

-----------------------------------------------------------------------------
(* The pair passes over no event.  A round works on the saved pair, a note *)
(* once known is never unknown again, and the next pair passes only over   *)
(* events whose notes are known or still in the hands of the round.        *)

FeedParts == NothingLostBehindPair /\ PairIsCurrent /\ NextIsCovered

StatusKept == \A d \in Docs : Known(d) => Known(d)'

\* Every Save writes a status.
LEMMA PutKeepsKnown ==
  ASSUME TypeOK, NEW o \in SaveOutcome, NEW d, NEW s, NEW x, Put(o, d, s, x), s # "None"
  PROVE  StatusKept
  BY DEF Put, StatusKept, Known, TypeOK

LEMMA KnownNotesStayKnown ==
  ASSUME DecisionInv, [Next]_vars
  PROVE  StatusKept
<1>t. TypeOK /\ CallersAreBound /\ DraftIsUndecided
  BY DEF DecisionInv
<1>1. ASSUME NEW c \in Callers, CallerNext(c) PROVE StatusKept
  <2>1. UNCHANGED status \/ SaveSending(c) \/ SaveSucceeded(c) \/ SaveFailed(c)
    BY <1>1 DEF CallerNext, Enter, FindRefuses, Find, GatewayFails, SendExecute, ExecuteTimesOut,
                Cancel, dbVars
  <2>2. CASE SaveSending(c)
    BY <1>t, <2>2, PutKeepsKnown DEF SaveSending
  <2>3. CASE SaveSucceeded(c)
    <3>1. choice[c] # "None"
      BY <1>t, <2>3 DEF SaveSucceeded, CallersAreBound, Decision
    <3> QED
      BY <1>t, <2>3, <3>1, PutKeepsKnown DEF SaveSucceeded
  <2>4. CASE SaveFailed(c)
    BY <1>t, <2>4, PutKeepsKnown DEF SaveFailed
  <2> QED
    BY <2>1, <2>2, <2>3, <2>4 DEF StatusKept, Known
<1>2. CASE PollNext
  <2>1. UNCHANGED status \/ SaveReconciled \/ SaveDocument \/ SaveClosed
    BY <1>2 DEF PollNext, StartRound, StageUnknown, ReadStage, ReadPair, FetchFails, Fetch, FetchUpTo,
                SkipDocument, FindDocument, DocumentsDone, SkipClosed, FindClosed, ClosedDone,
                SavePair, dbVars
  <2>2. CASE SaveReconciled \/ SaveDocument \/ SaveClosed
    <3>1. draft.status # "None"
      BY <1>t, <2>2 DEF SaveReconciled, SaveDocument, SaveClosed, DraftIsUndecided
    <3> QED
      BY <1>t, <2>2, <3>1, PutKeepsKnown DEF SaveReconciled, SaveDocument, SaveClosed
  <2> QED
    BY <2>1, <2>2 DEF StatusKept, Known
<1>3. CASE OperatorNext \/ Restart \/ UNCHANGED vars \/ \E d \in Docs : TenMinutesPass(d)
  <2>1. UNCHANGED status
    BY <1>3 DEF OperatorNext, EarlyStage, ReachAcceptance, DecidedElsewhere, ExecuteAction, Restart,
                TenMinutesPass, vars, dbVars
  <2> QED
    BY <2>1 DEF StatusKept, Known
<1> QED
  BY <1>1, <1>2, <1>3 DEF Next

\* What is covered stays covered while the notes in coming are stored or handed on.
LEMMA CoverKept ==
  ASSUME TypeOK, FeedKept, StatusKept, Len(feed) \in Nat, Len(feed') \in Nat,
         DOMAIN feed = 1 .. Len(feed), DOMAIN feed' = 1 .. Len(feed'),
         NEW n \in Nat, n <= Len(feed), NEW coming, NEW rest, KnownBefore(n, coming),
         \A d \in coming : d \in rest \/ status'[d] # "None"
  PROVE  \A i \in DOMAIN feed' :
           i < n /\ feed'[i].acceptance => status'[feed'[i].doc] # "None" \/ feed'[i].doc \in rest
<1> SUFFICES ASSUME NEW i \in 1 .. Len(feed'), i < n, feed'[i].acceptance
             PROVE  status'[feed'[i].doc] # "None" \/ feed'[i].doc \in rest
  OBVIOUS
<1>1. i \in DOMAIN feed /\ feed'[i] = feed[i]
  BY DEF FeedKept
<1>2. feed[i] \in Event
  BY <1>1 DEF TypeOK
<1>3. feed[i].doc \in Docs
  BY <1>2 DEF Event
<1> QED
  BY <1>1, <1>3 DEF KnownBefore, StatusKept, Known

\* A step that leaves the round and the pair alone.
LEMMA QuietRoundKeepsCover ==
  ASSUME DecisionInv, FeedParts, [Next]_vars, UNCHANGED <<pair, pollVars>>
  PROVE  FeedParts'
<1>t. TypeOK /\ pair \in Nat /\ next \in Nat
  BY DEF DecisionInv, TypeOK
<1>1. FeedKept /\ StatusKept /\ Len(feed) \in Nat /\ Len(feed') \in Nat
      /\ DOMAIN feed = 1 .. Len(feed) /\ DOMAIN feed' = 1 .. Len(feed')
  BY <1>t, FeedGrows, KnownNotesStayKnown
<1>2. pair <= Len(feed) /\ PairIsCurrent'
  BY <1>t, <1>1 DEF FeedParts, PairIsCurrent, RoundKnowsPair, FeedKept, pollVars
<1>3. KnownBefore(pair, {})
  BY DEF FeedParts, NothingLostBehindPair, KnownBefore, Known
<1>4. NothingLostBehindPair'
  <2>1. PICK none : none = {}
    OBVIOUS
  <2>2. \A i \in DOMAIN feed' : i < pair /\ feed'[i].acceptance =>
          status'[feed'[i].doc] # "None" \/ feed'[i].doc \in none
    BY <1>t, <1>1, <1>2, <1>3, <2>1, CoverKept
  <2> QED
    BY <2>1, <2>2 DEF NothingLostBehindPair
<1>5. Saving' = Saving /\ next' = next /\ round' = round
  BY DEF Saving, pollVars
<1>6. PICK s : s = Saving
  OBVIOUS
<1>7. ASSUME round \in {"documents", "saveDocument"}
      PROVE  next <= Len(feed') /\ KnownBefore(next, s)'
  <2>1. next <= Len(feed) /\ KnownBefore(next, s)
    BY <1>6, <1>7 DEF FeedParts, NextIsCovered
  <2>2. \A i \in DOMAIN feed' : i < next /\ feed'[i].acceptance =>
          status'[feed'[i].doc] # "None" \/ feed'[i].doc \in s
    BY <1>t, <1>1, <2>1, CoverKept
  <2>3. next <= Len(feed')
    BY <1>t, <1>1, <2>1 DEF FeedKept
  <2> QED
    BY <1>5, <2>2, <2>3 DEF KnownBefore, Known
<1>8. ASSUME round \in {"closed", "saveClosed", "savePair"}
      PROVE  next <= Len(feed') /\ KnownBefore(next, {})'
  <2>0. PICK none : none = {}
    OBVIOUS
  <2>1. next <= Len(feed) /\ KnownBefore(next, none)
    BY <1>8, <2>0 DEF FeedParts, NextIsCovered
  <2>2. \A i \in DOMAIN feed' : i < next /\ feed'[i].acceptance =>
          status'[feed'[i].doc] # "None" \/ feed'[i].doc \in none
    BY <1>t, <1>1, <2>0, <2>1, CoverKept
  <2>3. next <= Len(feed')
    BY <1>t, <1>1, <2>1 DEF FeedKept
  <2> QED
    BY <1>5, <2>0, <2>2, <2>3 DEF KnownBefore, Known
<1> QED
  BY <1>2, <1>4, <1>5, <1>6, <1>7, <1>8 DEF FeedParts, NextIsCovered, KnownBefore

\* The next pair passes over known events, those of the page and itself excepted.
LEMMA FetchCovers ==
  ASSUME DecisionInv, FeedParts, Fetch
  PROVE  next' <= Len(feed) /\ KnownBefore(next', toSave')
<1>t. /\ pair \in Nat /\ from \in Nat /\ PageSize \in Nat \ {0} /\ feed \in Seq(Event)
      /\ Len(feed) \in Nat /\ DOMAIN feed = 1 .. Len(feed)
  BY ConstantsAssumption DEF DecisionInv, TypeOK
<1>1. PICK stop \in PageFirst .. PageLast + 1 : FetchUpTo(stop)
  BY DEF Fetch
<1>2. from <= pair /\ from <= Len(feed)
  BY <1>t, <1>1 DEF FetchUpTo, FeedParts, PairIsCurrent, RoundKnowsPair
<1>3. \A i \in DOMAIN feed : i < from /\ feed[i].acceptance => Known(feed[i].doc)
  BY <1>t, <1>2 DEF FeedParts, NothingLostBehindPair, Known
<1>4. PageFirst \in Nat /\ PageLast \in Int /\ PageLast <= Len(feed) /\ PageFirst >= 1
      /\ (PageFirst = from \/ (from = 0 /\ PageFirst = 1))
  <2>1. PageFirst \in Nat /\ PageFirst >= 1 /\ (PageFirst = from \/ (from = 0 /\ PageFirst = 1))
    <3>1. from \in Nat
      BY <1>t
    <3> QED
      BY <3>1 DEF PageFirst
  <2>2. PageLast \in Int /\ PageLast <= Len(feed)
    BY <1>t, <2>1 DEF PageLast, Smaller
  <2> QED
    BY <2>1, <2>2
<1>5. CASE next' = from
  BY <1>2, <1>3, <1>5 DEF KnownBefore
<1>6. CASE next' = Advance(stop) /\ PageFirst <= PageLast
  <2>1. next' <= stop /\ next' <= PageLast /\ next' \in Int /\ stop \in Int
    BY <1>4, <1>6 DEF Advance, Smaller
  <2>2. ASSUME NEW i \in DOMAIN feed, i < next', feed[i].acceptance
        PROVE  Known(feed[i].doc) \/ feed[i].doc \in toSave'
    <3>1. CASE i < from
      BY <1>3, <2>2, <3>1
    <3>2. CASE ~(i < from)
      <4>1. i \in PageFirst .. PageLast /\ i < stop
        BY <1>t, <1>4, <2>1, <2>2, <3>2
      <4> QED
        BY <1>1, <2>2, <4>1 DEF FetchUpTo, Processed
    <3> QED
      BY <3>1, <3>2
  <2> QED
    BY <1>t, <1>4, <2>1, <2>2 DEF KnownBefore
<1> QED
  BY <1>1, <1>4, <1>5, <1>6 DEF FetchUpTo, Advance

LEMMA PollKeepsCover ==
  ASSUME DecisionInv, FeedParts, PollNext, LetsGoOfKnown
  PROVE  FeedParts'
<1>t. /\ TypeOK /\ pair \in Nat /\ from \in Nat /\ next \in Nat /\ DraftIsUndecided
      /\ cur \in Docs \cup {NoDoc} /\ toSave \subseteq Docs
  BY DEF DecisionInv, TypeOK
<1>n. [Next]_vars
  BY DEF Next
<1>1. /\ feed' = feed /\ StatusKept /\ FeedKept /\ Len(feed) \in Nat /\ Len(feed') \in Nat
      /\ DOMAIN feed = 1 .. Len(feed) /\ DOMAIN feed' = 1 .. Len(feed')
  <2>1. feed' = feed
    BY DEF PollNext, StartRound, StageUnknown, ReadStage, SaveReconciled, ReadPair, FetchFails,
           Fetch, FetchUpTo, SkipDocument, FindDocument, SaveDocument, DocumentsDone,
           SkipClosed, FindClosed, SaveClosed, ClosedDone, SavePair, operatorVars
  <2> QED
    BY <1>t, <1>n, <2>1, FeedGrows, KnownNotesStayKnown
<1>p. pair <= Len(feed) /\ KnownBefore(pair, {})
  BY DEF FeedParts, NothingLostBehindPair, PairIsCurrent, RoundKnowsPair, KnownBefore, Known
<1>b. KnownBefore(pair, {})'  \/ pair' # pair
  <2>1. PICK none : none = {}
    OBVIOUS
  <2>2. \A i \in DOMAIN feed' : i < pair /\ feed'[i].acceptance =>
          status'[feed'[i].doc] # "None" \/ feed'[i].doc \in none
    BY <1>t, <1>1, <1>p, <2>1, CoverKept
  <2> QED
    BY <2>1, <2>2 DEF KnownBefore, Known
<1>q. UNCHANGED pair => NothingLostBehindPair' /\ pair' <= Len(feed')
  BY <1>1, <1>b, <1>p DEF KnownBefore, Known, NothingLostBehindPair
<1>2. CASE StartRound \/ SaveReconciled \/ \E d \in Docs : StageUnknown(d) \/ ReadStage(d)
  <2>1. UNCHANGED pair /\ round' \in {"reconcile", "saveReconciled"}
    BY <1>2 DEF StartRound, SaveReconciled, StageUnknown, ReadStage, Put, dbVars
  <2> QED
    BY <1>q, <2>1 DEF FeedParts, PairIsCurrent, RoundKnowsPair, NextIsCovered
<1>3. CASE ReadPair
  <2>1. UNCHANGED pair /\ round' = "fetch" /\ (from' = pair \/ (DbFaults /\ from' = 0))
    BY <1>3 DEF ReadPair, dbVars
  <2> QED
    BY <1>q, <2>1 DEF FeedParts, PairIsCurrent, RoundKnowsPair, NextIsCovered
<1>4. CASE FetchFails
  <2>1. UNCHANGED pair /\ round = "fetch" /\ round' = "savePair" /\ from' = from /\ next' = from
    BY <1>4 DEF FetchFails, dbVars
  <2>2. from = pair \/ (DbFaults /\ from = 0)
    BY <2>1 DEF FeedParts, PairIsCurrent, RoundKnowsPair
  <2>3. next' <= pair
    BY <1>t, <2>1, <2>2
  <2>4. next' <= Len(feed') /\ KnownBefore(next, {})'
    BY <1>t, <1>1, <1>b, <1>p, <2>1, <2>3 DEF KnownBefore, Known
  <2> QED
    BY <1>q, <2>1, <2>2, <2>4 DEF FeedParts, PairIsCurrent, RoundKnowsPair, NextIsCovered
<1>5. CASE Fetch
  <2>1. /\ UNCHANGED <<pair, status>> /\ round' = "documents" /\ from' = from
        /\ from = pair \/ (DbFaults /\ from = 0)
    BY <1>5 DEF Fetch, FetchUpTo, dbVars, FeedParts, PairIsCurrent, RoundKnowsPair
  <2>2. Saving' = toSave'
    BY <2>1 DEF Saving
  <2>3. next' <= Len(feed) /\ KnownBefore(next', toSave')
    BY <1>5, FetchCovers
  <2>4. next' <= Len(feed') /\ KnownBefore(next, Saving)'
    BY <1>1, <2>1, <2>2, <2>3 DEF KnownBefore, Known
  <2> QED
    BY <1>q, <2>1, <2>4 DEF FeedParts, PairIsCurrent, RoundKnowsPair, NextIsCovered
<1>6. ASSUME round \in {"documents", "saveDocument"}, round' \in {"documents", "saveDocument"},
             UNCHANGED <<pair, from, next>>
      PROVE  FeedParts'
  <2>1. /\ next <= Len(feed) /\ KnownBefore(next, Saving)
        /\ from = pair \/ (DbFaults /\ from = 0)
    BY <1>6 DEF FeedParts, NextIsCovered, PairIsCurrent, RoundKnowsPair
  <2>0. \A d \in Saving : d \in Saving' \/ status'[d] # "None"
    BY <1>6 DEF LetsGoOfKnown
  <2>2. PICK before : before = Saving
    OBVIOUS
  <2>3. PICK after : after = Saving'
    OBVIOUS
  <2>4. \A i \in DOMAIN feed' : i < next /\ feed'[i].acceptance =>
          status'[feed'[i].doc] # "None" \/ feed'[i].doc \in after
    BY <1>t, <1>1, <2>0, <2>1, <2>2, <2>3, CoverKept
  <2>5. KnownBefore(next, Saving)'
    BY <1>6, <2>3, <2>4 DEF KnownBefore, Known
  <2> QED
    BY <1>1, <1>6, <1>q, <2>1, <2>5 DEF FeedParts, PairIsCurrent, RoundKnowsPair, NextIsCovered
<1>7. CASE SaveDocument \/ \E d \in Docs : SkipDocument(d) \/ FindDocument(d)
  BY <1>6, <1>7 DEF SaveDocument, SkipDocument, FindDocument, Put, dbVars
<1>10. ASSUME round' \in {"closed", "saveClosed", "savePair"}, KnownBefore(next, {}), next <= Len(feed),
              from = pair \/ (DbFaults /\ from = 0), UNCHANGED <<pair, from, next>>
       PROVE  FeedParts'
  <2>0. PICK none : none = {}
    OBVIOUS
  <2>1. \A i \in DOMAIN feed' : i < next /\ feed'[i].acceptance =>
          status'[feed'[i].doc] # "None" \/ feed'[i].doc \in none
    BY <1>t, <1>1, <1>10, <2>0, CoverKept
  <2>2. KnownBefore(next, {})' /\ next' <= Len(feed')
    BY <1>1, <1>10, <2>0, <2>1 DEF KnownBefore, Known
  <2> QED
    BY <1>10, <1>q, <2>2 DEF FeedParts, PairIsCurrent, RoundKnowsPair, NextIsCovered
<1>11. CASE DocumentsDone
  <2>1. Saving = {} /\ round = "documents"
    BY <1>11 DEF DocumentsDone, Saving
  <2> QED
    BY <1>10, <1>11, <2>1 DEF DocumentsDone, FeedParts, NextIsCovered, PairIsCurrent, RoundKnowsPair, dbVars
<1>12. CASE SaveClosed \/ ClosedDone \/ \E d \in Docs : SkipClosed(d) \/ FindClosed(d)
  <2>1. /\ round \in {"closed", "saveClosed"} /\ round' \in {"closed", "saveClosed", "savePair"}
        /\ UNCHANGED <<pair, from, next>>
    BY <1>12 DEF SaveClosed, ClosedDone, SkipClosed, FindClosed, Put, dbVars
  <2> QED
    BY <1>10, <2>1 DEF FeedParts, NextIsCovered, PairIsCurrent, RoundKnowsPair
<1>13. CASE SavePair
  <2>1. pair' \in {next, pair} /\ UNCHANGED status /\ round' = "idle" /\ round = "savePair"
    BY <1>13 DEF SavePair
  <2>2. KnownBefore(next, {}) /\ next <= Len(feed)
    BY <2>1 DEF FeedParts, NextIsCovered
  <2>3. NothingLostBehindPair' /\ pair' <= Len(feed')
    BY <1>1, <1>q, <2>1, <2>2 DEF KnownBefore, Known, NothingLostBehindPair
  <2> QED
    BY <2>1, <2>3 DEF FeedParts, PairIsCurrent, RoundKnowsPair, NextIsCovered
<1> QED
  BY <1>2, <1>3, <1>4, <1>5, <1>7, <1>11, <1>12, <1>13 DEF PollNext

\* No other process touches the round.
LEMMA OthersLeaveTheRound ==
  ASSUME [Next]_vars, ~PollNext, ~Restart
  PROVE  UNCHANGED <<pair, pollVars>>
<1>1. ASSUME NEW c \in Callers, CallerNext(c) PROVE UNCHANGED <<pair, pollVars>>
  BY <1>1 DEF CallerNext, Enter, FindRefuses, Find, SaveSending, GatewayFails, SendExecute,
              ExecuteTimesOut, Cancel, SaveSucceeded, SaveFailed, Put, dbVars
<1>2. OperatorNext => UNCHANGED <<pair, pollVars>>
  BY DEF OperatorNext, EarlyStage, ReachAcceptance, DecidedElsewhere, ExecuteAction, dbVars
<1> QED
  BY <1>1, <1>2 DEF Next, TenMinutesPass, vars, dbVars

\* A round advances from where it started, whatever it could read of its page.
LEMMA NextStaysForward ==
  ASSUME TypeOK, NextIsForward, [Next]_vars
  PROVE  NextIsForward'
<1>t. from \in Nat /\ next \in Nat /\ feed \in Seq(Event) /\ Len(feed) \in Nat /\ PageSize \in Nat \ {0}
  BY ConstantsAssumption DEF TypeOK
<1>1. CASE Fetch
  <2>1. PICK stop \in PageFirst .. PageLast + 1 : FetchUpTo(stop)
    BY <1>1 DEF Fetch
  <2>2. PageFirst \in Nat /\ from <= PageFirst
    BY <1>t DEF PageFirst
  <2>3. PageLast \in Int
    BY <1>t, <2>2 DEF PageLast, Smaller
  <2>4. from <= Advance(stop)
    BY <1>t, <2>1, <2>2, <2>3 DEF Advance, Smaller
  <2> QED
    BY <1>t, <2>1, <2>4 DEF FetchUpTo, NextIsForward
<1>2. CASE FetchFails
  BY <1>t, <1>2 DEF FetchFails, NextIsForward
<1>3. CASE StartRound \/ SaveReconciled \/ ReadPair \/ SavePair \/ Restart \/ \E d \in Docs : StageUnknown(d) \/ ReadStage(d)
  BY <1>3 DEF StartRound, SaveReconciled, ReadPair, SavePair, Restart, StageUnknown, ReadStage, NextIsForward
<1>4. CASE SaveDocument \/ SaveClosed \/ DocumentsDone \/ ClosedDone
           \/ \E d \in Docs : SkipDocument(d) \/ FindDocument(d) \/ SkipClosed(d) \/ FindClosed(d)
  BY <1>4 DEF SaveDocument, SaveClosed, DocumentsDone, ClosedDone, SkipDocument, FindDocument,
              SkipClosed, FindClosed, NextIsForward
<1>5. CASE ~PollNext /\ ~Restart
  BY <1>5, OthersLeaveTheRound DEF pollVars, NextIsForward
<1> QED
  BY <1>1, <1>2, <1>3, <1>4, <1>5 DEF PollNext

LEMMA FeedInvInductive ==
  ASSUME FeedInv, [Next]_vars, [LetsGoOfKnown]_vars
  PROVE  FeedInv'
<1>t. DecisionInv /\ FeedParts /\ NextIsForward /\ DecisionInv' /\ TypeOK
  BY DecisionInvInductive DEF FeedInv, FeedParts, DecisionInv
<1> SUFFICES FeedParts'
  BY <1>t, NextStaysForward DEF FeedInv, FeedParts
<1>1. CASE PollNext /\ ~UNCHANGED vars
  BY <1>1, <1>t, PollKeepsCover
<1>2. CASE Restart
  <2>1. UNCHANGED <<pair, feed, status>> /\ round' = "starting"
    BY <1>2 DEF Restart, dbVars
  <2> QED
    BY <1>t, <2>1 DEF FeedParts, NothingLostBehindPair, PairIsCurrent, RoundKnowsPair, NextIsCovered
<1>3. CASE ~PollNext /\ ~Restart
  BY <1>3, <1>t, OthersLeaveTheRound, QuietRoundKeepsCover
<1>4. CASE UNCHANGED vars
  BY <1>4, <1>t, QuietRoundKeepsCover DEF vars, dbVars
<1> QED
  BY <1>1, <1>2, <1>3, <1>4

LEMMA FeedInvInit == Init => FeedInv
  BY DecisionInvInit DEF Init, FeedInv, NothingLostBehindPair, PairIsCurrent, RoundKnowsPair, NextIsForward, NextIsCovered

\* The only events the saved pair can ever pass over unseen are those of the
\* notes a round let go of before Central knew them, because it could not read
\* or store the record: not a partial page, an unparsable note, a failed read or
\* save of the pair itself, a request beside the worker or a restart.
THEOREM OnlyDroppedNotesAreLost ==
  Spec /\ KnownNotesAreLetGo => []NothingLostBehindPair
<1>1. FeedInv /\ [Next]_vars /\ [LetsGoOfKnown]_vars => FeedInv'
  BY FeedInvInductive
<1>2. FeedInv => NothingLostBehindPair
  BY DEF FeedInv
<1> QED
  BY <1>1, <1>2, FeedInvInit, PTL DEF Spec, KnownNotesAreLetGo

\* While the database answers, a round lets go of no note before it is known.
LEMMA AnsweringDbDropsNothing ==
  ASSUME ~DbFaults
  PROVE  DecisionInv /\ Next => LetsGoOfKnown
<1> SUFFICES ASSUME DecisionInv, Next, round \in {"documents", "saveDocument"}, round' # "starting", NEW d \in Saving
             PROVE  d \in Saving' \/ status'[d] # "None"
  BY DEF LetsGoOfKnown
<1>t. TypeOK /\ DraftIsUndecided
  BY DEF DecisionInv
<1>1. ASSUME NEW e \in Docs, SkipDocument(e) PROVE d \in Saving' \/ status'[d] # "None"
  BY <1>1 DEF SkipDocument, Saving, Undecided, dbVars
<1>2. ASSUME NEW e \in Docs, FindDocument(e) PROVE d \in Saving'
  BY <1>2 DEF FindDocument, Saving
<1>3. CASE SaveDocument
  <2>1. cur \in Docs /\ draft.status # "None"
    BY <1>t, <1>3 DEF SaveDocument, DraftIsUndecided
  <2>2. status'[cur] # "None"
    BY <1>t, <1>3, <2>1 DEF SaveDocument, SaveOutcome, Put, TypeOK
  <2> QED
    BY <1>3, <2>2 DEF SaveDocument, Saving
<1>4. CASE DocumentsDone
  BY <1>4 DEF DocumentsDone, Saving
<1>5. CASE ~PollNext
  <2>1. ~Restart
    BY DEF Restart
  <2> QED
    BY <1>5, <2>1, OthersLeaveTheRound DEF pollVars, Saving
<1>6. CASE StartRound \/ SaveReconciled \/ ReadPair \/ FetchFails \/ Fetch \/ SaveClosed \/ ClosedDone \/ SavePair
           \/ \E e \in Docs : StageUnknown(e) \/ ReadStage(e) \/ SkipClosed(e) \/ FindClosed(e)
  BY <1>6 DEF StartRound, SaveReconciled, ReadPair, FetchFails, Fetch, FetchUpTo, SaveClosed, ClosedDone,
              SavePair, StageUnknown, ReadStage, SkipClosed, FindClosed
<1> QED
  BY <1>1, <1>2, <1>3, <1>4, <1>5, <1>6 DEF PollNext

LEMMA FeedInvHolds ==
  ASSUME ~DbFaults
  PROVE  Spec => []FeedInv
<1>1. DecisionInv /\ [Next]_vars => [LetsGoOfKnown]_vars
  BY AnsweringDbDropsNothing
<1>2. FeedInv /\ [Next]_vars /\ [LetsGoOfKnown]_vars => FeedInv'
  BY FeedInvInductive
<1> QED
  BY <1>1, <1>2, FeedInvInit, DecisionInvHolds, PTL DEF Spec

\* While the database answers, the saved pair never passes over a note that
\* reached acceptance and is unknown to Central: for any feed, page size, notes
\* that cannot be parsed, requests beside the worker and restarts.
THEOREM PairPassesOverNothing ==
  ASSUME ~DbFaults
  PROVE  Spec => []NothingLostBehindPair
<1>1. FeedInv => NothingLostBehindPair
  BY DEF FeedInv
<1> QED
  BY <1>1, FeedInvHolds, PTL

\* A round works on the pair it has read, and its next pair is not behind it.
LEMMA RoundsKnowTheirPair == Spec => [](TypeOK /\ RoundKnowsPair /\ NextIsForward)
<1>1. Init => RoundKnowsPair /\ NextIsForward
  BY DEF Init, RoundKnowsPair, NextIsForward
<1>2. TypeOK /\ RoundKnowsPair /\ NextIsForward /\ [Next]_vars => RoundKnowsPair' /\ NextIsForward'
  <2> SUFFICES ASSUME TypeOK, RoundKnowsPair, NextIsForward, [Next]_vars PROVE RoundKnowsPair'
    BY NextStaysForward
  <2>1. CASE ReadPair \/ SavePair
    BY <2>1 DEF ReadPair, SavePair, RoundKnowsPair, dbVars
  <2>2. CASE PollNext /\ ~ReadPair /\ ~SavePair
    BY <2>2 DEF PollNext, StartRound, StageUnknown, ReadStage, SaveReconciled, FetchFails, Fetch,
       FetchUpTo, SkipDocument, FindDocument, SaveDocument, DocumentsDone, SkipClosed, FindClosed,
       SaveClosed, ClosedDone, Put, dbVars, RoundKnowsPair
  <2>3. CASE Restart
    BY <2>3 DEF Restart, RoundKnowsPair
  <2>4. CASE ~PollNext /\ ~Restart
    BY <2>4, OthersLeaveTheRound DEF pollVars, RoundKnowsPair
  <2> QED
    BY <2>1, <2>2, <2>3, <2>4
<1> QED
  BY <1>1, <1>2, ExchangeTyped, PTL DEF Spec

\* The poll position goes back only at the end of a round that could not read it:
\* with a database that fails at will, and however the page, the login, the Saves
\* and the process fail.
THEOREM OnlyUnreadPairIsLost == Spec => OnlyUnreadPairGoesBack
<1>1. TypeOK /\ RoundKnowsPair /\ NextIsForward /\ [Next]_vars
        => [pair' < pair => round = "savePair" /\ from = 0]_vars
  <2> SUFFICES ASSUME TypeOK, RoundKnowsPair, NextIsForward, [Next]_vars, pair' < pair
               PROVE  round = "savePair" /\ from = 0
    OBVIOUS
  <2>t. pair \in Nat /\ from \in Nat /\ next \in Nat
    BY DEF TypeOK
  <2>1. SavePair
    <3>1. PollNext
      <4>1. pair' # pair
        BY <2>t
      <4> QED
        BY <4>1, OthersLeaveTheRound DEF Restart, dbVars
    <3>2. pair' # pair
      BY <2>t
    <3> QED
      BY <3>1, <3>2 DEF PollNext, StartRound, StageUnknown, ReadStage, SaveReconciled, ReadPair, FetchFails,
         Fetch, FetchUpTo, SkipDocument, FindDocument, SaveDocument, DocumentsDone,
         SkipClosed, FindClosed, SaveClosed, ClosedDone, Put, dbVars
  <2>2. round = "savePair" /\ pair' \in {next, pair}
    BY <2>1 DEF SavePair
  <2>3. from <= next /\ (from = pair \/ from = 0)
    BY <2>2 DEF RoundKnowsPair, NextIsForward
  <2> QED
    BY <2>t, <2>2, <2>3
<1> QED
  BY <1>1, RoundsKnowTheirPair, PTL DEF Spec, OnlyUnreadPairGoesBack

\* So, while the database answers, the poll position never goes back at all.
THEOREM PairGoesForward ==
  ASSUME ~DbFaults
  PROVE  Spec => PairMovesForward
<1>1. TypeOK /\ TypeOK' /\ RoundKnowsPair /\ [pair' < pair => round = "savePair" /\ from = 0]_vars
        => [pair' >= pair]_vars
  BY DEF TypeOK, RoundKnowsPair
<1> QED
  BY <1>1, ExchangeTyped, RoundsKnowTheirPair, OnlyUnreadPairIsLost, PTL
  DEF OnlyUnreadPairGoesBack, PairMovesForward
=============================================================================
