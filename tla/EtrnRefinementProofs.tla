------------------------- MODULE EtrnRefinementProofs -------------------------
(***************************************************************************)
(* The exchange implements the promise that Central is never ahead of the  *)
(* operator, for any number of notes and requests.                         *)
(***************************************************************************)
EXTENDS EtrnRefinement, EtrnExchangeProofs

\* What the operator tells of a note is not touched by Central's own steps.
LEMMA CentralLeavesOperator ==
  ASSUME \/ \E c \in Callers : CallerNext(c)
         \/ PollNext
         \/ \E d \in Docs : TenMinutesPass(d)
         \/ Restart
         \/ UNCHANGED vars
  PROVE  UNCHANGED <<stage, executed, feed>>
<1>1. ASSUME NEW c \in Callers, CallerNext(c) PROVE UNCHANGED <<stage, executed, feed>>
  BY <1>1 DEF CallerNext, Enter, FindRefuses, Find, SaveSending, GatewayFails, SendExecute,
     ExecuteTimesOut, Cancel, SaveSucceeded, SaveFailed, operatorVars
<1>2. ASSUME PollNext PROVE UNCHANGED <<stage, executed, feed>>
  BY <1>2 DEF PollNext, StartRound, StageUnknown, ReadStage, SaveReconciled, ReadPair,
     FetchFails, Fetch, FetchUpTo, SkipDocument, FindDocument, SaveDocument, DocumentsDone,
     SkipClosed, FindClosed, SaveClosed, ClosedDone, SavePair, operatorVars
<1>3. QED
  BY <1>1, <1>2 DEF Restart, TenMinutesPass, vars, operatorVars

\* A step of Central changes the status of one note at most.
LEMMA CentralShowsOne ==
  ASSUME DecisionInv,
         \/ \E c \in Callers : CallerNext(c)
         \/ PollNext
         \/ \E d \in Docs : TenMinutesPass(d)
         \/ Restart
         \/ UNCHANGED vars
  PROVE  \/ UNCHANGED status
         \/ \E d \in Docs : /\ status' = [status EXCEPT ![d] = status'[d]]
                          /\ status'[d] # "None"
<1> DEFINE ShowsOne == \/ UNCHANGED status
                       \/ \E d \in Docs : /\ status' = [status EXCEPT ![d] = status'[d]]
                                        /\ status'[d] # "None"
<1>1. ASSUME NEW d \in Docs, NEW s, s # "None", NEW x, NEW o \in SaveOutcome, Put(o, d, s, x)
      PROVE  ShowsOne
  BY <1>1 DEF Put, DecisionInv, TypeOK
<1>2. ASSUME NEW c \in Callers, CallerNext(c) PROVE ShowsOne
  <2>1. CASE SaveSending(c) \/ SaveSucceeded(c) \/ SaveFailed(c)
    <3>1. target[c] \in Docs
      BY <2>1 DEF SaveSending, SaveSucceeded, SaveFailed, DecisionInv, CallersAreBound
    <3>2. \E o \in SaveOutcome, s \in Status \ {"None"} : Put(o, target[c], s, copyXml[c])
      BY <2>1 DEF SaveSending, SaveSucceeded, SaveFailed, Status, Final, Decision, DecisionInv,
         CallersAreBound
    <3>3. QED
      BY <1>1, <3>1, <3>2
  <2>2. CASE ~(SaveSending(c) \/ SaveSucceeded(c) \/ SaveFailed(c))
    BY <1>2, <2>2 DEF CallerNext, Enter, FindRefuses, Find, GatewayFails, SendExecute,
       ExecuteTimesOut, Cancel, dbVars
  <2>3. QED
    BY <2>1, <2>2
<1>3. ASSUME PollNext PROVE ShowsOne
  <2>1. CASE SaveReconciled \/ SaveDocument \/ SaveClosed
    <3>1. cur \in Docs /\ draft.status # "None"
      BY <2>1 DEF SaveReconciled, SaveDocument, SaveClosed, DecisionInv, DraftIsUndecided
    <3>2. \E o \in SaveOutcome : Put(o, cur, draft.status, draft.xml)
      BY <2>1 DEF SaveReconciled, SaveDocument, SaveClosed
    <3>3. QED
      BY <1>1, <3>1, <3>2
  <2>2. CASE ~(SaveReconciled \/ SaveDocument \/ SaveClosed)
    BY <1>3, <2>2 DEF PollNext, StartRound, StageUnknown, ReadStage, ReadPair, FetchFails,
       Fetch, FetchUpTo, SkipDocument, FindDocument, DocumentsDone, SkipClosed, FindClosed,
       ClosedDone, SavePair, dbVars
  <2>3. QED
    BY <2>1, <2>2
<1>4. QED
  BY <1>2, <1>3 DEF Restart, TenMinutesPass, vars, dbVars

\* The invariants, holding after the step, allow what it shows.
LEMMA ShownIsAllowed ==
  ASSUME DecisionInv', ClosedParts', UNCHANGED <<stage, executed, feed>>,
         NEW d \in Docs, status'[d] # "None"
  PROVE  Notes!MayShow(d, status'[d])
<1>1. AtOperator[d] = stage[d] /\ stage[d] # "before"
  BY DEF AtOperator, ClosedParts, KnownMeansReached, Reached
<1>2. status'[d] = "Closed" => stage[d] = "after" \/ ToldOf[d]
  BY DEF ClosedParts, ClosedMeansLeftOrTold, MayClose, ToldOf, ToldEarly
<1>3. status'[d] \in Decision => executed[d] = status'[d]
  BY DEF DecisionInv, DecisionsAreExecuted
<1>4. QED
  BY <1>1, <1>2, <1>3 DEF Notes!MayShow, Notes!Decision, Decision

LEMMA CentralStepRefines ==
  ASSUME DecisionInv, DecisionInv', ClosedParts',
         \/ \E c \in Callers : CallerNext(c)
         \/ PollNext
         \/ \E d \in Docs : TenMinutesPass(d)
         \/ Restart
         \/ UNCHANGED vars
  PROVE  [Notes!Next]_(Notes!vars)
<1>1. UNCHANGED <<stage, executed, feed>> /\ UNCHANGED <<AtOperator, ToldOf>>
  BY CentralLeavesOperator DEF AtOperator, Reached, ToldOf, ToldEarly
<1>2. CASE UNCHANGED status
  BY <1>1, <1>2 DEF Notes!vars
<1>3. ASSUME NEW d \in Docs, status' = [status EXCEPT ![d] = status'[d]], status'[d] # "None"
      PROVE  Notes!Next
  <2>1. Notes!MayShow(d, status'[d])
    BY <1>1, <1>3, ShownIsAllowed
  <2>2. status'[d] \in Notes!Decision \cup {"Waiting", "Sending", "Closed"}
    BY <1>3 DEF DecisionInv, TypeOK, Status, Final, Decision, Notes!Decision
  <2>3. Notes!Show(d, status'[d])
    BY <1>1, <1>3, <2>1 DEF Notes!Show
  <2>4. QED
    BY <2>2, <2>3 DEF Notes!Next
<1>4. QED
  BY <1>2, <1>3, CentralShowsOne

LEMMA OperatorStepRefines ==
  ASSUME DecisionInv, ClosedParts, ReachedIsReported, OperatorNext
  PROVE  [Notes!Next]_(Notes!vars)
<1>1. TypeOK
  BY DEF DecisionInv
<1>2. UNCHANGED status
  BY DEF OperatorNext, EarlyStage, ReachAcceptance, DecidedElsewhere, ExecuteAction, dbVars
<1>3. ASSUME NEW d \in Docs, EarlyStage(d) PROVE Notes!Next
  <2>1. AtOperator[d] = "before" /\ UNCHANGED AtOperator
    BY <1>1, <1>3 DEF EarlyStage, AtOperator, Reached, TypeOK
  <2>2. ToldEarly(d)'
    BY <1>1, <1>3, EarlyReportIsTold DEF ClosedParts
  <2>3. \A e \in Docs : e # d => (ToldEarly(e)' <=> ToldEarly(e))
    BY <1>1, <1>3, ReportTells DEF EarlyStage
  <2>4. ToldOf' = [ToldOf EXCEPT ![d] = TRUE]
    <3>1. \A e \in Docs : ToldEarly(e) \in BOOLEAN /\ ToldEarly(e)' \in BOOLEAN
      BY DEF ToldEarly
    <3>2. \A e \in Docs : ToldEarly(e)' = IF e = d THEN TRUE ELSE ToldEarly(e)
      BY <2>2, <2>3, <3>1
    <3> QED
      BY <3>2 DEF ToldOf
  <2>5. Notes!Tell(d)
    BY <1>2, <1>3, <2>1, <2>4 DEF EarlyStage, Notes!Tell
  <2> QED
    BY <2>5 DEF Notes!Next
<1>4. ASSUME NEW d \in Docs, NEW b \in BOOLEAN, Report(d, b), b \/ Reached(d)
      PROVE  UNCHANGED ToldOf
  <2>1. \A e \in Docs : ToldEarly(e)' <=> ToldEarly(e)
    BY <1>1, <1>4, ReportTells DEF ReachedIsReported
  <2> QED
    BY <2>1 DEF ToldOf, ToldEarly
<1>5. ASSUME NEW d \in Docs, ReachAcceptance(d) PROVE Notes!Next
  <2>1. AtOperator[d] = "before" /\ AtOperator' = [AtOperator EXCEPT ![d] = "acceptance"]
    BY <1>1, <1>5 DEF ReachAcceptance, AtOperator, Reached, TypeOK
  <2>2. UNCHANGED ToldOf
    BY <1>4, <1>5 DEF ReachAcceptance
  <2>3. Notes!Open(d)
    BY <1>2, <1>5, <2>1, <2>2 DEF ReachAcceptance, Notes!Open
  <2> QED
    BY <2>3 DEF Notes!Next
<1>6. ASSUME NEW d \in Docs, DecidedElsewhere(d) PROVE Notes!Next
  <2>1. /\ AtOperator[d] = "acceptance"
        /\ AtOperator' = [AtOperator EXCEPT ![d] = "after"]
    BY <1>1, <1>6 DEF DecidedElsewhere, AtOperator, Reached, TypeOK
  <2>2. UNCHANGED ToldOf
    BY <1>4, <1>6 DEF DecidedElsewhere, Reached
  <2>3. executed[d] = "None"
    BY <1>6 DEF DecidedElsewhere, DecisionInv, ExecutedMeansLeft
  <2>4. executed' = [executed EXCEPT ![d] = "None"]
    BY <1>1, <1>6, <2>3 DEF DecidedElsewhere, TypeOK
  <2>5. Notes!End(d, "None")
    BY <1>2, <2>1, <2>2, <2>4 DEF Notes!End
  <2> QED
    BY <2>5 DEF Notes!Next
<1>7. ASSUME NEW r \in wire, ExecuteAction(r) PROVE [Notes!Next]_(Notes!vars)
  <2>1. r.doc \in Docs /\ r.decision \in Decision
    BY <1>1 DEF TypeOK, Request
  <2>2. CASE stage[r.doc] = "acceptance"
    <3>1. /\ AtOperator[r.doc] = "acceptance"
          /\ AtOperator' = [AtOperator EXCEPT ![r.doc] = "after"]
          /\ executed' = [executed EXCEPT ![r.doc] = r.decision]
      BY <1>1, <1>7, <2>1, <2>2 DEF ExecuteAction, AtOperator, Reached, TypeOK
    <3>2. UNCHANGED ToldOf
      BY <1>4, <1>7, <2>1, <2>2 DEF ExecuteAction, Reached
    <3>3. Notes!End(r.doc, r.decision)
      BY <1>2, <3>1, <3>2 DEF Notes!End
    <3> QED
      BY <2>1, <3>3 DEF Notes!Next, Notes!Decision, Decision
  <2>3. CASE stage[r.doc] # "acceptance"
    BY <1>2, <1>7, <2>3 DEF ExecuteAction, AtOperator, Reached, ToldOf, ToldEarly, Notes!vars
  <2> QED
    BY <2>2, <2>3
<1> QED
  BY <1>3, <1>5, <1>6, <1>7 DEF OperatorNext

\* Every behaviour of the exchange is one of EtrnNotes, whatever stages the feed
\* reports: what Central shows of a note was true at the operator when it was
\* written or before, but for the end of an earlier stage taken for that of ours.
THEOREM ExchangeIsNeverAhead == Spec => NeverAhead
<1>1. Init => Notes!Init
  BY DEF Init, Notes!Init, AtOperator, Reached, ToldOf, ToldEarly
<1>2. DecisionInv /\ DecisionInv' /\ ClosedParts /\ ClosedParts' /\ ReachedIsReported /\ [Next]_vars
        => [Notes!Next]_(Notes!vars)
  BY CentralStepRefines, OperatorStepRefines DEF Next
<1> QED
  BY <1>1, <1>2, DecisionInvHolds, ClosedPartsHold, ReachedNotesAreReported, PTL
  DEF Spec, NeverAhead, Notes!Spec
=============================================================================
