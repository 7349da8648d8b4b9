------------------------- MODULE VetisIncomingProofs -------------------------
(***************************************************************************)
(* The types of VetisIncoming and UtilizedHasLeft, for any number of VSDs, *)
(* records and commands: no copy, page or answer takes a VSD for quenched  *)
(* before it has left «оформлен» in Mercury, which never confirms it       *)
(* again, nor for withdrawn before it is.  From it the refinement of       *)
(* VetisJournal.  Then, as long as commands save no stale copy,            *)
(* SweptStaysSwept, LoadedBehindCursor and OneRecord, and at last          *)
(* CursorMovesForward.                                                     *)
(***************************************************************************)
EXTENDS VetisRefinement, FiniteSetTheorems, TLAPS

USE VetisAssumption

\* The status of a VSD only ever leaves "CONFIRMED".
Monotone ==
  \A v \in Vsds : mercury[v].status # "CONFIRMED" => mercury'[v].status = mercury[v].status

\* A change Mercury makes keeps the type of its VSDs.
LEMMA ChangeTyped ==
  ASSUME TypeOK, NEW v \in Vsds, NEW version \in Version, Change(v, version)
  PROVE  /\ mercury' \in [Vsds -> Version]
         /\ now' \in 0 .. MaxChanges
         /\ mercury'[v].status = version.status
         /\ \A u \in Vsds \ {v} : mercury'[u] = mercury[u]
  BY DEF TypeOK, Change, Version

\* Processing an application keeps the types and leaves the VSD unquenchable.
LEMMA QuenchMonotone ==
  ASSUME TypeOK, NEW v \in Vsds, Quench(v)
  PROVE  /\ mercury' \in [Vsds -> Version]
         /\ now' \in 0 .. MaxChanges
         /\ mercury'[v].status # "CONFIRMED"
         /\ Monotone
<1>1. mercury[v] \in Version
  BY DEF TypeOK
<1>2. CASE mercury[v].status = "CONFIRMED"
  <2> DEFINE version == [mercury[v] EXCEPT !.status = "UTILIZED"]
  <2>1. version \in Version /\ version.status = "UTILIZED"
    BY <1>1 DEF Version, Status
  <2>2. Change(v, version)
    BY <1>2 DEF Quench
  <2> HIDE DEF version
  <2>3. mercury'[v].status = "UTILIZED" /\ \A u \in Vsds \ {v} : mercury'[u] = mercury[u]
    BY <2>1, <2>2, ChangeTyped
  <2>4. Monotone
    BY <1>2, <2>3 DEF Monotone
  <2> QED
    BY <2>1, <2>2, <2>3, <2>4, ChangeTyped
<1>3. CASE mercury[v].status # "CONFIRMED"
  BY <1>3 DEF Quench, Monotone, TypeOK
<1> QED
  BY <1>2, <1>3

\* What others do in Mercury keeps the types and never confirms a VSD again.
LEMMA ElsewhereMonotone ==
  ASSUME TypeOK, NEW v \in Vsds, Elsewhere(v)
  PROVE  /\ mercury' \in [Vsds -> Version]
         /\ now' \in 0 .. MaxChanges
         /\ Monotone
<1>1. mercury[v] \in Version
  BY DEF TypeOK
<1>2. CASE mercury[v].at = 0 /\ Change(v, mercury[v])
  BY <1>1, <1>2, ChangeTyped DEF Monotone
<1>3. ASSUME NEW d \in Docs, Change(v, [mercury[v] EXCEPT !.home = d])
      PROVE  /\ mercury' \in [Vsds -> Version]
             /\ now' \in 0 .. MaxChanges
             /\ Monotone
  <2>1. [mercury[v] EXCEPT !.home = d] \in Version /\ [mercury[v] EXCEPT !.home = d].status = mercury[v].status
    BY <1>1 DEF Version
  <2> QED
    BY <2>1, <1>3, ChangeTyped DEF Monotone
<1>4. ASSUME mercury[v].status = "CONFIRMED", NEW s \in {"UTILIZED", "WITHDRAWN"},
             Change(v, [mercury[v] EXCEPT !.status = s])
      PROVE  /\ mercury' \in [Vsds -> Version]
             /\ now' \in 0 .. MaxChanges
             /\ Monotone
  <2>1. [mercury[v] EXCEPT !.status = s] \in Version /\ [mercury[v] EXCEPT !.status = s].status # "CONFIRMED"
    BY <1>1 DEF Version, Status
  <2> QED
    BY <2>1, <1>4, ChangeTyped DEF Monotone
<1> QED
  BY <1>2, <1>3, <1>4 DEF Elsewhere

-----------------------------------------------------------------------------
(* Types                                                                   *)

LEMMA ContentTyped ==
  ASSUME TypeOK
  PROVE  /\ Empty \in Content
         /\ Merged \in Content
         /\ \A content \in Content, gone \in SUBSET Vsds : Drop(content, gone) \in Content
         /\ \A d \in Docs, content \in Content :
              [db EXCEPT ![d] = content] \in [Docs -> Content]
<1>1. \A content \in Content, gone \in SUBSET Vsds : Drop(content, gone) \in Content
  BY DEF Drop, Content
<1>2. Merge(copy, Own) \in Content
  BY DEF TypeOK, Merge, Own, OnPage, Content, Version
<1>3. OnPage \ Own \subseteq Vsds
  BY DEF OnPage
<1> QED
  BY <1>1, <1>2, <1>3 DEF Merged, Empty, Content, TypeOK

\* A halted worker's variables have their types.
HaltTypes ==
  /\ last \in BOOLEAN
  /\ step = "idle"
  /\ until \in 0 .. MaxChanges /\ latest \in 0 .. MaxChanges
  /\ offset \in Nat
  /\ page \in [Vsds -> Version \cup {NoVsd}]
  /\ todo \subseteq Docs /\ kept \subseteq Docs /\ uuids \subseteq Vsds
  /\ target \in Docs \cup {NoDoc}
  /\ copy \in Content

LEMMA HaltTyped ==
  ASSUME Halt
  PROVE  HaltTypes'
<1>1. Unlisted \in [Vsds -> Version \cup {NoVsd}]
  BY DEF Unlisted
<1>2. Empty \in Content
  BY DEF Empty, Content
<1>3. (page \in [Vsds -> Version \cup {NoVsd}])' /\ (copy \in Content)'
  BY <1>1, <1>2 DEF Halt
<1>4. (last \in BOOLEAN)' /\ (step = "idle")'
  BY Zenon DEF Halt
<1>5. (offset \in Nat /\ until \in 0 .. MaxChanges /\ latest \in 0 .. MaxChanges)'
  BY SMT DEF Halt
<1>6. (todo \subseteq Docs /\ kept \subseteq Docs /\ uuids \subseteq Vsds /\ target \in Docs \cup {NoDoc})'
  BY DEF Halt
<1> QED
  BY <1>3, <1>4, <1>5, <1>6 DEF HaltTypes

LEMMA SweepTyped ==
  ASSUME TypeOK, step = "sweepSave" => target \in Docs, Sweep \/ WorkerFails
  PROVE  TypeOK'
<1> USE DEF TypeOK, outside, paging, visiting, command
<1>1. CASE SweepList
  BY <1>1 DEF SweepList
<1>2. ASSUME NEW d \in Docs, SweepFind(d) PROVE TypeOK'
  BY <1>2 DEF SweepFind
<1>3. CASE SweepSave
  <2>1. Drop(copy, Foreign) \in Content
    BY ContentTyped
  <2>2. db' \in [Docs -> Content]
    BY <1>3, <2>1, ContentTyped DEF SweepSave, StoredButFails, Put
  <2> QED
    <3>1. CASE StoredButFails(target, Drop(copy, Foreign))
      BY <3>1, <2>2, HaltTyped DEF StoredButFails, HaltTypes
    <3> QED
      BY <1>3, <2>2, <3>1, ContentTyped DEF SweepSave, Visit
<1>4. CASE SweepDone
  BY <1>4 DEF SweepDone
<1>5. CASE WorkerFails
  BY <1>5, HaltTyped DEF WorkerFails, HaltTypes
<1> QED
  BY <1>1, <1>2, <1>3, <1>4, <1>5 DEF Sweep

LEMMA LoadTyped ==
  ASSUME TypeOK, step \in {"save", "drop"} => target \in Docs, Load
  PROVE  TypeOK'
<1> USE DEF TypeOK, outside, paging, visiting, command
<1>1. CASE StartRound
  BY <1>1 DEF StartRound
<1>2. CASE ReadPage
  <2>1. page' \in [Vsds -> Version \cup {NoVsd}]
    BY <1>2 DEF ReadPage, Shown, Listed
  <2>2. todo' \subseteq Docs
    BY <1>2 DEF ReadPage, Shown, Listed, Version
  <2> QED
    BY <1>2, <2>1, <2>2 DEF ReadPage
<1>3. ASSUME NEW d \in Docs, FindTarget(d) PROVE TypeOK'
  BY <1>3 DEF FindTarget
<1>4. ASSUME NEW d \in Docs, FindOther(d) PROVE TypeOK'
  BY <1>4 DEF FindOther
<1>5. CASE SaveTarget
  <2>1. db' \in [Docs -> Content]
    BY <1>5, ContentTyped DEF SaveTarget, StoredButFails, Put
  <2>2. Members(Merged) \subseteq Vsds
    BY DEF Members
  <2> QED
    <3>1. CASE StoredButFails(target, Merged)
      BY <3>1, <2>1, HaltTyped DEF StoredButFails, HaltTypes
    <3> QED
      BY <1>5, <2>1, <2>2, <3>1, ContentTyped DEF SaveTarget, Visit
<1>6. CASE ListIds
  BY <1>6 DEF ListIds
<1>7. CASE DropFromOther
  <2>1. Drop(copy, uuids) \in Content
    BY ContentTyped
  <2>2. db' \in [Docs -> Content]
    BY <1>7, <2>1, ContentTyped DEF DropFromOther, StoredButFails, Put
  <2> QED
    <3>1. CASE StoredButFails(target, Drop(copy, uuids))
      BY <3>1, <2>2, HaltTyped DEF StoredButFails, HaltTypes
    <3> QED
      BY <1>7, <2>2, <3>1, ContentTyped DEF DropFromOther, Visit
<1>8. CASE Released
  BY <1>8 DEF Released
<1>9. CASE TurnPage
  <2>1. latest' \in 0 .. MaxChanges
    BY <1>9 DEF TurnPage, OnPage, Version
  <2>2. offset' \in Nat
    BY <1>9 DEF TurnPage
  <2> QED
    BY <1>9, <2>1, <2>2 DEF TurnPage, Unlisted
<1>10. CASE ShiftCursor
  BY <1>10, HaltTyped DEF ShiftCursor, NextFrom, HaltTypes
<1> QED
  BY <1>1, <1>2, <1>3, <1>4, <1>5, <1>6, <1>7, <1>8, <1>9, <1>10 DEF Load

LEMMA CommandTyped ==
  ASSUME TypeOK, AnswersHaveLeft, NEW q \in Quenchers, CommandNext(q)
  PROVE  TypeOK'
<1> USE DEF TypeOK, outside, paging, visiting, worker, Set, TakeUp, Copy, Note
<1>1. ASSUME NEW d \in Docs, NEW only \in SUBSET Vsds, Enter(q, d, only) PROVE TypeOK'
  BY <1>1 DEF Enter
<1>2. ASSUME NEW v \in Vsds, NotSent(q, v) PROVE TypeOK'
  BY <1>2 DEF NotSent
<1>3. ASSUME NEW v \in Vsds, Submit(q, v) PROVE TypeOK'
  BY <1>3 DEF Submit
<1>4. CASE Process(q)
  <2>1. vsd[q] \in Vsds
    BY <1>4 DEF AnswersHaveLeft, Process
  <2>2. mercury' \in [Vsds -> Version] /\ now' \in 0 .. MaxChanges
    BY <1>4, <2>1, QuenchMonotone DEF Process
  <2> QED
    BY <1>4, <2>2 DEF Process
<1>5. CASE Unanswered(q)
  <2>1. vsd[q] \in Vsds
    BY <1>5 DEF AnswersHaveLeft, Unanswered
  <2> QED
    BY <1>5, <2>1 DEF Unanswered
<1>6. CASE CancelCommand(q)
  <2>1. late' \subseteq Vsds
    BY <1>6 DEF AnswersHaveLeft, CancelCommand
  <2> QED
    BY <1>6, <2>1, ContentTyped DEF CancelCommand, Exit
<1>7. CASE StoreMissing(q)
  BY <1>7 DEF StoreMissing
<1>8. CASE StoreFind(q)
  <2>1. db[doc[q]] \in Content
    BY <1>8 DEF StoreFind, AnswersHaveLeft
  <2> QED
    BY <1>8, <2>1 DEF StoreFind
<1>9. CASE StoreSave(q)
  <2>1. [mine[q] EXCEPT ![vsd[q]] = "UTILIZED"] \in Content
    BY DEF Content, Status
  <2>2. db' \in [Docs -> Content]
    BY <1>9, <2>1, ContentTyped DEF StoreSave, Put, AnswersHaveLeft
  <2> QED
    <3>1. CASE Exit(q)
      BY <1>9, <2>2, <3>1, ContentTyped DEF StoreSave, Exit
    <3> QED
      BY <1>9, <2>2, <3>1, ContentTyped DEF StoreSave
<1>10. CASE StoreFails(q)
  BY <1>10, ContentTyped DEF StoreFails, Exit
<1>11. CASE RememberErrors(q)
  <2>1. db[doc[q]] \in Content
    BY <1>11 DEF RememberErrors, AnswersHaveLeft
  <2> QED
    BY <1>11, <2>1 DEF RememberErrors
<1>12. CASE SaveErrors(q)
  <2>1. db' \in [Docs -> Content]
    BY <1>12, ContentTyped DEF SaveErrors, Put, AnswersHaveLeft
  <2> QED
    BY <1>12, <2>1, ContentTyped DEF SaveErrors, Exit
<1>13. CASE Report(q)
  BY <1>13, ContentTyped DEF Report, Exit
<1> QED
  BY <1>1, <1>2, <1>3, <1>4, <1>5, <1>6, <1>7, <1>8, <1>9, <1>10, <1>11, <1>12, <1>13 DEF CommandNext

LEMMA OutsideTyped ==
  ASSUME TypeOK, AnswersHaveLeft, (\E v \in Vsds : Elsewhere(v) \/ ProcessLate(v)) \/ Restart
  PROVE  TypeOK'
<1> USE DEF TypeOK, paging, visiting, worker, command
<1>1. ASSUME NEW v \in Vsds, Elsewhere(v) PROVE TypeOK'
  BY <1>1, ElsewhereMonotone DEF Elsewhere
<1>2. ASSUME NEW v \in Vsds, ProcessLate(v) PROVE TypeOK'
  BY <1>2, QuenchMonotone DEF ProcessLate
<1>3. CASE Restart
  <2>1. late' \subseteq Vsds
    BY <1>3 DEF Restart, AnswersHaveLeft
  <2> QED
    BY <1>3, <2>1, HaltTyped, ContentTyped DEF Restart, HaltTypes
<1> QED
  BY <1>1, <1>2, <1>3

-----------------------------------------------------------------------------
(* Every copy is honest                                                    *)

TargetKnown == step \in {"sweepSave", "save", "drop"} => target \in Docs
MineHonest == \A q \in Quenchers : Honest(mine[q])
WorkerHonest == TargetKnown /\ Honest(copy) /\ PageIsHonest

\* Leaving VSDs out of a copy adds nothing it could be wrong about.
LEMMA DropHonest ==
  ASSUME NEW content \in Content, NEW gone \in SUBSET Vsds, Honest(content)
  PROVE  Honest(Drop(content, gone))
  BY DEF Honest, Drop, Content

\* What the page says of a VSD is as honest as the page.
LEMMA MergedHonest ==
  ASSUME TypeOK, Honest(copy), PageIsHonest
  PROVE  Honest(Merged)
<1>1. Merge(copy, Own) \in Content /\ OnPage \ Own \subseteq Vsds
  BY DEF TypeOK, Merge, Own, OnPage, Content, Version
<1>2. Honest(Merge(copy, Own))
  BY DEF Honest, Merge, Own, PageIsHonest, OnPage
<1> QED
  BY <1>1, <1>2, DropHonest DEF Merged

\* Saving an honest copy keeps the journal honest.
LEMMA PutHonest ==
  ASSUME TypeOK, RecordsAreHonest, NEW d, NEW content \in Content, Honest(content),
         Put(d, content), UNCHANGED mercury
  PROVE  RecordsAreHonest'
  BY DEF RecordsAreHonest, Honest, Put, TypeOK

\* A worker that stops holds no copy.
LEMMA HaltHonest ==
  ASSUME Halt
  PROVE  WorkerHonest'
<1>1. \A v \in Vsds : copy'[v] = "none" /\ page'[v] = NoVsd
  BY DEF Halt, Empty, Unlisted
<1> QED
  BY <1>1 DEF WorkerHonest, TargetKnown, Honest, PageIsHonest, OnPage, Halt

\* Mercury's changes spoil no copy: a VSD that cannot be quenched stays so.
LEMMA MonotoneHonest ==
  ASSUME VetisInv, Monotone, UNCHANGED <<db, worker>>
  PROVE  RecordsAreHonest' /\ WorkerHonest'
<1>1. RecordsAreHonest'
  BY DEF VetisInv, Monotone, RecordsAreHonest, Honest
<1>2. Honest(copy)' /\ PageIsHonest'
  BY DEF VetisInv, Monotone, Honest, PageIsHonest, OnPage, worker, visiting, paging
<1> QED
  BY <1>1, <1>2 DEF VetisInv, WorkerHonest, TargetKnown, worker, visiting

LEMMA MonotoneCommands ==
  ASSUME VetisInv, Monotone, UNCHANGED command
  PROVE  MineHonest' /\ AnswersHaveLeft'
  BY DEF VetisInv, Monotone, MineHonest, Honest, AnswersHaveLeft, command

LEMMA CommandsKept ==
  ASSUME VetisInv, UNCHANGED <<mercury, command>>
  PROVE  MineHonest' /\ AnswersHaveLeft'
  BY MonotoneCommands DEF Monotone, VetisInv

LEMMA SweepHonest ==
  ASSUME VetisInv, Sweep \/ WorkerFails
  PROVE  RecordsAreHonest' /\ WorkerHonest'
<1> USE DEF outside, visiting, paging, worker
<1>1. CASE SweepList
  BY <1>1 DEF SweepList, VetisInv, RecordsAreHonest, WorkerHonest, TargetKnown, Honest, PageIsHonest, OnPage
<1>2. ASSUME NEW d \in Docs, SweepFind(d) PROVE RecordsAreHonest' /\ WorkerHonest'
  <2>1. RecordsAreHonest' /\ PageIsHonest'
    BY <1>2 DEF SweepFind, VetisInv, RecordsAreHonest, Honest, PageIsHonest, OnPage
  <2>2. Honest(copy)' /\ TargetKnown'
    BY <1>2 DEF SweepFind, VetisInv, RecordsAreHonest, Honest, TargetKnown
  <2> QED
    BY <2>1, <2>2 DEF WorkerHonest
<1>3. CASE SweepSave
  <2>1. Drop(copy, Foreign) \in Content /\ Honest(Drop(copy, Foreign))
    BY ContentTyped, DropHonest DEF VetisInv, TypeOK
  <2>2. RecordsAreHonest'
    BY <1>3, <2>1, PutHonest DEF SweepSave, StoredButFails, VetisInv
  <2>3. CASE StoredButFails(target, Drop(copy, Foreign))
    BY <2>2, <2>3, HaltHonest DEF StoredButFails
  <2>4. CASE Visit("sweep") /\ UNCHANGED <<outside, paging>>
    BY <2>2, <2>4 DEF Visit, VetisInv, WorkerHonest, TargetKnown, Honest, Empty, PageIsHonest, OnPage
  <2> QED
    BY <1>3, <2>3, <2>4 DEF SweepSave
<1>4. CASE SweepDone
  BY <1>4 DEF SweepDone, VetisInv, RecordsAreHonest, WorkerHonest, TargetKnown, Honest, PageIsHonest, OnPage
<1>5. CASE WorkerFails
  <2>1. RecordsAreHonest'
    BY <1>5 DEF WorkerFails, VetisInv, RecordsAreHonest, Honest
  <2> QED
    BY <1>5, <2>1, HaltHonest DEF WorkerFails
<1> QED
  BY <1>1, <1>2, <1>3, <1>4, <1>5 DEF Sweep

LEMMA LoadHonest ==
  ASSUME VetisInv, Load
  PROVE  RecordsAreHonest' /\ WorkerHonest'
<1> USE DEF outside, visiting, paging
<1>1. CASE StartRound \/ ListIds \/ Released
  BY <1>1 DEF StartRound, ListIds, Released, VetisInv, RecordsAreHonest, WorkerHonest, TargetKnown,
              Honest, PageIsHonest, OnPage
<1>2. CASE ReadPage
  <2>1. \A v \in OnPage' : page'[v].status = mercury[v].status
    BY <1>2 DEF ReadPage, OnPage
  <2> QED
    BY <1>2, <2>1 DEF ReadPage, VetisInv, RecordsAreHonest, WorkerHonest, TargetKnown, Honest, PageIsHonest
<1>3. ASSUME NEW d \in Docs, FindTarget(d) \/ FindOther(d) PROVE RecordsAreHonest' /\ WorkerHonest'
  <2>1. RecordsAreHonest' /\ PageIsHonest'
    BY <1>3 DEF FindTarget, FindOther, VetisInv, RecordsAreHonest, Honest, PageIsHonest, OnPage
  <2>2. Honest(copy)' /\ TargetKnown'
    BY <1>3 DEF FindTarget, FindOther, VetisInv, RecordsAreHonest, Honest, TargetKnown
  <2> QED
    BY <2>1, <2>2 DEF WorkerHonest
<1>4. CASE SaveTarget
  <2>1. Merged \in Content /\ Honest(Merged)
    BY ContentTyped, MergedHonest DEF VetisInv
  <2>2. RecordsAreHonest'
    BY <1>4, <2>1, PutHonest DEF SaveTarget, StoredButFails, VetisInv
  <2>3. CASE StoredButFails(target, Merged)
    BY <2>2, <2>3, HaltHonest DEF StoredButFails
  <2>4. CASE Visit(IF todo = {target} THEN "ids" ELSE "group") /\ UNCHANGED <<outside, paging>>
    BY <2>2, <2>4 DEF Visit, VetisInv, WorkerHonest, TargetKnown, Honest, Empty, PageIsHonest, OnPage
  <2> QED
    BY <1>4, <2>3, <2>4 DEF SaveTarget
<1>5. CASE DropFromOther
  <2>1. Drop(copy, uuids) \in Content /\ Honest(Drop(copy, uuids))
    BY ContentTyped, DropHonest DEF VetisInv, TypeOK
  <2>2. RecordsAreHonest'
    BY <1>5, <2>1, PutHonest DEF DropFromOther, StoredButFails, VetisInv
  <2>3. CASE StoredButFails(target, Drop(copy, uuids))
    BY <2>2, <2>3, HaltHonest DEF StoredButFails
  <2>4. CASE Visit("release") /\ UNCHANGED <<outside, paging>>
    BY <2>2, <2>4 DEF Visit, VetisInv, WorkerHonest, TargetKnown, Honest, Empty, PageIsHonest, OnPage
  <2> QED
    BY <1>5, <2>3, <2>4 DEF DropFromOther
<1>6. CASE TurnPage
  <2>1. OnPage' = {}
    BY <1>6 DEF TurnPage, OnPage, Unlisted
  <2> QED
    BY <1>6, <2>1 DEF TurnPage, VetisInv, RecordsAreHonest, WorkerHonest, TargetKnown, Honest, PageIsHonest
<1>7. CASE ShiftCursor
  <2>1. RecordsAreHonest'
    BY <1>7 DEF ShiftCursor, VetisInv, RecordsAreHonest, Honest
  <2> QED
    BY <1>7, <2>1, HaltHonest DEF ShiftCursor
<1> QED
  BY <1>1, <1>2, <1>3, <1>4, <1>5, <1>6, <1>7 DEF Load

\* A command that holds nothing is honest.
LEMMA ExitHonest ==
  ASSUME VetisInv, NEW q \in Quenchers, Exit(q), UNCHANGED mercury
  PROVE  MineHonest' /\ AnswersHaveLeft'
  BY DEF VetisInv, TypeOK, Exit, Set, TakeUp, Copy, Empty, MineHonest, Honest, AnswersHaveLeft

\* A step of a command that only moves that command's own state.
LEMMA QuietHonest ==
  ASSUME VetisInv, UNCHANGED <<mercury, db, worker>>
  PROVE  RecordsAreHonest' /\ WorkerHonest'
  BY MonotoneHonest DEF Monotone, VetisInv

LEMMA CommandHonest ==
  ASSUME VetisInv, NEW q \in Quenchers, CommandNext(q)
  PROVE  RecordsAreHonest' /\ WorkerHonest' /\ MineHonest' /\ AnswersHaveLeft'
<1> DEFINE Goal == RecordsAreHonest' /\ WorkerHonest' /\ MineHonest' /\ AnswersHaveLeft'
<1> USE DEF outside, Set, TakeUp, Copy, Note
<1>t. TypeOK /\ AnswersHaveLeft /\ MineHonest
  BY DEF VetisInv, MineHonest
<1>1. ASSUME NEW d \in Docs, NEW only \in SUBSET Vsds, Enter(q, d, only) PROVE Goal
  <2>1. MineHonest' /\ AnswersHaveLeft'
    BY <1>1, <1>t DEF Enter, TypeOK, MineHonest, Honest, AnswersHaveLeft
  <2> QED
    BY <1>1, <2>1, QuietHonest DEF Enter
<1>2. ASSUME NEW v \in Vsds, NotSent(q, v) \/ Submit(q, v) PROVE Goal
  <2>1. MineHonest' /\ AnswersHaveLeft'
    BY <1>2, <1>t DEF NotSent, Submit, TypeOK, MineHonest, Honest, AnswersHaveLeft
  <2> QED
    BY <1>2, <2>1, QuietHonest DEF NotSent, Submit
<1>3. CASE Process(q)
  <2>1. vsd[q] \in Vsds
    BY <1>3, <1>t DEF AnswersHaveLeft, Process
  <2>2. Monotone /\ mercury'[vsd[q]].status # "CONFIRMED"
    BY <1>3, <1>t, <2>1, QuenchMonotone DEF Process
  <2>3. MineHonest' /\ AnswersHaveLeft'
    BY <1>3, <1>t, <2>2 DEF Process, Monotone, TypeOK, MineHonest, Honest, AnswersHaveLeft
  <2> QED
    BY <1>3, <2>2, <2>3, MonotoneHonest DEF Process
<1>4. CASE Unanswered(q) \/ StoreMissing(q)
  <2>1. MineHonest' /\ AnswersHaveLeft'
    BY <1>4, <1>t DEF Unanswered, StoreMissing, TypeOK, MineHonest, Honest, AnswersHaveLeft
  <2> QED
    BY <1>4, <2>1, QuietHonest DEF Unanswered, StoreMissing
<1>5. CASE CancelCommand(q) \/ StoreFails(q) \/ Report(q)
  <2>1. Exit(q) /\ UNCHANGED <<mercury, db, worker>>
    BY <1>5 DEF CancelCommand, StoreFails, Report
  <2> QED
    BY <2>1, ExitHonest, QuietHonest
<1>6. CASE StoreFind(q) \/ RememberErrors(q)
  <2>1. Honest(db[doc[q]])
    BY <1>6, <1>t DEF StoreFind, RememberErrors, AnswersHaveLeft, VetisInv, RecordsAreHonest, Honest
  <2>2. MineHonest' /\ AnswersHaveLeft'
    BY <1>6, <1>t, <2>1 DEF StoreFind, RememberErrors, TypeOK, MineHonest, Honest, AnswersHaveLeft
  <2> QED
    BY <1>6, <2>2, QuietHonest DEF StoreFind, RememberErrors
<1>7. CASE StoreSave(q) \/ SaveErrors(q)
  <2> DEFINE stored == IF stage[q] = "storing" THEN [mine[q] EXCEPT ![vsd[q]] = "UTILIZED"] ELSE mine[q]
  <2>1. mine[q] \in Content /\ Honest(mine[q])
    BY <1>t DEF TypeOK, MineHonest
  <2>2. stored \in Content /\ Honest(stored)
    BY <1>t, <2>1 DEF Content, Status, Honest, AnswersHaveLeft
  <2>3. Put(doc[q], stored) /\ UNCHANGED <<mercury, worker>>
    BY <1>7 DEF StoreSave, SaveErrors
  <2> HIDE DEF stored
  <2>4. RecordsAreHonest'
    BY <1>t, <2>2, <2>3, PutHonest DEF VetisInv
  <2>5. WorkerHonest'
    BY <2>3 DEF VetisInv, worker, visiting, paging, WorkerHonest, TargetKnown, Honest, PageIsHonest, OnPage
  <2>6. MineHonest' /\ AnswersHaveLeft'
    <3>1. CASE Exit(q)
      BY <2>3, <3>1, ExitHonest
    <3>2. CASE StoreSave(q) /\ ~Exit(q)
      BY <3>2, <1>t DEF StoreSave, TypeOK, MineHonest, Honest, Empty, AnswersHaveLeft
    <3> QED
      BY <1>7, <3>1, <3>2 DEF SaveErrors
  <2> QED
    BY <2>4, <2>5, <2>6
<1> QED
  BY <1>1, <1>2, <1>3, <1>4, <1>5, <1>6, <1>7 DEF CommandNext

-----------------------------------------------------------------------------
(* The theorems                                                            *)

LEMMA InitEstablishes == Init => VetisInv
<1> SUFFICES ASSUME Init PROVE VetisInv
  OBVIOUS
<1>1. mercury \in [Vsds -> Version] /\ db \in [Docs -> Content]
  BY DEF Init, Version, Content, Status
<1>2. page \in [Vsds -> Version \cup {NoVsd}] /\ Empty \in Content
  BY DEF Init, Unlisted, Empty, Content
<1>3. TypeOK
  <2>1. swept \in BOOLEAN /\ last \in BOOLEAN /\ failed \in [Quenchers -> BOOLEAN]
    BY DEF Init
  <2>2. now = 0 /\ cursor = 0 /\ until = 0 /\ latest = 0 /\ offset = 0 /\ step = "idle"
    BY DEF Init
  <2>3. /\ stage \in [Quenchers -> {"idle"}] /\ doc \in [Quenchers -> {NoDoc}]
        /\ left \in [Quenchers -> SUBSET Vsds] /\ vsd \in [Quenchers -> {NoVsd}]
        /\ mine \in [Quenchers -> Content]
    BY <1>2 DEF Init
  <2> QED
    BY <1>1, <1>2, <2>1, <2>2, <2>3 DEF Init, TypeOK
<1>4. RecordsAreHonest /\ Honest(copy) /\ \A q \in Quenchers : Honest(mine[q])
  BY DEF Init, RecordsAreHonest, Honest, Empty
<1>5. PageIsHonest /\ AnswersHaveLeft
  BY DEF Init, PageIsHonest, OnPage, Unlisted, AnswersHaveLeft
<1> QED
  BY <1>3, <1>4, <1>5 DEF Init, VetisInv

LEMMA StepPreserves == VetisInv /\ [Next]_vars => VetisInv'
<1> SUFFICES ASSUME VetisInv, [Next]_vars PROVE VetisInv'
  OBVIOUS
<1> DEFINE Rest == RecordsAreHonest' /\ WorkerHonest' /\ MineHonest' /\ AnswersHaveLeft'
<1> SUFFICES TypeOK' /\ Rest
  BY DEF VetisInv, WorkerHonest, TargetKnown, MineHonest
<1>t. TypeOK /\ AnswersHaveLeft /\ (step \in {"sweepSave", "save", "drop"} => target \in Docs)
  BY DEF VetisInv
<1>1. ASSUME NEW v \in Vsds, Elsewhere(v) PROVE TypeOK' /\ Rest
  BY <1>1, <1>t, OutsideTyped, ElsewhereMonotone, MonotoneHonest, MonotoneCommands DEF Elsewhere
<1>2. ASSUME NEW v \in Vsds, ProcessLate(v) PROVE TypeOK' /\ Rest
  BY <1>2, <1>t, OutsideTyped, QuenchMonotone, MonotoneHonest, MonotoneCommands DEF ProcessLate
<1>3. CASE Sweep \/ WorkerFails
  <2>1. UNCHANGED <<mercury, command>>
    BY <1>3 DEF Sweep, SweepList, SweepFind, SweepSave, StoredButFails, SweepDone, WorkerFails, outside
  <2> QED
    BY <1>3, <1>t, <2>1, SweepTyped, SweepHonest, CommandsKept
<1>4. CASE Load
  <2>1. UNCHANGED <<mercury, command>>
    BY <1>4 DEF Load, StartRound, ReadPage, FindTarget, FindOther, SaveTarget, StoredButFails, ListIds,
                DropFromOther, Released, TurnPage, ShiftCursor, outside
  <2> QED
    BY <1>4, <1>t, <2>1, LoadTyped, LoadHonest, CommandsKept
<1>5. ASSUME NEW q \in Quenchers, CommandNext(q) PROVE TypeOK' /\ Rest
  BY <1>5, <1>t, CommandTyped, CommandHonest
<1>6. CASE Restart
  <2>1. RecordsAreHonest'
    BY <1>6 DEF Restart, VetisInv, RecordsAreHonest, Honest
  <2>2. MineHonest' /\ AnswersHaveLeft'
    BY <1>6 DEF Restart, MineHonest, Honest, Empty, AnswersHaveLeft
  <2> QED
    BY <1>6, <1>t, <2>1, <2>2, OutsideTyped, HaltHonest DEF Restart
<1>7. CASE UNCHANGED vars
  <2>1. TypeOK'
    BY <1>7, <1>t DEF TypeOK, vars, outside, worker, paging, visiting, command
  <2>2. UNCHANGED <<mercury, db, worker>> /\ UNCHANGED command
    BY <1>7 DEF vars, outside
  <2> QED
    BY <2>1, <2>2, QuietHonest, CommandsKept
<1> QED
  BY <1>1, <1>2, <1>3, <1>4, <1>5, <1>6, <1>7 DEF Next

\* The inductive invariant holds in every state.
THEOREM CopiesAreHonest == Spec => []VetisInv
  BY InitEstablishes, StepPreserves, PTL DEF Spec

\* Every variable keeps its type.
THEOREM IncomingTyped == Spec => []TypeOK
<1>1. VetisInv => TypeOK
  BY DEF VetisInv
<1> QED
  BY <1>1, CopiesAreHonest, PTL

\* The journal never shows as quenched what Mercury could still quench,
\* whatever page, copy or answer is stale, late or lost.
THEOREM JournalIsHonest == Spec => []UtilizedHasLeft
<1>1. VetisInv => UtilizedHasLeft
  BY DEF VetisInv, RecordsAreHonest, Honest, UtilizedHasLeft
<1> QED
  BY <1>1, CopiesAreHonest, PTL

-----------------------------------------------------------------------------
(* The journal implements the promise of VetisJournal                      *)

\* A change Mercury makes of a confirmed VSD is its leaving, or no change of
\* its state.
LEMMA ChangeRefines ==
  ASSUME TypeOK, NEW v \in Vsds, NEW version \in Version, Change(v, version), UNCHANGED db,
         mercury[v].status \in {"CONFIRMED", version.status}
  PROVE  [Journal!Next]_(Journal!vars)
<1>1. mercury' \in [Vsds -> Version] /\ mercury'[v].status = version.status
  BY ChangeTyped
<1>2. \A u \in Vsds \ {v} : mercury'[u] = mercury[u]
  BY ChangeTyped
<1>3. InMercury' = [InMercury EXCEPT ![v] = version.status]
  BY <1>1, <1>2 DEF InMercury
<1>4. CASE version.status = mercury[v].status
  BY <1>1, <1>2, <1>4 DEF InMercury, Journal!vars
<1>5. CASE version.status # mercury[v].status
  <2>1. InMercury[v] = "CONFIRMED" /\ version.status \in Journal!Left
    BY <1>5 DEF InMercury, Version, Status, Journal!Left
  <2>2. Journal!Leave(v, version.status)
    BY <1>3, <2>1 DEF Journal!Leave
  <2> QED
    BY <2>1, <2>2 DEF Journal!Next
<1> QED
  BY <1>4, <1>5

\* An application that is processed, or refused, is a step of the promise.
LEMMA QuenchRefines ==
  ASSUME TypeOK, NEW v \in Vsds, Quench(v), UNCHANGED db
  PROVE  [Journal!Next]_(Journal!vars)
<1>1. CASE mercury[v].status = "CONFIRMED"
  <2> DEFINE version == [mercury[v] EXCEPT !.status = "UTILIZED"]
  <2>1. version \in Version
    BY DEF TypeOK, Version, Status
  <2>2. Change(v, version)
    BY <1>1 DEF Quench
  <2> HIDE DEF version
  <2> QED
    BY <1>1, <2>1, <2>2, ChangeRefines
<1>2. CASE mercury[v].status # "CONFIRMED"
  BY <1>2 DEF Quench, InMercury, Journal!vars
<1> QED
  BY <1>1, <1>2

\* So is what others do in Mercury.
LEMMA ElsewhereRefines ==
  ASSUME TypeOK, NEW v \in Vsds, Elsewhere(v)
  PROVE  [Journal!Next]_(Journal!vars)
<1>1. mercury[v] \in Version /\ UNCHANGED db
  BY DEF TypeOK, Elsewhere
<1>2. CASE Change(v, mercury[v])
  BY <1>1, <1>2, ChangeRefines
<1>3. ASSUME NEW d \in Docs, Change(v, [mercury[v] EXCEPT !.home = d])
      PROVE  [Journal!Next]_(Journal!vars)
  <2>1. /\ [mercury[v] EXCEPT !.home = d] \in Version
        /\ [mercury[v] EXCEPT !.home = d].status = mercury[v].status
    BY <1>1 DEF Version
  <2> QED
    BY <1>1, <1>3, <2>1, ChangeRefines
<1>4. ASSUME mercury[v].status = "CONFIRMED", NEW s \in {"UTILIZED", "WITHDRAWN"},
             Change(v, [mercury[v] EXCEPT !.status = s])
      PROVE  [Journal!Next]_(Journal!vars)
  <2>1. [mercury[v] EXCEPT !.status = s] \in Version
    BY <1>1 DEF Version, Status
  <2> QED
    BY <1>1, <1>4, <2>1, ChangeRefines
<1> QED
  BY <1>2, <1>3, <1>4 DEF Elsewhere

\* A record that is written while Mercury stands still, and shows no more than
\* Mercury says, is a step of the promise.
LEMMA WriteRefines ==
  ASSUME VetisInv, VetisInv', UNCHANGED mercury, NEW d, NEW content, Put(d, content)
  PROVE  [Journal!Next]_(Journal!vars)
<1>1. UNCHANGED InMercury
  BY DEF InMercury
<1>2. CASE d \in Docs
  <2>1. db'[d] = content /\ db'[d] \in Content /\ Honest(content)
    BY <1>2 DEF VetisInv, TypeOK, Put, RecordsAreHonest, Honest
  <2>2. content \in Journal!Content
    BY <2>1 DEF Content, Status, Journal!Content, Journal!Left
  <2>3. Journal!MayShow(content)
    BY <2>1 DEF VetisInv, TypeOK, Version, Status, Honest, Journal!MayShow, Journal!Left, InMercury
  <2>4. Journal!Write(d, content)
    BY <1>1, <2>3 DEF Put, Journal!Write
  <2> QED
    BY <1>2, <2>2, <2>4 DEF Journal!Next
<1>3. CASE d \notin Docs
  <2>1. UNCHANGED db
    BY <1>3 DEF VetisInv, TypeOK, Put
  <2> QED
    BY <1>1, <2>1 DEF Journal!vars
<1> QED
  BY <1>2, <1>3

\* Central writes one record at a time, and nothing of it is a change in Mercury.
LEMMA CentralWritesOne ==
  ASSUME VetisInv, Sweep \/ Load \/ WorkerFails \/ Restart \/ UNCHANGED vars
  PROVE  UNCHANGED mercury /\ (UNCHANGED db \/ \E d, content : Put(d, content))
<1>1. CASE Sweep
  BY <1>1 DEF Sweep, SweepList, SweepFind, SweepSave, SweepDone, StoredButFails, outside
<1>2. CASE Load
  BY <1>2 DEF Load, StartRound, ReadPage, FindTarget, FindOther, SaveTarget, ListIds, DropFromOther,
     Released, TurnPage, ShiftCursor, StoredButFails, outside
<1> QED
  BY <1>1, <1>2 DEF WorkerFails, Restart, vars, outside

\* So does a command, but for the application Mercury processes.
LEMMA CommandWritesOne ==
  ASSUME NEW q \in Quenchers, CommandNext(q), ~Process(q)
  PROVE  UNCHANGED mercury /\ (UNCHANGED db \/ \E d, content : Put(d, content))
BY DEF CommandNext, Enter, NotSent, Submit, Unanswered, CancelCommand, StoreMissing, StoreFind,
   StoreSave, StoreFails, RememberErrors, SaveErrors, Report, outside

\* Every step of the journal is a step of the promise or none.
LEMMA StepRefines ==
  ASSUME VetisInv, VetisInv', [Next]_vars
  PROVE  [Journal!Next]_(Journal!vars)
<1>t. TypeOK
  BY DEF VetisInv
<1>1. ASSUME UNCHANGED mercury, UNCHANGED db \/ \E d, content : Put(d, content)
      PROVE  [Journal!Next]_(Journal!vars)
  <2>1. CASE UNCHANGED db
    BY <1>1, <2>1 DEF InMercury, Journal!vars
  <2> QED
    BY <1>1, <2>1, WriteRefines
<1>2. ASSUME NEW v \in Vsds, Elsewhere(v) \/ ProcessLate(v) PROVE [Journal!Next]_(Journal!vars)
  BY <1>2, <1>t, ElsewhereRefines, QuenchRefines DEF ProcessLate
<1>3. ASSUME NEW q \in Quenchers, CommandNext(q) PROVE [Journal!Next]_(Journal!vars)
  <2>1. CASE Process(q)
    <3>1. vsd[q] \in Vsds /\ Quench(vsd[q]) /\ UNCHANGED db
      BY <2>1 DEF Process, VetisInv, AnswersHaveLeft
    <3> QED
      BY <1>t, <3>1, QuenchRefines
  <2> QED
    BY <1>1, <1>3, <2>1, CommandWritesOne
<1> QED
  BY <1>1, <1>2, <1>3, CentralWritesOne DEF Next

\* The journal implements VetisJournal, with every stale copy, lost answer,
\* failed save and restart: it lags behind Mercury and is never ahead of it.
THEOREM JournalIsNeverAhead == Spec => JournalNeverAhead
<1>1. Init => Journal!Init
  BY DEF Init, Version, InMercury, Journal!Init
<1>2. VetisInv /\ VetisInv' /\ [Next]_vars => [Journal!Next]_(Journal!vars)
  BY StepRefines
<1> QED
  BY <1>1, <1>2, CopiesAreHonest, PTL DEF Spec, JournalNeverAhead, Journal!Spec

-----------------------------------------------------------------------------
(* What the sweep took out stays out, where no quench command saves a stale *)
(* copy: the list of the sweep holds every record that still has a foreign  *)
(* transport, and the load reads and writes clean ones only.                *)

Clean(content) == Members(content) \cap Foreign = {}

\* The sweep has visited every record that is not on its list any more.
SweepAhead ==
  step \in {"sweep", "sweepSave"} => ~swept /\ \A d \in Docs \ todo : Clean(db[d])

\* The load starts after the sweep and holds no foreign transport.
LoadIsClean ==
  /\ step \notin {"idle", "sweep", "sweepSave"} => swept
  /\ step # "sweepSave" => Clean(copy)
  /\ OnPage \cap Foreign = {}

SweepInv == SweptStaysSwept /\ SweepAhead /\ LoadIsClean

LEMMA DropClean ==
  ASSUME NEW content, NEW gone,
         gone = Foreign \/ Clean(content)
  PROVE  Clean(Drop(content, gone))
  BY DEF Clean, Members, Drop

LEMMA MergedClean ==
  ASSUME Clean(copy), OnPage \cap Foreign = {}
  PROVE  Clean(Merged)
<1>1. Own \cap Foreign = {}
  BY DEF Own
<1>2. Clean(Merge(copy, Own))
  BY <1>1 DEF Clean, Members, Merge
<1> QED
  BY <1>2, DropClean DEF Merged

LEMMA HaltClean ==
  ASSUME Halt
  PROVE  SweepAhead' /\ LoadIsClean'
<1>1. OnPage' = {} /\ Clean(copy')
  BY DEF Halt, OnPage, Unlisted, Clean, Members, Empty
<1> QED
  BY <1>1 DEF Halt, Clean, SweepAhead, LoadIsClean

\* Saving a clean record.
LEMMA PutClean ==
  ASSUME db \in [Docs -> Content], NEW d, NEW content, Put(d, content), Clean(content)
  PROVE  \A e \in Docs : Clean(db[e]) \/ e = d => Clean(db'[e])
  BY DEF Put

LEMMA SweepClean ==
  ASSUME VetisInv, SweepInv, Sweep \/ WorkerFails
  PROVE  SweepInv'
<1>t. db \in [Docs -> Content] /\ (step = "sweepSave" => target \in Docs)
  BY DEF VetisInv, TypeOK
<1>1. CASE SweepList
  <2>1. \A d \in Docs \ todo' : Clean(db'[d])
    BY <1>1 DEF SweepList, Clean, Members, Empty
  <2>2. OnPage' = OnPage /\ ~swept' /\ step' = "sweep" /\ Clean(copy')
    BY <1>1 DEF SweepList, OnPage, paging, SweepInv, LoadIsClean, Clean
  <2> QED
    BY <2>1, <2>2 DEF SweepInv, SweptStaysSwept, SweepAhead, LoadIsClean, Clean
<1>2. ASSUME NEW d \in Docs, SweepFind(d) PROVE SweepInv'
  <2>1. db' = db /\ OnPage' = OnPage /\ ~swept /\ ~swept' /\ step' \in {"sweep", "sweepSave"}
    BY <1>2 DEF SweepFind, OnPage, paging, SweepInv, SweepAhead
  <2>2. \A e \in Docs \ todo' : Clean(db[e])
    BY <1>2 DEF SweepFind, SweepInv, SweepAhead, Clean
  <2>3. step' # "sweepSave" => Clean(copy')
    BY <1>2 DEF SweepFind, SweepInv, LoadIsClean, Clean
  <2> QED
    BY <2>1, <2>2, <2>3 DEF Clean, SweepInv, SweptStaysSwept, SweepAhead, LoadIsClean
<1>3. CASE SweepSave
  <2>1. Clean(Drop(copy, Foreign)) /\ ~swept /\ ~swept'
    BY <1>3, DropClean DEF SweepSave, StoredButFails, SweepInv, SweepAhead
  <2>2. CASE Put(target, Drop(copy, Foreign)) /\ Visit("sweep") /\ UNCHANGED paging
    <3>1. \A e \in Docs \ todo' : Clean(db'[e])
      BY <1>3, <1>t, <2>1, <2>2, PutClean DEF Visit, SweepSave, SweepInv, SweepAhead
    <3>2. OnPage' = OnPage /\ step' = "sweep" /\ Clean(copy')
      BY <2>2 DEF OnPage, paging, Visit, Clean, Members, Empty
    <3> QED
      BY <2>1, <3>1, <3>2 DEF Clean, SweepInv, SweptStaysSwept, SweepAhead, LoadIsClean
  <2>3. CASE StoredButFails(target, Drop(copy, Foreign))
    BY <2>1, <2>3, HaltClean DEF StoredButFails, SweepInv, SweptStaysSwept
  <2> QED
    BY <1>3, <2>2, <2>3 DEF SweepSave
<1>4. CASE SweepDone
  <2>1. \A d \in Docs : Clean(db'[d])
    BY <1>4 DEF SweepDone, SweepInv, SweepAhead
  <2>2. OnPage' = OnPage /\ step' = "idle" /\ Clean(copy')
    BY <1>4 DEF SweepDone, OnPage, paging, visiting, SweepInv, LoadIsClean, Clean
  <2> QED
    BY <2>1, <2>2 DEF SweepInv, SweptStaysSwept, SweepAhead, LoadIsClean, Clean
<1>5. CASE WorkerFails
  BY <1>5, HaltClean DEF WorkerFails, SweepInv, SweptStaysSwept
<1> QED
  BY <1>1, <1>2, <1>3, <1>4, <1>5 DEF Sweep

LEMMA LoadClean ==
  ASSUME VetisInv, SweepInv, Load
  PROVE  SweepInv'
<1>t. db \in [Docs -> Content] /\ (step \in {"save", "drop"} => target \in Docs)
  BY DEF VetisInv, TypeOK
<1>s. /\ swept /\ swept' = swept /\ step \notin {"sweep", "sweepSave"}
      /\ step' \notin {"sweep", "sweepSave"}
      /\ \A d \in Docs : Clean(db[d])
  <2>1. swept /\ swept' = swept /\ step \notin {"sweep", "sweepSave"}
    BY DEF Load, StartRound, ReadPage, FindTarget, FindOther, SaveTarget, StoredButFails, ListIds,
           DropFromOther, Released, TurnPage, ShiftCursor, SweepInv, LoadIsClean
  <2>2. step' \notin {"sweep", "sweepSave"}
    BY DEF Load, StartRound, ReadPage, FindTarget, FindOther, SaveTarget, StoredButFails, ListIds,
           DropFromOther, Released, TurnPage, ShiftCursor, Halt, Visit
  <2> QED
    BY <2>1, <2>2 DEF SweepInv, SweptStaysSwept, Clean
<1> DEFINE Kept == (\A d \in Docs : Clean(db'[d])) /\ Clean(copy') /\ OnPage' \cap Foreign = {}
<1>k. SUFFICES Kept
  BY <1>s DEF SweepInv, SweptStaysSwept, SweepAhead, LoadIsClean, Clean
<1>p. OnPage \cap Foreign = {} /\ Clean(copy)
  BY <1>s DEF SweepInv, LoadIsClean
<1>e. Clean(Empty) /\ (Halt => OnPage' = {})
  BY DEF Clean, Members, Empty, Halt, OnPage, Unlisted
<1>1. CASE StartRound
  <2>1. db' = db /\ page' = page /\ copy' = copy
    BY <1>1 DEF StartRound, visiting
  <2> QED
    BY <1>s, <1>p, <2>1 DEF OnPage
<1>2. CASE ReadPage
  <2>1. db' = db /\ copy' = copy /\ OnPage' \subseteq Shown \ Foreign
    BY <1>2 DEF ReadPage, OnPage
  <2> QED
    BY <1>2, <1>s, <1>p, <2>1 DEF ReadPage
<1>3. ASSUME NEW d \in Docs, FindTarget(d) PROVE Kept
  BY <1>3, <1>s, <1>p DEF FindTarget, OnPage, paging
<1>4. ASSUME NEW d \in Docs, FindOther(d) PROVE Kept
  BY <1>4, <1>s, <1>p DEF FindOther, OnPage, paging
<1>5. CASE SaveTarget
  <2>1. Clean(Merged)
    BY <1>5, <1>p, MergedClean DEF SaveTarget
  <2>2. \A d \in Docs : Clean(db'[d])
    BY <1>5, <1>s, <1>t, <2>1, PutClean DEF SaveTarget, StoredButFails
  <2>3. CASE StoredButFails(target, Merged)
    BY <2>2, <2>3, <1>e DEF StoredButFails, Halt
  <2>4. CASE UNCHANGED paging /\ copy' = Empty
    BY <2>2, <2>4, <1>e, <1>p DEF OnPage, paging
  <2> QED
    BY <1>5, <2>3, <2>4 DEF SaveTarget, Visit
<1>6. CASE ListIds
  BY <1>6, <1>s, <1>p DEF ListIds, OnPage, paging
<1>7. CASE DropFromOther
  <2>1. Clean(Drop(copy, uuids))
    BY <1>7, <1>p, DropClean DEF DropFromOther
  <2>2. \A d \in Docs : Clean(db'[d])
    BY <1>7, <1>s, <1>t, <2>1, PutClean DEF DropFromOther, StoredButFails
  <2>3. CASE StoredButFails(target, Drop(copy, uuids))
    BY <2>2, <2>3, <1>e DEF StoredButFails, Halt
  <2>4. CASE UNCHANGED paging /\ copy' = Empty
    BY <2>2, <2>4, <1>e, <1>p DEF OnPage, paging
  <2> QED
    BY <1>7, <2>3, <2>4 DEF DropFromOther, Visit
<1>8. CASE Released
  BY <1>8, <1>s, <1>p DEF Released, OnPage, paging
<1>9. CASE TurnPage
  <2>1. OnPage' = {}
    BY <1>9 DEF TurnPage, OnPage, Unlisted
  <2> QED
    BY <1>9, <1>s, <1>p, <2>1 DEF TurnPage, visiting
<1>10. CASE ShiftCursor
  BY <1>10, <1>s, <1>e DEF ShiftCursor, Halt
<1> QED
  BY <1>1, <1>2, <1>3, <1>4, <1>5, <1>6, <1>7, <1>8, <1>9, <1>10 DEF Load

LEMMA QuietClean ==
  ASSUME SweepInv, UNCHANGED <<db, worker>>
  PROVE  SweepInv'
<1>1. OnPage' = OnPage
  BY DEF OnPage, worker, paging
<1> QED
  BY <1>1 DEF SweepInv, SweptStaysSwept, SweepAhead, LoadIsClean, Clean, worker, visiting

LEMMA SweepStarts ==
  ASSUME Init
  PROVE  SweepInv
<1>1. OnPage = {} /\ Clean(copy)
  BY DEF Init, OnPage, Unlisted, Clean, Members, Empty
<1> QED
  BY <1>1 DEF Init, SweepInv, SweptStaysSwept, SweepAhead, LoadIsClean

\* A fresh save of a command keeps the VSDs of every record.
LEMMA FreshKeepsMembers ==
  ASSUME VetisInv, StoringHasEntry, SaveIsFresh, NEW q \in Quenchers, StoreSave(q) \/ SaveErrors(q)
  PROVE  /\ UNCHANGED <<outside, cursor, worker>> /\ doc[q] \in Docs
         /\ SaveErrors(q) => db' = db
         /\ StoreSave(q) =>
              /\ vsd[q] \in Vsds /\ mercury[vsd[q]].status # "CONFIRMED" /\ db[doc[q]][vsd[q]] # "none"
              /\ db' = [db EXCEPT ![doc[q]] = [db[doc[q]] EXCEPT ![vsd[q]] = "UTILIZED"]]
         /\ \A d \in Docs : Members(db'[d]) = Members(db[d])
<1>t. db \in [Docs -> [Vsds -> Status \cup {"none"}]]
  BY DEF VetisInv, TypeOK, Content
<1>1. UNCHANGED <<outside, cursor, worker>> /\ doc[q] \in Docs /\ mine[q] = db[doc[q]]
  BY DEF StoreSave, SaveErrors, SaveIsFresh, VetisInv, AnswersHaveLeft
<1>2. SaveErrors(q) => db' = db
  BY <1>t, <1>1 DEF SaveErrors, Put
<1>3. ASSUME StoreSave(q)
      PROVE  /\ vsd[q] \in Vsds /\ mercury[vsd[q]].status # "CONFIRMED" /\ db[doc[q]][vsd[q]] # "none"
             /\ db' = [db EXCEPT ![doc[q]] = [db[doc[q]] EXCEPT ![vsd[q]] = "UTILIZED"]]
  BY <1>1, <1>3 DEF StoreSave, Put, VetisInv, AnswersHaveLeft, StoringHasEntry
<1>4. \A d \in Docs : Members(db'[d]) = Members(db[d])
  <2>1. CASE StoreSave(q)
    <3>1. \A d \in Docs, v \in Vsds : db'[d][v] = "none" <=> db[d][v] = "none"
      BY <1>t, <1>1, <1>3, <2>1
    <3> QED
      BY <3>1 DEF Members
  <2> QED
    BY <1>2, <2>1
<1> QED
  BY <1>1, <1>2, <1>3, <1>4

\* StoreFind copies an entry, and nothing else touches a copy before its save.
LEMMA EntryStays ==
  ASSUME TypeOK, StoringHasEntry, [Next]_vars
  PROVE  StoringHasEntry'
<1>1. CASE UNCHANGED command
  BY <1>1 DEF StoringHasEntry, command
<1>2. ASSUME NEW q \in Quenchers, CommandNext(q) PROVE StoringHasEntry'
  <2>1. ASSUME NEW p \in Quenchers, p # q
        PROVE  stage'[p] = stage[p] /\ mine'[p] = mine[p] /\ vsd'[p] = vsd[p]
    BY <1>2, <2>1 DEF TypeOK, CommandNext, Enter, NotSent, Submit, Process, Unanswered, CancelCommand,
       StoreMissing, StoreFind, StoreSave, StoreFails, RememberErrors, SaveErrors, Report, Exit, Set,
       TakeUp, Copy, Note
  <2>2. stage'[q] = "storing" => mine'[q][vsd'[q]] # "none"
    <3>1. CASE StoreFind(q)
      BY <3>1 DEF TypeOK, StoreFind, Set, Copy
    <3>2. CASE ~StoreFind(q)
      <4>1. stage'[q] # "storing"
        BY <1>2, <3>2 DEF TypeOK, CommandNext, Enter, NotSent, Submit, Process, Unanswered, CancelCommand,
           StoreMissing, StoreSave, StoreFails, RememberErrors, SaveErrors, Report, Exit, Set
      <4> QED
        BY <4>1
    <3> QED
      BY <3>1, <3>2
  <2> QED
    BY <2>1, <2>2 DEF StoringHasEntry
<1>3. CASE Restart
  BY <1>3 DEF Restart, StoringHasEntry
<1>4. UNCHANGED command \/ (\E q \in Quenchers : CommandNext(q)) \/ Restart
  BY DEF Next, vars, Elsewhere, ProcessLate, WorkerFails, Sweep, SweepList, SweepFind, SweepSave,
     StoredButFails, SweepDone, Load, StartRound, ReadPage, FindTarget, FindOther, SaveTarget,
     ListIds, DropFromOther, Released, TurnPage, ShiftCursor
<1> QED
  BY <1>1, <1>2, <1>3, <1>4

\* A command stores its answer in an entry its copy has.
THEOREM AnswersHaveEntries == Spec => []StoringHasEntry
<1>1. Init => StoringHasEntry
  BY DEF Init, StoringHasEntry
<1>2. TypeOK /\ StoringHasEntry /\ [Next]_vars => StoringHasEntry'
  BY EntryStays
<1> QED
  BY <1>1, <1>2, IncomingTyped, PTL DEF Spec

LEMMA FreshSaveClean ==
  ASSUME VetisInv, StoringHasEntry, SweepInv, SaveIsFresh,
         NEW q \in Quenchers, StoreSave(q) \/ SaveErrors(q)
  PROVE  SweepInv'
<1>1. UNCHANGED worker /\ \A d \in Docs : Clean(db'[d]) <=> Clean(db[d])
  BY FreshKeepsMembers DEF Clean
<1>2. OnPage' = OnPage /\ (Clean(copy') <=> Clean(copy))
  BY <1>1 DEF OnPage, worker, paging, visiting
<1> QED
  BY <1>1, <1>2 DEF SweepInv, SweptStaysSwept, SweepAhead, LoadIsClean, Clean, worker, visiting

\* What a command does besides its two saves and the processing at Mercury.
LEMMA CommandIsQuiet ==
  ASSUME NEW q \in Quenchers, CommandNext(q)
  PROVE  \/ StoreSave(q) \/ SaveErrors(q)
         \/ Quench(vsd[q]) /\ stage[q] = "sent" /\ UNCHANGED <<db, cursor, worker>>
         \/ UNCHANGED <<mercury, now, db, cursor, worker>>
  BY DEF CommandNext, Enter, NotSent, Submit, Process, Unanswered, CancelCommand, StoreMissing,
     StoreFind, StoreFails, RememberErrors, Report, outside

LEMMA SweepPreserved ==
  ASSUME VetisInv, StoringHasEntry, SweepInv, [Next]_vars, [SaveIsFresh]_vars
  PROVE  SweepInv'
<1>1. ASSUME NEW v \in Vsds, Elsewhere(v) \/ ProcessLate(v) PROVE SweepInv'
  BY <1>1, QuietClean DEF Elsewhere, ProcessLate
<1>2. CASE Restart
  BY <1>2, HaltClean DEF Restart, SweepInv, SweptStaysSwept
<1>3. CASE UNCHANGED vars
  BY <1>3, QuietClean DEF vars
<1>4. ASSUME NEW q \in Quenchers, CommandNext(q), SaveIsFresh PROVE SweepInv'
  BY <1>4, CommandIsQuiet, FreshSaveClean, QuietClean
<1> QED
  BY <1>1, <1>2, <1>3, <1>4, SweepClean, LoadClean DEF Next

\* No foreign transport comes back once the sweep has ended, as long as no
\* quench command saves a stale copy: a failed save, a lost answer and a restart
\* included.  A stale save is the only way back.
THEOREM OnlyStaleSavesUnsweep == Spec /\ SavesAreFresh => []SweptStaysSwept
<1>1. Init => SweepInv
  BY SweepStarts
<1>2. VetisInv /\ StoringHasEntry /\ SweepInv /\ [Next]_vars /\ [SaveIsFresh]_vars => SweepInv'
  BY SweepPreserved
<1>3. SweepInv => SweptStaysSwept
  BY DEF SweepInv
<1> QED
  BY <1>1, <1>2, <1>3, CopiesAreHonest, AnswersHaveEntries, PTL DEF Spec, SavesAreFresh

LEMMA NoCommandNoStaleSave ==
  ASSUME Quenchers = {}
  PROVE  Spec => SavesAreFresh
<1>1. [Next]_vars => [SaveIsFresh]_vars
  BY DEF SaveIsFresh
<1> QED
  BY <1>1, PTL DEF Spec, SavesAreFresh

\* Without quench commands no foreign transport comes back at all.
THEOREM SweepIsFinal ==
  ASSUME Quenchers = {}
  PROVE  Spec => []SweptStaysSwept
  BY NoCommandNoStaleSave, OnlyStaleSavesUnsweep, PTL

-----------------------------------------------------------------------------
(* The cursor.  First what ranks among distinct dates do: a page that is   *)
(* not full has shown everything behind its offset.                        *)

RankIn(list, date, v) == Cardinality({u \in list : date[u] < date[v]})

LEMMA RanksGrow ==
  ASSUME NEW list, IsFiniteSet(list), NEW date \in [list -> Nat],
         NEW u \in list, NEW v \in list, date[u] < date[v]
  PROVE  RankIn(list, date, u) < RankIn(list, date, v)
<1> DEFINE before(w) == {x \in list : date[x] < date[w]}
<1>1. PICK mine0 : mine0 = before(u)
  OBVIOUS
<1>2. PICK other : other = before(v)
  OBVIOUS
<1>3. mine0 \subseteq other \ {u} /\ u \in other /\ other \subseteq list
  BY <1>1, <1>2
<1>4. IsFiniteSet(other) /\ Cardinality(other) \in Nat
  BY <1>3, FS_Subset, FS_CardinalityType
<1>5. IsFiniteSet(other \ {u}) /\ Cardinality(other \ {u}) = Cardinality(other) - 1
  BY <1>3, <1>4, FS_RemoveElement
<1>6. Cardinality(mine0) <= Cardinality(other) - 1 /\ IsFiniteSet(mine0)
  BY <1>3, <1>5, FS_Subset
<1>7. Cardinality(mine0) \in Nat
  BY <1>6, FS_CardinalityType
<1> QED
  BY <1>1, <1>2, <1>4, <1>6, <1>7 DEF RankIn

\* A rank is below the number of members.
LEMMA RanksBounded ==
  ASSUME NEW list, IsFiniteSet(list), NEW date \in [list -> Nat], NEW v \in list
  PROVE  /\ RankIn(list, date, v) \in Nat
         /\ RankIn(list, date, v) < Cardinality(list)
<1>1. PICK before : before = {u \in list : date[u] < date[v]}
  OBVIOUS
<1>2. before \subseteq list \ {v}
  BY <1>1
<1>3. /\ IsFiniteSet(list \ {v}) /\ Cardinality(list) \in Nat
      /\ Cardinality(list \ {v}) = Cardinality(list) - 1
  BY FS_RemoveElement, FS_CardinalityType
<1>4. IsFiniteSet(before) /\ Cardinality(before) <= Cardinality(list) - 1
  BY <1>2, <1>3, FS_Subset
<1>5. Cardinality(before) \in Nat
  BY <1>4, FS_CardinalityType
<1> QED
  BY <1>1, <1>3, <1>4, <1>5 DEF RankIn

\* Every rank below that of a member is taken.
LEMMA RanksTaken ==
  ASSUME NEW list, IsFiniteSet(list), NEW date \in [list -> Nat],
         \A u, w \in list : date[u] = date[w] => u = w,
         NEW v \in list, NEW k \in Nat, k < RankIn(list, date, v)
  PROVE  \E u \in list : RankIn(list, date, u) = k
<1>1. PICK before : before = {u \in list : date[u] < date[v]}
  OBVIOUS
<1>2. PICK rank : rank = RankIn(list, date, v)
  OBVIOUS
<1>3. rank \in Nat /\ rank = Cardinality(before) /\ IsFiniteSet(before)
  BY <1>1, <1>2, RanksBounded, FS_Subset DEF RankIn
<1>4. \A u \in before : RankIn(list, date, u) \in 0 .. rank - 1
  <2> SUFFICES ASSUME NEW u \in before PROVE RankIn(list, date, u) \in 0 .. rank - 1
    OBVIOUS
  <2>1. u \in list /\ date[u] < date[v]
    BY <1>1
  <2>2. RankIn(list, date, u) < rank /\ RankIn(list, date, u) \in Nat
    BY <1>2, <2>1, RanksGrow, RanksBounded
  <2> QED
    BY <1>3, <2>2
<1>5. PICK f : f = [u \in before |-> RankIn(list, date, u)]
  OBVIOUS
<1>6. f \in [before -> 0 .. rank - 1]
  BY <1>4, <1>5
<1>7. \A u, w \in before : f[u] = f[w] => u = w
  <2> SUFFICES ASSUME NEW u \in before, NEW w \in before, u # w PROVE f[u] # f[w]
    OBVIOUS
  <2>1. u \in list /\ w \in list /\ date[u] \in Nat /\ date[w] \in Nat /\ date[u] # date[w]
    BY <1>1
  <2>2. /\ RankIn(list, date, u) \in Nat /\ RankIn(list, date, w) \in Nat
        /\ f[u] = RankIn(list, date, u) /\ f[w] = RankIn(list, date, w)
    BY <1>5, <2>1, RanksBounded
  <2>3. CASE date[u] < date[w]
    BY <2>1, <2>2, <2>3, RanksGrow
  <2>4. CASE date[w] < date[u]
    BY <2>1, <2>2, <2>4, RanksGrow
  <2> QED
    BY <2>1, <2>3, <2>4
<1>8. f \in Injection(before, 0 .. rank - 1)
  BY <1>6, <1>7 DEF Injection, IsInjective
<1>9. IsFiniteSet(0 .. rank - 1) /\ Cardinality(0 .. rank - 1) = rank
  <2>1. rank - 1 \in Int /\ 0 \in Int
    BY <1>3
  <2>2. PICK top \in Int : top = rank - 1
    BY <2>1
  <2>3. IsFiniteSet(0 .. top) /\ Cardinality(0 .. top) = IF 0 > top THEN 0 ELSE top - 0 + 1
    BY <2>1, FS_Interval
  <2>4. 0 .. top = 0 .. rank - 1
    BY <2>2
  <2> QED
    BY <1>3, <2>2, <2>3, <2>4
<1>10. f \in Surjection(before, 0 .. rank - 1)
  BY <1>3, <1>8, <1>9, FS_Injection
<1>11. k \in 0 .. rank - 1
  BY <1>2, <1>3
<1>12. PICK u \in before : f[u] = k
  BY <1>10, <1>11 DEF Surjection
<1> QED
  BY <1>1, <1>5, <1>12

\* If a member lies behind the places start .. start + size - 1, they are full.
LEMMA FullPage ==
  ASSUME NEW list, IsFiniteSet(list), NEW date \in [list -> Nat],
         \A u, w \in list : date[u] = date[w] => u = w,
         NEW start \in Nat, NEW size \in Nat,
         NEW v \in list, RankIn(list, date, v) >= start + size,
         NEW shown, shown = {u \in list : RankIn(list, date, u) \in start .. (start + size - 1)}
  PROVE  Cardinality(shown) >= size
<1>1. \A k \in start .. (start + size - 1) : \E u \in shown : RankIn(list, date, u) = k
  <2> SUFFICES ASSUME NEW k \in start .. (start + size - 1)
               PROVE  \E u \in shown : RankIn(list, date, u) = k
    OBVIOUS
  <2>1. k \in Nat /\ k < RankIn(list, date, v)
    BY RanksBounded
  <2> QED
    BY <2>1, RanksTaken
<1>2. IsFiniteSet(shown) /\ Cardinality(shown) \in Nat
  BY FS_Subset, FS_CardinalityType
<1>3. PICK f : f = [u \in shown |-> RankIn(list, date, u)]
  OBVIOUS
<1>4. f \in Surjection(shown, start .. (start + size - 1))
  BY <1>1, <1>3 DEF Surjection
<1>5. Cardinality(start .. (start + size - 1)) <= Cardinality(shown)
  BY <1>2, <1>4, FS_Surjection
<1> QED
  BY <1>2, <1>5, FS_Interval

\* The dates of the listed VSDs, and their ranks.
LEMMA ListFacts ==
  ASSUME TypeOK, DatesDiffer
  PROVE  /\ IsFiniteSet(Listed) /\ Cardinality(Listed) \in Nat
         /\ \A v \in Listed : Rank(v) \in Nat /\ Rank(v) < Cardinality(Listed)
         /\ Cardinality(Shown) < PageSize => \A v \in Listed : Rank(v) < offset + PageSize
<1>t. /\ offset \in Nat /\ PageSize \in Nat
      /\ \A v \in Vsds : mercury[v].at \in 0 .. MaxChanges
  <2>1. \A v \in Vsds : mercury[v] \in Version
    BY DEF TypeOK
  <2> QED
    BY <2>1 DEF TypeOK, Version
<1>1. PICK list : list = Listed
  OBVIOUS
<1>2. PICK date : date = [u \in list |-> mercury[u].at]
  OBVIOUS
<1>3. list \subseteq Vsds /\ date \in [list -> 0 .. MaxChanges] /\ date \in [list -> Nat]
  BY <1>t, <1>1, <1>2 DEF Listed
<1>4. \A u, w \in list : date[u] = date[w] => u = w
  BY <1>1, <1>2 DEF Listed, DatesDiffer
<1>5. date \in Injection(list, 0 .. MaxChanges)
  BY <1>3, <1>4 DEF Injection, IsInjective
<1>6. IsFiniteSet(list) /\ Cardinality(list) \in Nat
  BY <1>5, FS_Injection, FS_Interval, FS_CardinalityType
<1>7. \A v \in list : RankIn(list, date, v) = Rank(v)
  <2> SUFFICES ASSUME NEW v \in list PROVE RankIn(list, date, v) = Rank(v)
    OBVIOUS
  <2>1. {u \in list : date[u] < date[v]} = {u \in Listed : mercury[u].at < mercury[v].at}
    BY <1>1, <1>2
  <2> QED
    BY <2>1 DEF RankIn, Rank
<1>8. \A v \in list : Rank(v) \in Nat /\ Rank(v) < Cardinality(list)
  BY <1>3, <1>6, <1>7, RanksBounded
<1>9. ASSUME NEW v \in list, Rank(v) >= offset + PageSize PROVE Cardinality(Shown) >= PageSize
  <2>1. PICK shown : shown = Shown
    OBVIOUS
  <2>2. shown = {u \in list : RankIn(list, date, u) \in offset .. (offset + PageSize - 1)}
    BY <1>1, <1>7, <2>1 DEF Shown
  <2>3. RankIn(list, date, v) >= offset + PageSize
    BY <1>7, <1>9
  <2>4. Cardinality(shown) >= PageSize
    BY <1>t, <1>3, <1>4, <1>6, <2>2, <2>3, FullPage
  <2> QED
    BY <2>1, <2>4
<1>10. Shown \subseteq Listed
  BY DEF Shown
<1>11. Cardinality(Shown) \in Nat
  BY <1>1, <1>6, <1>10, FS_Subset, FS_CardinalityType
<1> QED
  BY <1>t, <1>1, <1>6, <1>8, <1>9, <1>11

-----------------------------------------------------------------------------
(* ... then the steps.  What is settled stays so, because the record that  *)
(* is saved is the one that was found but for the VSDs of the page.        *)

\* The types a step about records needs.
LEMMA CursorTypes ==
  ASSUME TypeOK
  PROVE  /\ db \in [Docs -> [Vsds -> Status \cup {"none"}]]
         /\ copy \in [Vsds -> Status \cup {"none"}]
         /\ OnPage \subseteq Vsds /\ kept \subseteq Docs /\ todo \subseteq Docs /\ uuids \subseteq Vsds
         /\ now \in Nat /\ cursor \in Nat /\ until \in Nat /\ latest \in Nat /\ offset \in Nat
         /\ PageSize \in Nat /\ PageSize > 0
         /\ \A v \in Vsds : mercury[v].at \in Nat /\ mercury[v].home \in Docs /\ mercury[v].status \in Status
         /\ \A v \in OnPage : page[v].at \in Nat /\ page[v].home \in Docs /\ page[v].status \in Status
<1>1. \A v \in Vsds : mercury[v] \in Version
  BY DEF TypeOK
<1>2. \A v \in OnPage : v \in Vsds /\ page[v] \in Version
  BY DEF TypeOK, OnPage
<1>3. \A version \in Version : version.at \in Nat /\ version.home \in Docs /\ version.status \in Status
  BY DEF Version
<1> QED
  BY <1>1, <1>2, <1>3 DEF TypeOK, Content

\* Outside a round nothing is claimed of pages.
LEMMA RestKeeps ==
  ASSUME step' \in Resting, offset' = 0, latest' = 0, OnPage' = {}, kept' = {}, uuids' = {},
         DatesDiffer', CopyHasItsMembers', BehindIsSettled'
  PROVE  CursorInv'
  BY DEF CursorInv, WindowHolds, PageStored, UuidsAreKept, PageProgress, ListIsCovered, Resting, Reading

LEMMA HaltFacts ==
  ASSUME Halt
  PROVE  /\ step' \in Resting /\ offset' = 0 /\ latest' = 0 /\ OnPage' = {} /\ kept' = {} /\ uuids' = {}
         /\ CopyHasItsMembers'
  BY DEF Halt, Resting, OnPage, Unlisted, CopyHasItsMembers

\* What the journal shows of a VSD, and what the worker's copy does: it is the
\* record just found, or the one it held, or none any more.
LEMMA SameSettled ==
  ASSUME UNCHANGED <<db, mercury>>,
         \/ target' = NoDoc
         \/ UNCHANGED <<target, copy>>
         \/ \E d \in Docs : target' = d /\ copy' = db[d]
  PROVE  /\ \A v : Settled(v) => Settled(v)'
         /\ cursor' = cursor /\ BehindIsSettled => BehindIsSettled'
<1>1. ASSUME NEW v, Settled(v) PROVE Settled(v)'
  BY <1>1 DEF Settled, Shows
<1> QED
  BY <1>1 DEF BehindIsSettled, Behind

\* A Save that shows a VSD right leaves it settled.
LEMMA PutSettled ==
  ASSUME db \in [Docs -> [Vsds -> Status \cup {"none"}]], NEW d \in Docs, NEW content,
         Put(d, content), UNCHANGED mercury, target' = NoDoc \/ UNCHANGED <<target, copy>>,
         NEW v \in Vsds, Shows(content, d, v), Settled(v)
  PROVE  Settled(v)'
<1>1. \A e \in Docs : db'[e] = IF e = d THEN content ELSE db[e]
  BY DEF Put
<1>2. \A e \in Docs : Shows(db'[e], e, v)
  BY <1>1 DEF Settled
<1> QED
  BY <1>2 DEF Settled, Shows

\* What the worker's copy says of a settled VSD is right as well.
LEMMA CopyShows ==
  ASSUME target \in Docs, NEW v \in Vsds, Settled(v), NEW content, content[v] = copy[v]
  PROVE  Shows(content, target, v)
<1>1. target # NoDoc
  BY DEF VetisAssumption
<1> QED
  BY <1>1 DEF Settled, Shows

\* The sweep does not touch own VSDs; a round or sweep that fails claims nothing.
LEMMA RestingSteps ==
  ASSUME TypeOK, CursorInv, Sweep \/ WorkerFails
  PROVE  CursorInv'
<1>t. db \in [Docs -> [Vsds -> Status \cup {"none"}]] /\ todo \subseteq Docs
  BY CursorTypes
<1>o. UNCHANGED <<outside, cursor>>
  BY DEF Sweep, SweepList, SweepFind, SweepSave, StoredButFails, SweepDone, WorkerFails
<1>d. DatesDiffer'
  BY <1>o DEF CursorInv, DatesDiffer, outside
<1>r. step \in Resting => offset = 0 /\ latest = 0 /\ OnPage = {} /\ kept = {} /\ uuids = {}
  BY DEF CursorInv, WindowHolds, PageProgress, Resting, Reading
<1>1. CASE SweepList \/ SweepDone \/ \E d \in Docs : SweepFind(d)
  <2>1. /\ UNCHANGED <<db, paging, kept, uuids>> /\ step \in Resting /\ step' \in Resting
    BY <1>1 DEF SweepList, SweepDone, SweepFind, Resting, visiting
  <2>2. offset' = 0 /\ latest' = 0 /\ OnPage' = {} /\ kept' = {} /\ uuids' = {}
    BY <1>r, <2>1 DEF paging, OnPage
  <2>3. BehindIsSettled'
    <3>1. UNCHANGED <<target, copy>> \/ \E d \in Docs : target' = d /\ copy' = db[d]
      BY <1>1 DEF SweepList, SweepDone, SweepFind, visiting
    <3> QED
      BY <1>o, <2>1, <3>1, SameSettled DEF CursorInv, outside
  <2>4. CopyHasItsMembers'
    BY <1>1 DEF SweepList, SweepDone, SweepFind, CursorInv, CopyHasItsMembers, Members, visiting
  <2> QED
    BY <1>d, <2>1, <2>2, <2>3, <2>4, RestKeeps
<1>2. CASE SweepSave
  <2>1. target \in Docs /\ step \in Resting
    BY <1>2, <1>t DEF SweepSave, CursorInv, CopyHasItsMembers, Resting
  <2>2. Put(target, Drop(copy, Foreign)) /\ UNCHANGED mercury /\ target' = NoDoc
    BY <1>2, <1>o DEF SweepSave, StoredButFails, outside, Halt, Visit
  <2>3. ASSUME NEW v \in Vsds, Behind(v)' PROVE Settled(v)'
    <3>1. Behind(v) /\ Settled(v)
      BY <1>o, <2>3 DEF Behind, outside, CursorInv, BehindIsSettled
    <3>2. Drop(copy, Foreign)[v] = copy[v]
      BY <3>1 DEF Drop, Behind
    <3>3. Shows(Drop(copy, Foreign), target, v)
      BY <2>1, <3>1, <3>2, CopyShows
    <3> QED
      BY <1>t, <2>1, <2>2, <3>1, <3>3, PutSettled
  <2>4. BehindIsSettled'
    BY <2>3 DEF BehindIsSettled
  <2>5. CASE Halt
    BY <1>d, <2>4, <2>5, HaltFacts, RestKeeps
  <2>6. CASE Visit("sweep") /\ UNCHANGED <<paging, kept, uuids>>
    <3>1. offset' = 0 /\ latest' = 0 /\ OnPage' = {} /\ kept' = {} /\ uuids' = {}
      BY <1>r, <2>1, <2>6 DEF paging, OnPage
    <3>2. step' \in Resting /\ CopyHasItsMembers'
      BY <2>6 DEF Visit, Resting, CopyHasItsMembers
    <3> QED
      BY <1>d, <2>4, <3>1, <3>2, RestKeeps
  <2> QED
    BY <1>2, <2>5, <2>6 DEF SweepSave, StoredButFails
<1>3. CASE WorkerFails
  <2>1. Halt /\ BehindIsSettled'
    BY <1>3, <1>o, SameSettled DEF WorkerFails, CursorInv, outside, Halt
  <2> QED
    BY <1>d, <2>1, HaltFacts, RestKeeps
<1> QED
  BY <1>1, <1>2, <1>3 DEF Sweep

\* A change in Mercury takes its VSD out of the window; the others keep what
\* the list and the journal say of them.
LEMMA ChangeKeepsCursor ==
  ASSUME TypeOK, CursorInv, NEW v \in Vsds, NEW version \in Version, Change(v, version),
         UNCHANGED <<db, cursor, worker>>, ListStandsStill
  PROVE  CursorInv'
<1>t. /\ now \in Nat /\ cursor \in Nat /\ until \in Nat /\ offset \in Nat /\ PageSize \in Nat
      /\ \A u \in Vsds : mercury[u].at \in Nat
      /\ OnPage \subseteq Vsds
      /\ \A u \in OnPage : page[u].at \in Nat
  BY CursorTypes
<1>i. DatesDiffer /\ WindowHolds /\ CopyHasItsMembers /\ PageStored /\ UuidsAreKept /\ PageProgress
      /\ ListIsCovered /\ BehindIsSettled
  BY DEF CursorInv
<1>1. /\ now' = now + 1
      /\ \A u \in Vsds : u # v => mercury'[u] = mercury[u]
      /\ mercury'[v].at = now + 1
  BY DEF TypeOK, Change, Version
<1>3. UNCHANGED <<step, until, offset, page, last, latest, todo, target, copy, kept, uuids>>
  BY DEF worker, paging, visiting
<1>4. OnPage' = OnPage
  BY <1>3 DEF OnPage
<1>5. \A u \in Vsds : u # v => (Settled(u) => Settled(u)') /\ (Fresh(u)' <=> Fresh(u))
  BY <1>1, <1>3, <1>4 DEF Settled, Shows, Fresh
<1>6. DatesDiffer'
  <2>1. \A u \in Vsds : u # v => mercury'[u].at = mercury[u].at /\ mercury[u].at <= now
    BY <1>1, <1>i DEF DatesDiffer
  <2>2. \A u \in Vsds : mercury'[u].at <= now'
    BY <1>t, <1>1, <2>1
  <2>3. ASSUME NEW u \in Vsds, NEW w \in Vsds, mercury'[u].at = mercury'[w].at, mercury'[u].at # 0
        PROVE  u = w
    BY <1>t, <1>i, <1>1, <2>1, <2>3 DEF DatesDiffer
  <2>4. cursor' <= now'
    BY <1>t, <1>i, <1>1 DEF DatesDiffer
  <2> QED
    BY <2>2, <2>3, <2>4 DEF DatesDiffer
<1>7. BehindIsSettled'
  <2> SUFFICES ASSUME NEW u \in Vsds, Behind(u)' PROVE Settled(u)'
    BY DEF BehindIsSettled
  <2>1. u # v
    BY <1>t, <1>i, <1>1 DEF Behind, DatesDiffer
  <2>2. Behind(u)
    BY <1>1, <2>1 DEF Behind
  <2> QED
    BY <1>5, <1>i, <2>1, <2>2 DEF BehindIsSettled
<1>8. step \notin Resting => mercury'[v].at > until
  BY <1>t, <1>i, <1>1 DEF WindowHolds
<1>9. WindowHolds'
  <2>1. \A u \in OnPage : u \in Vsds /\ step \in Reading /\ step \notin Resting
    BY <1>t, <1>i DEF WindowHolds, Reading, Resting
  <2>2. ASSUME NEW u \in OnPage, ~Fresh(u)' PROVE mercury'[u].at > until
    <3>1. CASE u = v
      BY <1>8, <2>1, <3>1
    <3>2. CASE u # v
      BY <1>1, <1>5, <1>i, <2>1, <2>2, <3>2 DEF WindowHolds
    <3> QED
      BY <3>1, <3>2
  <2>3. until <= now => until <= now'
    BY <1>t, <1>1
  <2> QED
    BY <1>3, <1>4, <1>i, <2>2, <2>3 DEF WindowHolds
<1>f. ASSUME NEW u \in OnPage, Fresh(u)' PROVE u # v /\ Fresh(u)
  <2>1. step \notin Resting
    BY <1>i, <1>f DEF WindowHolds, Resting, Reading
  <2>2. page[u].at <= until /\ page[u] = mercury'[u] /\ mercury'[v].at > until
    BY <1>3, <1>8, <1>i, <1>f, <2>1 DEF WindowHolds, Fresh
  <2>3. u # v
    BY <1>t, <1>1, <2>2
  <2> QED
    BY <1>t, <1>5, <1>f, <2>3
<1>10. CopyHasItsMembers' /\ PageStored' /\ UuidsAreKept'
  BY <1>3, <1>4, <1>f, <1>i DEF CopyHasItsMembers, Members, PageStored, UuidsAreKept
<1>11. PageProgress'
  <2>1. ASSUME step = "turn", NEW u \in OnPage, Fresh(u)' PROVE Settled(u)'
    <3>1. u # v /\ Fresh(u)
      BY <1>f, <2>1
    <3> QED
      BY <1>t, <1>5, <1>i, <2>1, <3>1 DEF PageProgress
  <2> QED
    BY <1>3, <1>4, <1>i, <2>1 DEF PageProgress
<1>12. ListIsCovered'
  <2>1. CASE step \in Resting
    BY <1>3, <2>1 DEF ListIsCovered, Resting, Reading
  <2>2. CASE step \notin Resting
    <3>1. Cardinality(Listed) <= PageSize
      <4>1. mercury'[v] # mercury[v]
        BY <1>t, <1>i, <1>1 DEF DatesDiffer
      <4> QED
        BY <2>2, <4>1 DEF ListStandsStill
    <3>2. \A u \in Listed : Rank(u) < PageSize /\ Rank(u) \in Nat
      BY <1>t, <1>i, <3>1, ListFacts
    <3>3. \A u \in Listed' : u \in Listed /\ u # v /\ u \in Vsds /\ Rank(u)' \in Nat
      <4>2. \A u \in Listed' : u # v /\ u \in Vsds
        BY <1>t, <1>1, <1>3, <1>8, <2>2 DEF Listed
      <4>3. \A u \in Listed' : u \in Listed
        BY <1>1, <1>3, <4>2 DEF Listed
      <4>4. ASSUME NEW u \in Listed' PROVE Rank(u)' \in Nat
        <5>1. PICK below : below = {w \in Listed' : mercury'[w].at < mercury'[u].at}
          OBVIOUS
        <5>2. below \subseteq Listed /\ IsFiniteSet(Listed)
          BY <1>i, <4>3, <5>1, ListFacts
        <5>3. Cardinality(below) \in Nat
          BY <5>2, FS_Subset, FS_CardinalityType
        <5> QED
          BY <5>1, <5>3 DEF Rank
      <4> QED
        BY <4>2, <4>3, <4>4
    <3>4. ASSUME step = "page", NEW u \in Listed' \ Foreign, Rank(u)' < offset PROVE Settled(u)'
      <4>1. offset >= PageSize
        BY <1>t, <1>i, <3>3, <3>4 DEF WindowHolds
      <4>2. Settled(u)
        BY <1>t, <1>i, <3>2, <3>3, <3>4, <4>1 DEF ListIsCovered
      <4> QED
        BY <1>5, <3>3, <4>2
    <3>5. ASSUME step \in Reading, NEW u \in Listed' \ Foreign PROVE Settled(u)' \/ Fresh(u)'
      <4>1. Rank(u) < offset + PageSize
        BY <1>t, <3>2, <3>3
      <4>2. Settled(u) \/ Fresh(u)
        BY <1>i, <3>3, <3>5, <4>1 DEF ListIsCovered
      <4> QED
        BY <1>5, <3>3, <4>2
    <3>6. ASSUME step = "shift", NEW u \in Listed' \ Foreign PROVE Settled(u)'
      BY <1>5, <1>i, <3>3, <3>6 DEF ListIsCovered
    <3> QED
      BY <1>3, <3>4, <3>5, <3>6 DEF ListIsCovered
  <2> QED
    BY <2>1, <2>2
<1> QED
  BY <1>6, <1>7, <1>9, <1>10, <1>11, <1>12 DEF CursorInv

\* A step of the round that saves nothing and reads no page.
LEMMA StillFacts ==
  ASSUME UNCHANGED <<mercury, now, db, cursor, until, offset, page>>,
         UNCHANGED <<target, copy>> \/ \E d \in Docs : target' = d /\ copy' = db[d]
  PROVE  /\ \A v : (Settled(v) => Settled(v)') /\ (Fresh(v)' <=> Fresh(v)) /\ Rank(v)' = Rank(v)
         /\ Listed' = Listed /\ OnPage' = OnPage
         /\ DatesDiffer => DatesDiffer'
         /\ BehindIsSettled => BehindIsSettled'
<1>1. \A v : (Settled(v) => Settled(v)') /\ (Fresh(v)' <=> Fresh(v))
  BY SameSettled DEF Fresh, OnPage
<1>2. Listed' = Listed /\ OnPage' = OnPage
  BY DEF Listed, OnPage
<1>3. \A v : Rank(v)' = Rank(v)
  BY <1>2 DEF Rank
<1>4. (DatesDiffer => DatesDiffer') /\ (BehindIsSettled => BehindIsSettled')
  BY <1>1 DEF DatesDiffer, BehindIsSettled, Behind
<1> QED
  BY <1>1, <1>2, <1>3, <1>4

LEMMA RanksAreNumbers == TypeOK /\ DatesDiffer => \A v \in Listed : Rank(v) \in Nat
  BY ListFacts

LEMMA RoundStarts ==
  ASSUME TypeOK, CursorInv, StartRound, TypeOK'
  PROVE  CursorInv'
<1>i. DatesDiffer /\ WindowHolds /\ CopyHasItsMembers /\ PageProgress /\ BehindIsSettled
  BY DEF CursorInv
<1>1. /\ step = "idle" /\ step' = "page" /\ until' = now
      /\ UNCHANGED <<outside, db, cursor, offset, page, last, latest, todo, target, copy, kept, uuids>>
  BY DEF StartRound, visiting
<1>2. offset = 0 /\ latest = 0 /\ OnPage' = {} /\ kept = {} /\ uuids = {}
  BY <1>1, <1>i DEF WindowHolds, PageProgress, Resting, Reading, OnPage
<1>3. \A v : Settled(v)' <=> Settled(v)
  BY <1>1 DEF Settled, Shows, outside
<1>4. DatesDiffer' /\ BehindIsSettled'
  BY <1>1, <1>3, <1>i DEF DatesDiffer, BehindIsSettled, Behind, outside
<1>5. WindowHolds'
  BY <1>1, <1>2, <1>i, CursorTypes DEF WindowHolds, DatesDiffer, Reading, Resting, outside
<1>6. ListIsCovered'
  <2>1. (TypeOK /\ DatesDiffer => \A v \in Listed : Rank(v) \in Nat)'
    BY RanksAreNumbers, PTL
  <2> QED
    BY <1>1, <1>2, <1>4, <2>1 DEF ListIsCovered, Reading
<1> QED
  BY <1>1, <1>2, <1>4, <1>5, <1>6, <1>i
  DEF CursorInv, CopyHasItsMembers, PageStored, UuidsAreKept, PageProgress, Reading

\* The page: what is not on it ranks elsewhere, and a page that is not full is the last.
LEMMA PageIsRead ==
  ASSUME TypeOK, CursorInv, ReadPage
  PROVE  CursorInv'
<1>t. /\ offset \in Nat /\ PageSize \in Nat /\ PageSize > 0 /\ until \in Nat /\ cursor \in Nat
      /\ \A v \in Vsds : mercury[v].at \in Nat
  BY CursorTypes
<1>i. DatesDiffer /\ WindowHolds /\ CopyHasItsMembers /\ PageProgress /\ ListIsCovered /\ BehindIsSettled
  BY DEF CursorInv
<1>1. /\ step = "page" /\ step' \in {"turn", "group"}
      /\ UNCHANGED <<outside, db, cursor, until, offset, latest, target, copy, kept, uuids>>
      /\ page' = [v \in Vsds |-> IF v \in Shown \ Foreign THEN mercury[v] ELSE NoVsd]
      /\ last' = (Cardinality(Shown) < PageSize)
      /\ todo' = {mercury[v].home : v \in Shown \ Foreign}
      /\ step' = "turn" => Shown \subseteq Foreign
  BY DEF ReadPage
<1>2. /\ Listed \subseteq Vsds /\ Listed' = Listed /\ Shown \subseteq Listed
      /\ \A v \in Listed : mercury[v].at <= until
      /\ \A v : (Settled(v)' <=> Settled(v)) /\ Rank(v)' = Rank(v)
  <2>1. Listed \subseteq Vsds /\ Listed' = Listed /\ Shown \subseteq Listed
    BY <1>1 DEF Listed, Shown, outside
  <2>2. \A v \in Listed : mercury[v].at <= until
    BY <1>t DEF Listed
  <2>3. \A v : Settled(v)' <=> Settled(v)
    BY <1>1 DEF Settled, Shows, outside
  <2>4. \A v : Rank(v)' = Rank(v)
    BY <1>1, <2>1 DEF Rank, outside
  <2> QED
    BY <2>1, <2>2, <2>3, <2>4
<1>3. \A v \in Vsds : mercury[v] # NoVsd
  <2>1. \A v \in Vsds : mercury[v] \in Version
    BY DEF TypeOK
  <2>2. NoVsd \notin Version
    BY DEF VetisAssumption
  <2> QED
    BY <2>1, <2>2
<1>4. OnPage' = Shown \ Foreign
  BY <1>1, <1>2, <1>3 DEF OnPage
<1>5. \A v \in OnPage' : v \in Listed /\ v \notin Foreign /\ page'[v] = mercury[v] /\ page'[v] = mercury'[v]
  BY <1>1, <1>2, <1>4 DEF outside
<1>6. DatesDiffer' /\ BehindIsSettled'
  BY <1>1, <1>2, <1>i DEF DatesDiffer, BehindIsSettled, Behind, outside
<1>7. WindowHolds'
  BY <1>1, <1>2, <1>5, <1>i DEF WindowHolds, Fresh, Reading, Resting, outside
<1>8. kept = {} /\ uuids = {}
  BY <1>1, <1>i DEF PageProgress, Reading
<1>9. CopyHasItsMembers' /\ PageStored' /\ UuidsAreKept'
  BY <1>1, <1>8, <1>i DEF CopyHasItsMembers, PageStored, UuidsAreKept
<1>10. PageProgress'
  <2>1. step' = "group" => \A v \in OnPage' : page'[v].home \in todo'
    BY <1>1, <1>4, <1>5
  <2>2. step' = "turn" => OnPage' = {}
    BY <1>1, <1>4
  <2> QED
    BY <1>1, <1>8, <2>1, <2>2 DEF PageProgress, Reading
<1>11. ListIsCovered'
  <2> SUFFICES ASSUME NEW v \in Listed \ Foreign, last' \/ Rank(v) < offset + PageSize
               PROVE  Settled(v) \/ Fresh(v)'
    BY <1>1, <1>2 DEF ListIsCovered, Reading
  <2>1. Rank(v) < offset + PageSize /\ Rank(v) \in Nat
    BY <1>1, <1>i, ListFacts
  <2>2. CASE Rank(v) < offset
    BY <1>1, <1>i, <2>2 DEF ListIsCovered
  <2>3. CASE ~(Rank(v) < offset)
    <3>1. Rank(v) \in offset .. (offset + PageSize - 1)
      BY <1>t, <2>1, <2>3
    <3>2. v \in OnPage'
      BY <1>4, <3>1 DEF Shown
    <3> QED
      BY <1>5, <3>2 DEF Fresh
  <2> QED
    BY <2>2, <2>3
<1> QED
  BY <1>6, <1>7, <1>9, <1>10, <1>11 DEF CursorInv

\* The steps between a Find and the next one that save nothing.
LEMMA FindKeepsCursor ==
  ASSUME TypeOK, CursorInv, ListIds \/ \E d \in Docs : FindTarget(d) \/ FindOther(d)
  PROVE  CursorInv'
<1>t. kept \subseteq Docs /\ todo \subseteq Docs
  BY CursorTypes
<1>i. DatesDiffer /\ WindowHolds /\ CopyHasItsMembers /\ PageStored /\ UuidsAreKept /\ PageProgress
      /\ ListIsCovered /\ BehindIsSettled
  BY DEF CursorInv
<1>1. /\ UNCHANGED <<outside, db, cursor, until, offset, page, last, latest, kept, uuids>>
      /\ step \in Reading \ {"turn"} /\ step' \in Reading \ {"turn"}
  BY DEF ListIds, FindTarget, FindOther, paging, Reading
<1>0. UNCHANGED <<target, copy>> \/ \E d \in Docs : target' = d /\ copy' = db[d]
  BY DEF ListIds, FindTarget, FindOther
<1>2. /\ \A v : (Settled(v) => Settled(v)') /\ (Fresh(v)' <=> Fresh(v)) /\ Rank(v)' = Rank(v)
      /\ Listed' = Listed /\ OnPage' = OnPage /\ DatesDiffer' /\ BehindIsSettled'
  BY <1>0, <1>1, <1>i, StillFacts DEF outside
<1>3. WindowHolds' /\ ListIsCovered' /\ PageStored'
  BY <1>1, <1>2, <1>i DEF WindowHolds, ListIsCovered, PageStored, outside, Reading, Resting
<1> SUFFICES CopyHasItsMembers' /\ UuidsAreKept' /\ PageProgress'
  BY <1>2, <1>3 DEF CursorInv
<1>4. CASE ListIds
  <2>1. todo' = {d \in Docs : db[d] # Empty} \ kept /\ step = "ids" /\ step' = "release"
        /\ UNCHANGED <<target, copy>>
    BY <1>4 DEF ListIds
  <2>2. \A v \in Vsds, d \in Docs \ (todo' \cup kept') : db'[d][v] = "none"
    BY <1>1, <2>1 DEF Empty
  <2> QED
    BY <1>1, <1>2, <1>i, <2>1, <2>2, CursorTypes DEF CopyHasItsMembers, UuidsAreKept, PageProgress, Reading
<1>5. ASSUME NEW d \in Docs, FindTarget(d) PROVE CopyHasItsMembers' /\ UuidsAreKept' /\ PageProgress'
  <2>1. /\ step = "group" /\ step' = "save" /\ d \in todo /\ todo' = todo /\ target' = d /\ copy' = db[d]
    BY <1>5 DEF FindTarget
  <2> QED
    BY <1>1, <1>2, <1>i, <2>1 DEF CopyHasItsMembers, UuidsAreKept, PageProgress, Reading
<1>6. ASSUME NEW d \in Docs, FindOther(d), Members(db[d]) \cap uuids = {}
      PROVE  CopyHasItsMembers' /\ UuidsAreKept' /\ PageProgress'
  <2>1. /\ step = "release" /\ step' = "release" /\ todo' = todo \ {d} /\ UNCHANGED <<target, copy>>
    BY <1>6 DEF FindOther
  <2>2. \A v \in uuids : db[d][v] = "none"
    BY <1>6, CursorTypes DEF Members
  <2>3. \A v \in uuids, e \in Docs \ (todo' \cup kept) : db[e][v] = "none"
    BY <1>i, <2>1, <2>2 DEF PageProgress
  <2> QED
    BY <1>1, <1>2, <1>i, <2>1, <2>3 DEF CopyHasItsMembers, UuidsAreKept, PageProgress, Reading
<1>7. ASSUME NEW d \in Docs, FindOther(d), Members(db[d]) \cap uuids # {}
      PROVE  CopyHasItsMembers' /\ UuidsAreKept' /\ PageProgress'
  <2>1. /\ step = "release" /\ step' = "drop" /\ d \in todo /\ todo' = todo /\ target' = d /\ copy' = db[d]
    BY <1>7 DEF FindOther
  <2> QED
    BY <1>1, <1>2, <1>i, <2>1 DEF CopyHasItsMembers, UuidsAreKept, PageProgress, Reading
<1> QED
  BY <1>4, <1>5, <1>6, <1>7

\* What the merged record shows.
LEMMA MergedFacts ==
  ASSUME TypeOK, CursorInv, step = "save"
  PROVE  /\ target \in todo /\ target \in Docs /\ target \notin kept
         /\ \A v \in Vsds : Merged[v] =
              IF v \in OnPage THEN IF page[v].home = target THEN page[v].status ELSE "none"
              ELSE copy[v]
<1>1. target \in todo
  BY DEF CursorInv, CopyHasItsMembers
<1>2. target \in Docs /\ target \notin kept
  BY <1>1, CursorTypes DEF CursorInv, UuidsAreKept, Reading
<1>3. \A v \in Vsds : Merged[v] =
        IF v \in OnPage THEN IF page[v].home = target THEN page[v].status ELSE "none" ELSE copy[v]
  BY DEF Merged, Drop, Merge, Own
<1> QED
  BY <1>1, <1>2, <1>3

\* A VSD that is listed, or behind the cursor, lies on the page as it is or not at all.
LEMMA StaleIsOutside ==
  ASSUME TypeOK, CursorInv, step \in Reading, NEW v \in Vsds, v \in Listed \/ Behind(v), v \in OnPage
  PROVE  Fresh(v)
  BY CursorTypes DEF CursorInv, WindowHolds, Reading, Resting, Listed, Behind

LEMMA SaveKeepsCursor ==
  ASSUME TypeOK, CursorInv, SaveTarget
  PROVE  CursorInv'
<1>i. DatesDiffer /\ WindowHolds /\ CopyHasItsMembers /\ PageStored /\ UuidsAreKept /\ PageProgress
      /\ ListIsCovered /\ BehindIsSettled
  BY DEF CursorInv
<1>1. step = "save" /\ Put(target, Merged) /\ UNCHANGED <<outside, cursor>> /\ target' = NoDoc
  BY DEF SaveTarget, StoredButFails, Halt, Visit
<1>t. /\ db \in [Docs -> [Vsds -> Status \cup {"none"}]]
      /\ OnPage \subseteq Vsds /\ kept \subseteq Docs /\ todo \subseteq Docs /\ uuids \subseteq Vsds
      /\ \A v \in OnPage : page[v].home \in Docs /\ page[v].status \in Status
  BY CursorTypes
<1>m. /\ target \in todo /\ target \in Docs /\ target \notin kept
      /\ \A v \in Vsds : Merged[v] =
           IF v \in OnPage THEN IF page[v].home = target THEN page[v].status ELSE "none"
           ELSE copy[v]
  BY <1>1, MergedFacts
<1>2. db'[target] = Merged /\ \A d \in Docs : d # target => db'[d] = db[d]
  BY <1>1, <1>m, <1>t DEF Put
<1>3. ASSUME NEW v \in Vsds, v \in OnPage => Fresh(v), Settled(v) PROVE Settled(v)'
  <2>1. Shows(Merged, target, v)
    <3>1. CASE v \in OnPage
      BY <1>3, <1>m, <3>1 DEF Shows, Agrees, Fresh
    <3>2. CASE v \notin OnPage
      BY <1>3, <1>m, <3>2, CopyShows
    <3> QED
      BY <3>1, <3>2
  <2> QED
    BY <1>1, <1>3, <1>m, <1>t, <2>1, PutSettled DEF outside
<1>4. DatesDiffer' /\ BehindIsSettled'
  <2>1. ASSUME NEW v \in Vsds, Behind(v)' PROVE Settled(v)'
    <3>1. Behind(v)
      BY <1>1, <2>1 DEF Behind, outside
    <3> QED
      BY <1>1, <1>3, <1>i, <3>1, StaleIsOutside DEF BehindIsSettled, Reading
  <2> QED
    BY <1>1, <1>i, <2>1 DEF DatesDiffer, BehindIsSettled, outside
<1>5. CASE Halt
  BY <1>4, <1>5, HaltFacts, RestKeeps
<1>6. CASE /\ Visit(IF todo = {target} THEN "ids" ELSE "group")
           /\ kept' = kept \cup {target}
           /\ uuids' = uuids \cup Members(Merged)
           /\ UNCHANGED paging
  <2>1. /\ step' \in {"ids", "group"} /\ (step' = "ids" => todo = {target})
        /\ todo' = todo \ {target} /\ target' = NoDoc
        /\ UNCHANGED <<until, offset, page, last, latest>>
    BY <1>6 DEF Visit, paging
  <2>2. Listed' = Listed /\ OnPage' = OnPage /\ (\A v : Rank(v)' = Rank(v)) /\ (\A v : Fresh(v)' <=> Fresh(v))
    <3>1. Listed' = Listed /\ OnPage' = OnPage
      BY <1>1, <2>1 DEF Listed, OnPage, outside
    <3> QED
      BY <1>1, <2>1, <3>1 DEF Rank, Fresh, outside
  <2>3. WindowHolds' /\ CopyHasItsMembers'
    BY <1>1, <1>i, <2>1, <2>2 DEF WindowHolds, CopyHasItsMembers, Reading, Resting, outside
  <2>4. PageStored'
    <3> SUFFICES ASSUME NEW v \in OnPage, NEW d \in kept \cup {target}
                 PROVE  IF d = page[v].home THEN Fresh(v) => Agrees(db'[d][v], page[v].status)
                        ELSE db'[d][v] = "none"
      BY <1>6, <2>1, <2>2 DEF PageStored
    <3>1. CASE d = target
      BY <1>2, <1>m, <1>t, <3>1 DEF Agrees
    <3>2. CASE d # target
      BY <1>2, <1>i, <1>t, <3>2 DEF PageStored
    <3> QED
      BY <3>1, <3>2
  <2>5. UuidsAreKept'
    <3>1. ASSUME NEW v \in uuids' PROVE \E d \in kept' : db'[d][v] # "none"
      <4>1. CASE v \in uuids
        BY <1>2, <1>6, <1>i, <1>m, <1>t, <4>1 DEF UuidsAreKept
      <4>2. CASE v \in Members(Merged)
        BY <1>2, <1>6, <4>2 DEF Members
      <4> QED
        BY <1>6, <3>1, <4>1, <4>2
    <3>2. ASSUME NEW v \in OnPage, page[v].home \in kept' PROVE v \in uuids'
      <4>1. CASE page[v].home = target
        <5>1. Merged[v] = page[v].status /\ page[v].status \in Status /\ v \in Vsds
          BY <1>m, <1>t, <4>1
        <5> QED
          BY <1>6, <5>1 DEF Members, Status
      <4>2. CASE page[v].home \in kept
        BY <1>6, <1>i, <4>2 DEF UuidsAreKept
      <4> QED
        BY <1>6, <3>2, <4>1, <4>2
    <3>3. kept' \cap todo' = {}
      BY <1>1, <1>6, <1>i, <2>1 DEF UuidsAreKept, Reading
    <3> QED
      BY <2>1, <2>2, <3>1, <3>2, <3>3 DEF UuidsAreKept
  <2>6. PageProgress'
    <3>1. \A v \in OnPage : page[v].home \in todo' \cup kept'
      BY <1>1, <1>6, <1>i, <2>1 DEF PageProgress
    <3> QED
      BY <2>1, <2>2, <3>1 DEF PageProgress, Reading
  <2>7. ListIsCovered'
    <3>1. ASSUME NEW v \in Listed \ Foreign, Settled(v) \/ Fresh(v) PROVE Settled(v)' \/ Fresh(v)'
      <4>1. v \in Vsds /\ (v \in OnPage => Fresh(v))
        BY <1>1, <3>1, StaleIsOutside DEF Listed, Reading
      <4> QED
        BY <1>3, <2>2, <3>1, <4>1
    <3>2. ASSUME NEW v \in Listed \ Foreign, last \/ Rank(v) < offset + PageSize PROVE Settled(v) \/ Fresh(v)
      BY <1>1, <1>i, <3>2 DEF ListIsCovered, Reading
    <3> QED
      BY <2>1, <2>2, <3>1, <3>2 DEF ListIsCovered, Reading
  <2> QED
    BY <1>4, <2>3, <2>4, <2>5, <2>6, <2>7 DEF CursorInv
<1> QED
  BY <1>5, <1>6 DEF SaveTarget, StoredButFails

\* Releasing takes a settled VSD out of no record: its own is among those saved.
LEMMA DropKeepsCursor ==
  ASSUME TypeOK, CursorInv, DropFromOther
  PROVE  CursorInv'
<1>i. DatesDiffer /\ WindowHolds /\ CopyHasItsMembers /\ PageStored /\ UuidsAreKept /\ PageProgress
      /\ ListIsCovered /\ BehindIsSettled
  BY DEF CursorInv
<1>1. step = "drop" /\ Put(target, Drop(copy, uuids)) /\ UNCHANGED <<outside, cursor>> /\ target' = NoDoc
  BY DEF DropFromOther, StoredButFails, Halt, Visit
<1>t. /\ db \in [Docs -> [Vsds -> Status \cup {"none"}]]
      /\ OnPage \subseteq Vsds /\ kept \subseteq Docs /\ todo \subseteq Docs /\ uuids \subseteq Vsds
  BY CursorTypes
<1>m. /\ target \in todo /\ target \in Docs /\ target \notin kept
      /\ \A v \in Vsds : Drop(copy, uuids)[v] = IF v \in uuids THEN "none" ELSE copy[v]
  <2>1. target \in todo
    BY <1>1, <1>i DEF CopyHasItsMembers
  <2>2. target \in Docs /\ target \notin kept
    BY <1>1, <1>i, <1>t, <2>1 DEF UuidsAreKept, Reading
  <2> QED
    BY <2>1, <2>2 DEF Drop
<1>2. db'[target] = Drop(copy, uuids) /\ \A d \in Docs : d # target => db'[d] = db[d]
  BY <1>1, <1>m, <1>t DEF Put
<1>3. ASSUME NEW v \in Vsds, Settled(v) PROVE Settled(v)'
  <2>1. CASE v \in uuids
    <3>1. PICK d \in kept : db[d][v] # "none"
      BY <1>i, <2>1 DEF UuidsAreKept
    <3>2. d = mercury[v].home /\ target # d
      BY <1>3, <1>m, <1>t, <3>1 DEF Settled, Shows
    <3>3. Shows(Drop(copy, uuids), target, v)
      BY <1>m, <2>1, <3>2 DEF Shows
    <3> QED
      BY <1>1, <1>3, <1>m, <1>t, <3>3, PutSettled DEF outside
  <2>2. CASE v \notin uuids
    <3>1. Shows(Drop(copy, uuids), target, v)
      BY <1>3, <1>m, <2>2, CopyShows
    <3> QED
      BY <1>1, <1>3, <1>m, <1>t, <3>1, PutSettled DEF outside
  <2> QED
    BY <2>1, <2>2
<1>4. DatesDiffer' /\ BehindIsSettled'
  BY <1>1, <1>3, <1>i DEF DatesDiffer, BehindIsSettled, Behind, outside
<1>5. CASE Halt
  BY <1>4, <1>5, HaltFacts, RestKeeps
<1>6. CASE Visit("release") /\ UNCHANGED <<paging, kept, uuids>>
  <2>1. /\ step' = "release" /\ todo' = todo \ {target} /\ target' = NoDoc
        /\ UNCHANGED <<until, offset, page, last, latest, kept, uuids>>
    BY <1>6 DEF Visit, paging
  <2>2. Listed' = Listed /\ OnPage' = OnPage /\ (\A v : Rank(v)' = Rank(v)) /\ (\A v : Fresh(v)' <=> Fresh(v))
    <3>1. Listed' = Listed /\ OnPage' = OnPage
      BY <1>1, <2>1 DEF Listed, OnPage, outside
    <3> QED
      BY <1>1, <2>1, <3>1 DEF Rank, Fresh, outside
  <2>3. WindowHolds' /\ CopyHasItsMembers'
    BY <1>1, <1>i, <2>1, <2>2 DEF WindowHolds, CopyHasItsMembers, Reading, Resting, outside
  <2>4. \A d \in kept : db'[d] = db[d]
    BY <1>2, <1>m, <1>t
  <2>5. PageStored' /\ UuidsAreKept'
    BY <1>1, <1>i, <2>1, <2>2, <2>4 DEF PageStored, UuidsAreKept, Reading
  <2>6. PageProgress'
    <3>1. ASSUME NEW v \in uuids, NEW d \in Docs \ (todo' \cup kept) PROVE db'[d][v] = "none"
      <4>1. CASE d = target
        BY <1>2, <1>m, <1>t, <4>1
      <4>2. CASE d # target
        BY <1>1, <1>2, <1>i, <2>1, <3>1, <4>2 DEF PageProgress
      <4> QED
        BY <4>1, <4>2
    <3> QED
      BY <1>1, <1>i, <2>1, <2>2, <3>1 DEF PageProgress, Reading
  <2>7. ListIsCovered'
    <3>1. \A v \in Listed : v \in Vsds
      BY DEF Listed
    <3> QED
      BY <1>1, <1>3, <1>i, <2>1, <2>2, <3>1 DEF ListIsCovered, Reading
  <2> QED
    BY <1>4, <2>3, <2>5, <2>6, <2>7 DEF CursorInv
<1> QED
  BY <1>5, <1>6 DEF DropFromOther, StoredButFails

\* Once the others have given them up, the VSDs of the page are settled.
LEMMA ReleaseSettles ==
  ASSUME TypeOK, CursorInv, Released
  PROVE  CursorInv'
<1>i. DatesDiffer /\ WindowHolds /\ CopyHasItsMembers /\ PageStored /\ UuidsAreKept /\ PageProgress
      /\ ListIsCovered /\ BehindIsSettled
  BY DEF CursorInv
<1>t. kept \subseteq Docs /\ OnPage \subseteq Vsds
  BY CursorTypes
<1>1. /\ step = "release" /\ step' = "turn" /\ todo = {} /\ kept' = {} /\ uuids' = {}
      /\ UNCHANGED <<outside, db, cursor, until, offset, page, last, latest, todo, target, copy>>
  BY DEF Released, paging
<1>2. /\ \A v : (Settled(v) => Settled(v)') /\ (Fresh(v)' <=> Fresh(v)) /\ Rank(v)' = Rank(v)
      /\ Listed' = Listed /\ OnPage' = OnPage /\ DatesDiffer' /\ BehindIsSettled'
  BY <1>1, <1>i, StillFacts DEF outside
<1>3. ASSUME NEW v \in OnPage, Fresh(v) PROVE Settled(v)
  <2>1. page[v] = mercury[v] /\ page[v].home \in kept /\ v \in uuids
    BY <1>1, <1>3, <1>i DEF Fresh, PageProgress, UuidsAreKept
  <2>2. ASSUME NEW d \in Docs PROVE Shows(db[d], d, v)
    <3>1. CASE d \in kept
      BY <1>3, <1>i, <2>1, <3>1 DEF PageStored, Shows
    <3>2. CASE d \notin kept
      BY <1>1, <1>i, <2>1, <3>2 DEF PageProgress, Shows
    <3> QED
      BY <3>1, <3>2
  <2>3. target = NoDoc
    BY <1>1, <1>i DEF CopyHasItsMembers
  <2> QED
    BY <2>2, <2>3 DEF Settled
<1>4. PageProgress'
  BY <1>1, <1>2, <1>3 DEF PageProgress, Reading
<1>5. WindowHolds' /\ CopyHasItsMembers' /\ ListIsCovered'
  BY <1>1, <1>2, <1>i DEF WindowHolds, CopyHasItsMembers, ListIsCovered, outside, Reading, Resting
<1>6. PageStored' /\ UuidsAreKept'
  BY <1>1 DEF PageStored, UuidsAreKept, Reading
<1> QED
  BY <1>2, <1>4, <1>5, <1>6 DEF CursorInv

LEMMA TurnKeepsCursor ==
  ASSUME TypeOK, CursorInv, TurnPage
  PROVE  CursorInv'
<1>i. DatesDiffer /\ WindowHolds /\ CopyHasItsMembers /\ PageProgress /\ ListIsCovered /\ BehindIsSettled
  BY DEF CursorInv
<1>t. /\ offset \in Nat /\ PageSize \in Nat /\ PageSize > 0 /\ until \in Nat
  BY CursorTypes
<1>1. /\ step = "turn" /\ page' = Unlisted
      /\ UNCHANGED <<outside, db, cursor, until, todo, target, copy, kept, uuids>>
      /\ latest' \in {latest} \cup {page[v].at : v \in OnPage}
      /\ \/ last /\ step' = "shift" /\ offset' = offset
         \/ ~last /\ step' = "page" /\ offset' = offset + PageSize
  BY DEF TurnPage, visiting, TypeOK
<1>2. OnPage' = {}
  BY <1>1 DEF OnPage, Unlisted
<1>3. Listed' = Listed /\ (\A v : Rank(v)' = Rank(v)) /\ (\A v : Settled(v)' <=> Settled(v))
  <2>1. Listed' = Listed
    BY <1>1 DEF Listed, outside
  <2> QED
    BY <1>1, <2>1 DEF Rank, Settled, Shows, outside
<1>4. DatesDiffer' /\ BehindIsSettled'
  BY <1>1, <1>3, <1>i DEF DatesDiffer, BehindIsSettled, Behind, outside
<1>5. latest' <= until
  BY <1>1, <1>i DEF WindowHolds, Resting
<1>6. WindowHolds'
  <2>1. offset' = 0 \/ offset' >= PageSize
    BY <1>1, <1>i, <1>t DEF WindowHolds
  <2>2. step' \in {"shift", "page"}
    BY <1>1
  <2>3. cursor <= until /\ until <= now
    BY <1>1, <1>i DEF WindowHolds, Resting
  <2> QED
    BY <1>1, <1>2, <1>5, <2>1, <2>2, <2>3 DEF WindowHolds, Reading, Resting, outside
<1>7. ListIsCovered'
  <2>1. ASSUME NEW v \in Listed \ Foreign, last \/ Rank(v) < offset + PageSize PROVE Settled(v)
    <3>1. Settled(v) \/ Fresh(v)
      BY <1>1, <1>i, <2>1 DEF ListIsCovered, Reading
    <3> QED
      BY <1>1, <1>i, <3>1 DEF PageProgress, Fresh
  <2> QED
    BY <1>1, <1>3, <2>1 DEF ListIsCovered, Reading
<1>8. kept' = {} /\ uuids' = {}
  BY <1>1, <1>i DEF PageProgress, Reading
<1>9. CopyHasItsMembers' /\ PageStored' /\ UuidsAreKept' /\ PageProgress'
  BY <1>1, <1>2, <1>8, <1>i DEF CopyHasItsMembers, PageStored, UuidsAreKept, PageProgress, Reading
<1> QED
  BY <1>4, <1>6, <1>7, <1>9 DEF CursorInv

\* The cursor goes no further than the window, and all of that is settled.
LEMMA ShiftKeepsCursor ==
  ASSUME TypeOK, CursorInv, ShiftCursor
  PROVE  CursorInv'
<1>i. DatesDiffer /\ WindowHolds /\ ListIsCovered /\ BehindIsSettled
  BY DEF CursorInv
<1>t. /\ now \in Nat /\ cursor \in Nat /\ until \in Nat /\ latest \in Nat
      /\ \A v \in Vsds : mercury[v].at \in Nat
  BY CursorTypes
<1>1. step = "shift" /\ Halt /\ UNCHANGED <<outside, db>> /\ cursor' \in {NextFrom, cursor}
  BY DEF ShiftCursor
<1>2. cursor <= until /\ until <= now /\ latest <= until
  BY <1>1, <1>i DEF WindowHolds, Resting
<1>3. cursor' \in Nat /\ cursor' <= until
  BY <1>1, <1>2, <1>t DEF NextFrom
<1>4. ASSUME NEW v \in Vsds, Behind(v)' PROVE Settled(v)'
  <2>1. v \notin Foreign /\ mercury[v].at \in 1 .. until /\ mercury[v].at \in Nat
    BY <1>1, <1>3, <1>4, <1>t DEF Behind, outside
  <2>2. Settled(v)
    <3>1. CASE mercury[v].at < cursor
      BY <1>i, <1>t, <2>1, <3>1 DEF BehindIsSettled, Behind
    <3>2. CASE ~(mercury[v].at < cursor)
      <4>1. v \in Listed
        BY <1>t, <2>1, <3>2 DEF Listed
      <4> QED
        BY <1>1, <1>i, <2>1, <4>1 DEF ListIsCovered
    <3> QED
      BY <3>1, <3>2
  <2> QED
    BY <1>1, <2>2, SameSettled DEF Halt, outside
<1>5. DatesDiffer' /\ BehindIsSettled'
  BY <1>1, <1>2, <1>3, <1>4, <1>i, <1>t DEF DatesDiffer, BehindIsSettled, outside
<1> QED
  BY <1>1, <1>5, HaltFacts, RestKeeps

LEMMA CursorInit ==
  ASSUME Init
  PROVE  CursorInv
<1>1. OnPage = {}
  BY DEF Init, OnPage, Unlisted
<1>2. DatesDiffer
  BY DEF Init, DatesDiffer
<1>3. BehindIsSettled
  BY DEF Init, BehindIsSettled, Behind
<1> QED
  BY <1>1, <1>2, <1>3 DEF Init, CursorInv, WindowHolds, CopyHasItsMembers, PageStored, UuidsAreKept,
    PageProgress, ListIsCovered, Resting, Reading

\* Neither Mercury nor the journal changes, and the worker does nothing.
LEMMA QuietKeepsCursor ==
  ASSUME CursorInv, UNCHANGED <<mercury, now, db, cursor, worker>>
  PROVE  CursorInv'
<1>1. UNCHANGED <<mercury, now, db, cursor, until, offset, page, last, latest, step, todo, target, copy, kept, uuids>>
  BY DEF worker, paging, visiting
<1>2. /\ \A v : (Settled(v) => Settled(v)') /\ (Fresh(v)' <=> Fresh(v)) /\ Rank(v)' = Rank(v)
      /\ Listed' = Listed /\ OnPage' = OnPage /\ DatesDiffer' /\ BehindIsSettled'
  BY <1>1, StillFacts DEF CursorInv
<1> QED
  BY <1>1, <1>2 DEF CursorInv, WindowHolds, CopyHasItsMembers, Members, PageStored, UuidsAreKept,
    PageProgress, ListIsCovered

\* A command stores "UTILIZED" in an entry that is there, of a VSD Mercury would
\* no longer quench: what was settled is settled, what is released stays so.
LEMMA StoreKeepsCursor ==
  ASSUME VetisInv, CursorInv, NEW d \in Docs, NEW v \in Vsds, Quenchers # {},
         mercury[v].status # "CONFIRMED", db[d][v] # "none",
         db' = [db EXCEPT ![d] = [db[d] EXCEPT ![v] = "UTILIZED"]],
         UNCHANGED <<outside, cursor, worker>>
  PROVE  CursorInv'
<1>i. DatesDiffer /\ WindowHolds /\ CopyHasItsMembers /\ PageStored /\ UuidsAreKept /\ PageProgress
      /\ ListIsCovered /\ BehindIsSettled
  BY DEF CursorInv
<1>t. /\ db \in [Docs -> [Vsds -> Status \cup {"none"}]]
      /\ OnPage \subseteq Vsds /\ kept \subseteq Docs /\ todo \subseteq Docs /\ uuids \subseteq Vsds
      /\ mercury[v].status \in Status
  BY CursorTypes DEF VetisInv
<1>1. UNCHANGED <<mercury, now, cursor, until, offset, page, last, latest, step, todo, target, copy, kept, uuids>>
  BY DEF outside, worker, paging, visiting
<1>2. \A e \in Docs, u \in Vsds : db'[e][u] = IF e = d /\ u = v THEN "UTILIZED" ELSE db[e][u]
  BY <1>t
<1>3. \A e \in Docs, u \in Vsds : db'[e][u] = "none" <=> db[e][u] = "none"
  BY <1>2
<1>4. Agrees("UTILIZED", mercury[v].status)
  BY <1>t DEF Agrees, Status
<1>5. ASSUME NEW u \in Vsds, Settled(u) PROVE Settled(u)'
  <2>1. \A e \in Docs : Shows(db'[e], e, u)
    BY <1>2, <1>4, <1>5 DEF Settled, Shows
  <2> QED
    BY <1>1, <1>5, <2>1 DEF Settled, Shows
<1>6. /\ Listed' = Listed /\ OnPage' = OnPage
      /\ \A u : (Fresh(u)' <=> Fresh(u)) /\ Rank(u)' = Rank(u)
  <2>1. Listed' = Listed /\ OnPage' = OnPage
    BY <1>1 DEF Listed, OnPage
  <2> QED
    BY <1>1, <2>1 DEF Fresh, Rank
<1>7. DatesDiffer' /\ WindowHolds' /\ BehindIsSettled'
  BY <1>1, <1>5, <1>6, <1>i DEF DatesDiffer, WindowHolds, BehindIsSettled, Behind
<1>8. CopyHasItsMembers'
  <2>1. step \in {"sweepSave", "save", "drop"} => target \in Docs
    BY <1>i, <1>t DEF CopyHasItsMembers
  <2>2. \A e \in Docs : Members(db'[e]) = Members(db[e])
    BY <1>3 DEF Members
  <2> QED
    BY <1>1, <1>i, <2>1, <2>2 DEF CopyHasItsMembers, Members
<1>9. PageStored'
  <2> SUFFICES ASSUME NEW u \in OnPage, NEW e \in kept
               PROVE  IF e = page[u].home THEN Fresh(u) => Agrees(db'[e][u], page[u].status)
                      ELSE db'[e][u] = "none"
    BY <1>1, <1>6 DEF PageStored
  <2>1. CASE e = page[u].home
    BY <1>2, <1>4, <1>i, <1>t, <2>1 DEF PageStored, Fresh
  <2>2. CASE e # page[u].home
    BY <1>3, <1>i, <1>t, <2>2 DEF PageStored
  <2> QED
    BY <2>1, <2>2
<1>10. UuidsAreKept'
  BY <1>1, <1>3, <1>6, <1>i, <1>t DEF UuidsAreKept
<1>11. PageProgress'
  BY <1>1, <1>3, <1>5, <1>6, <1>i, <1>t DEF PageProgress
<1>12. ListIsCovered'
  <2>1. \A u \in Listed : u \in Vsds
    BY DEF Listed
  <2> QED
    BY <1>1, <1>5, <1>6, <1>i, <2>1 DEF ListIsCovered
<1> QED
  BY <1>7, <1>8, <1>9, <1>10, <1>11, <1>12 DEF CursorInv

\* Processing an application is a change of Mercury, or none.
LEMMA QuenchKeepsCursor ==
  ASSUME TypeOK, CursorInv, NEW v \in Vsds, Quench(v), UNCHANGED <<db, cursor, worker>>, ListStandsStill
  PROVE  CursorInv'
<1>1. CASE mercury[v].status = "CONFIRMED"
  <2>1. [mercury[v] EXCEPT !.status = "UTILIZED"] \in Version
    BY DEF TypeOK, Version, Status
  <2>2. Change(v, [mercury[v] EXCEPT !.status = "UTILIZED"])
    BY <1>1 DEF Quench
  <2> QED
    BY <2>1, <2>2, ChangeKeepsCursor
<1>2. CASE mercury[v].status # "CONFIRMED"
  BY <1>2, QuietKeepsCursor DEF Quench
<1> QED
  BY <1>1, <1>2

LEMMA ElsewhereKeepsCursor ==
  ASSUME TypeOK, CursorInv, NEW v \in Vsds, Elsewhere(v), ListStandsStill
  PROVE  CursorInv'
<1>1. mercury[v] \in Version
  BY DEF TypeOK
<1>2. \A d \in Docs : [mercury[v] EXCEPT !.home = d] \in Version
  BY <1>1 DEF Version
<1>3. \A s \in {"UTILIZED", "WITHDRAWN"} : [mercury[v] EXCEPT !.status = s] \in Version
  BY <1>1 DEF Version, Status
<1>4. PICK version \in Version : Change(v, version)
  BY <1>1, <1>2, <1>3 DEF Elsewhere
<1>5. UNCHANGED <<db, cursor, worker>>
  BY DEF Elsewhere
<1> QED
  BY <1>4, <1>5, ChangeKeepsCursor

LEMMA CommandKeepsCursor ==
  ASSUME VetisInv, StoringHasEntry, CursorInv, NEW q \in Quenchers, CommandNext(q),
         SaveIsFresh, ListStandsStill
  PROVE  CursorInv'
<1>1. CASE StoreSave(q) \/ SaveErrors(q)
  <2>1. UNCHANGED <<outside, cursor, worker>> /\ doc[q] \in Docs
    BY <1>1, FreshKeepsMembers
  <2>2. CASE SaveErrors(q)
    BY <2>1, <2>2, FreshKeepsMembers, QuietKeepsCursor DEF outside
  <2>3. CASE StoreSave(q)
    <3>1. /\ vsd[q] \in Vsds /\ mercury[vsd[q]].status # "CONFIRMED" /\ db[doc[q]][vsd[q]] # "none"
          /\ db' = [db EXCEPT ![doc[q]] = [db[doc[q]] EXCEPT ![vsd[q]] = "UTILIZED"]]
      BY <2>3, FreshKeepsMembers
    <3> QED
      BY <2>1, <3>1, StoreKeepsCursor
  <2> QED
    BY <1>1, <2>2, <2>3
<1>2. CASE Quench(vsd[q]) /\ stage[q] = "sent" /\ UNCHANGED <<db, cursor, worker>>
  BY <1>2, QuenchKeepsCursor DEF VetisInv, AnswersHaveLeft
<1>3. CASE UNCHANGED <<mercury, now, db, cursor, worker>>
  BY <1>3, QuietKeepsCursor
<1> QED
  BY <1>1, <1>2, <1>3, CommandIsQuiet

LEMMA CursorPreserved ==
  ASSUME VetisInv, StoringHasEntry, CursorInv, TypeOK', [Next]_vars,
         [SaveIsFresh]_vars, [ListStandsStill]_vars
  PROVE  CursorInv'
<1>t. TypeOK
  BY DEF VetisInv
<1>1. ASSUME NEW v \in Vsds, Elsewhere(v), ListStandsStill PROVE CursorInv'
  BY <1>1, <1>t, ElsewhereKeepsCursor
<1>2. ASSUME NEW v \in Vsds, ProcessLate(v), ListStandsStill PROVE CursorInv'
  BY <1>2, <1>t, QuenchKeepsCursor DEF ProcessLate
<1>3. CASE Load
  BY <1>3, <1>t, RoundStarts, PageIsRead, FindKeepsCursor, SaveKeepsCursor, DropKeepsCursor,
     ReleaseSettles, TurnKeepsCursor, ShiftKeepsCursor DEF Load
<1>4. CASE Sweep \/ WorkerFails
  BY <1>4, <1>t, RestingSteps
<1>5. CASE Restart
  <2>1. Halt /\ UNCHANGED <<mercury, now, db, cursor>>
    BY <1>5 DEF Restart
  <2>2. DatesDiffer' /\ BehindIsSettled'
    BY <2>1, SameSettled DEF CursorInv, DatesDiffer, Halt
  <2> QED
    BY <2>1, <2>2, HaltFacts, RestKeeps
<1>6. ASSUME NEW q \in Quenchers, CommandNext(q), SaveIsFresh, ListStandsStill PROVE CursorInv'
  BY <1>6, CommandKeepsCursor
<1>7. CASE UNCHANGED vars
  BY <1>7, QuietKeepsCursor DEF vars, outside
<1> QED
  BY <1>1, <1>2, <1>3, <1>4, <1>5, <1>6, <1>7 DEF Next

\* What the cursor has passed is in the record of its waybill and in no other,
\* for any number of VSDs, records and quench commands, any page size, failures
\* and restarts anywhere: unless a command saves a stale copy, or Mercury changes
\* while a list of several pages is read.
THEOREM CursorPassesOverNothing ==
  Spec /\ SavesAreFresh /\ MercuryStandsStill => []CursorInv
<1>1. Init => CursorInv
  BY CursorInit
<1>2. VetisInv /\ StoringHasEntry /\ CursorInv /\ TypeOK' /\ [Next]_vars
      /\ [SaveIsFresh]_vars /\ [ListStandsStill]_vars => CursorInv'
  BY CursorPreserved
<1> QED
  BY <1>1, <1>2, IncomingTyped, CopiesAreHonest, AnswersHaveEntries, PTL
  DEF Spec, SavesAreFresh, MercuryStandsStill

LEMMA BehindIsInItsRecord ==
  ASSUME TypeOK, CursorInv
  PROVE  /\ LoadedBehindCursor /\ OneRecord
         /\ Quenchers = {} => NothingLostBehindCursor
<1>1. ASSUME NEW v \in Vsds, Behind(v)
      PROVE  /\ Agrees(db[mercury[v].home][v], mercury[v].status)
             /\ \A d \in Docs \ {mercury[v].home} : db[d][v] = "none"
  <2>1. Settled(v) /\ mercury[v].home \in Docs
    BY <1>1, CursorTypes DEF CursorInv, BehindIsSettled
  <2> QED
    BY <2>1 DEF Settled, Shows
<1>2. LoadedBehindCursor /\ OneRecord
  BY <1>1 DEF LoadedBehindCursor, OneRecord
<1>3. Quenchers = {} => NothingLostBehindCursor
  BY <1>1 DEF NothingLostBehindCursor, Agrees
<1> QED
  BY <1>2, <1>3

\* No change is lost behind the cursor of an enterprise, quench commands running:
\* a stale save and a moving list are the only ways to lose one.
THEOREM OnlyStaleSavesLose ==
  Spec /\ SavesAreFresh /\ MercuryStandsStill => []LoadedBehindCursor
<1>1. TypeOK /\ CursorInv => LoadedBehindCursor
  BY BehindIsInItsRecord
<1> QED
  BY <1>1, CursorPassesOverNothing, IncomingTyped, PTL

\* A VSD behind the cursor is in one record, quench commands running:
\* VetisIncomingRelease and Drop leave it in no former one.
THEOREM OnlyStaleSavesDouble ==
  Spec /\ SavesAreFresh /\ MercuryStandsStill => []OneRecord
<1>1. TypeOK /\ CursorInv => OneRecord
  BY BehindIsInItsRecord
<1> QED
  BY <1>1, CursorPassesOverNothing, IncomingTyped, PTL

-----------------------------------------------------------------------------
(* Without quench commands nothing is saved but by the worker, and         *)
(* QuietRounds says that Mercury stands still.                             *)

LEMMA NobodyIsLate ==
  ASSUME Quenchers = {}
  PROVE  Spec => [](late = {})
<1>1. Init => late = {}
  BY DEF Init
<1>2. late = {} /\ [Next]_vars => (late = {})'
  BY DEF Next, vars, outside, Elsewhere, ProcessLate, WorkerFails, Sweep, SweepList, SweepFind,
     SweepSave, StoredButFails, SweepDone, Load, StartRound, ReadPage, FindTarget, FindOther,
     SaveTarget, ListIds, DropFromOther, Released, TurnPage, ShiftCursor, Restart
<1> QED
  BY <1>1, <1>2, PTL DEF Spec

LEMMA QuietRoundsStandStill ==
  ASSUME Quenchers = {}, QuietRounds = TRUE
  PROVE  Spec => MercuryStandsStill
<1>1. ASSUME late = {}, [Next]_vars, mercury' # mercury
      PROVE  step \in Resting \/ Cardinality(Listed) <= PageSize
  <2>1. \E v \in Vsds : Elsewhere(v)
    BY <1>1 DEF Next, vars, outside, ProcessLate, WorkerFails, Sweep, SweepList, SweepFind,
       SweepSave, StoredButFails, SweepDone, Load, StartRound, ReadPage, FindTarget, FindOther,
       SaveTarget, ListIds, DropFromOther, Released, TurnPage, ShiftCursor, Restart
  <2> QED
    BY <2>1 DEF Elsewhere, Resting
<1>2. late = {} /\ [Next]_vars => [ListStandsStill]_vars
  BY <1>1 DEF ListStandsStill
<1> QED
  BY <1>2, NobodyIsLate, PTL DEF Spec, MercuryStandsStill

\* Without quench commands the journal says of a change behind the cursor exactly
\* what Mercury says.
THEOREM NoChangeIsLost ==
  ASSUME Quenchers = {}, QuietRounds = TRUE
  PROVE  Spec => []NothingLostBehindCursor
<1>1. TypeOK /\ CursorInv => NothingLostBehindCursor
  BY BehindIsInItsRecord
<1> QED
  BY <1>1, CursorPassesOverNothing, NoCommandNoStaleSave, QuietRoundsStandStill, IncomingTyped, PTL

\* Without quench commands a VSD behind the cursor is in one record.
THEOREM VsdHasOneRecord ==
  ASSUME Quenchers = {}, QuietRounds = TRUE
  PROVE  Spec => []OneRecord
  BY OnlyStaleSavesDouble, NoCommandNoStaleSave, QuietRoundsStandStill, PTL

-----------------------------------------------------------------------------
(* The cursor moves forward                                                *)

\* Steps that do not touch the window.
LEMMA SameWindow ==
  ASSUME TypeOK, WindowIsAhead, now' \in {now, now + 1}, UNCHANGED <<cursor, until, page, latest>>,
         step' \in Resting <=> step \in Resting
  PROVE  WindowIsAhead' /\ cursor' = cursor
<1>1. now \in Nat /\ cursor \in Nat /\ until \in Nat /\ latest \in Nat /\ OnPage' = OnPage
  BY CursorTypes DEF OnPage
<1> QED
  BY <1>1 DEF WindowIsAhead

\* A round that ends leaves no window.
LEMMA HaltWindow ==
  ASSUME Halt, cursor' <= now'
  PROVE  WindowIsAhead'
  BY HaltFacts DEF WindowIsAhead, Halt

LEMMA OutsideWindow ==
  ASSUME TypeOK, WindowIsAhead,
         \/ \E v \in Vsds : Elsewhere(v) \/ ProcessLate(v)
         \/ \E q \in Quenchers : CommandNext(q)
  PROVE  WindowIsAhead' /\ cursor' = cursor
<1>q. ASSUME NEW v, Quench(v) PROVE now' \in {now, now + 1}
  BY <1>q DEF Quench, Change
<1>1. ASSUME NEW v \in Vsds, Elsewhere(v) \/ ProcessLate(v)
      PROVE  UNCHANGED <<cursor, worker>> /\ now' \in {now, now + 1}
  <2>1. CASE Elsewhere(v)
    <3>1. UNCHANGED <<cursor, worker>> /\ \E version : Change(v, version)
      BY <2>1 DEF Elsewhere
    <3> QED
      BY <3>1 DEF Change
  <2>2. CASE ProcessLate(v)
    BY <1>q, <2>2 DEF ProcessLate
  <2> QED
    BY <1>1, <2>1, <2>2
<1>2. ASSUME NEW q \in Quenchers, CommandNext(q)
      PROVE  UNCHANGED <<cursor, worker>> /\ now' \in {now, now + 1}
  BY <1>q, <1>2, CommandIsQuiet DEF StoreSave, SaveErrors, outside
<1> QED
  BY <1>1, <1>2, SameWindow DEF worker, paging

LEMMA RoundWindow ==
  ASSUME TypeOK, WindowIsAhead, StartRound \/ ReadPage \/ TurnPage
  PROVE  WindowIsAhead' /\ cursor' = cursor
<1>t. now \in Nat /\ cursor \in Nat /\ until \in Nat /\ latest \in Nat
      /\ \A v \in OnPage : page[v].at \in Nat
  BY CursorTypes
<1>1. CASE StartRound
  <2>1. step \in Resting /\ step' = "page" /\ until' = now /\ UNCHANGED <<now, cursor, page, latest>>
    BY <1>1 DEF StartRound, Resting, outside
  <2>2. OnPage' = {} /\ latest' = 0
    BY <2>1 DEF WindowIsAhead, OnPage
  <2> QED
    BY <1>t, <2>1, <2>2 DEF WindowIsAhead, Resting
<1>2. CASE ReadPage
  <2>1. step \notin Resting /\ step' \notin Resting /\ UNCHANGED <<now, cursor, until, latest>>
    BY <1>2 DEF ReadPage, Resting, outside
  <2>2. \A v \in OnPage' : page'[v].at \in cursor .. until
    <3>1. ASSUME NEW v \in Vsds, page'[v] # NoVsd PROVE v \in Listed /\ page'[v] = mercury[v]
      BY <1>2, <3>1 DEF ReadPage, Shown
    <3> QED
      BY <3>1 DEF OnPage, Listed
  <2> QED
    BY <2>1, <2>2 DEF WindowIsAhead
<1>3. CASE TurnPage
  <2>1. step \notin Resting /\ step' \notin Resting /\ UNCHANGED <<now, cursor, until>> /\ OnPage' = {}
    BY <1>3 DEF TurnPage, Resting, outside, OnPage, Unlisted
  <2>2. latest' \in {latest} \cup {page[v].at : v \in OnPage}
    BY <1>3 DEF TurnPage
  <2>3. latest' # 0 => latest' \in cursor .. until
    BY <2>2 DEF WindowIsAhead
  <2> QED
    BY <2>1, <2>3 DEF WindowIsAhead
<1> QED
  BY <1>1, <1>2, <1>3

\* The steps inside a sweep or a page, and those that end the round.
LEMMA RecordWindow ==
  ASSUME TypeOK, WindowIsAhead,
         \/ Sweep \/ WorkerFails \/ Restart
         \/ \E d \in Docs : FindTarget(d) \/ FindOther(d)
         \/ SaveTarget \/ ListIds \/ DropFromOther \/ Released
  PROVE  WindowIsAhead' /\ cursor' = cursor
<1>t. cursor <= now
  BY DEF WindowIsAhead
<1>1. UNCHANGED <<now, cursor>>
  BY DEF Sweep, SweepList, SweepFind, SweepSave, SweepDone, WorkerFails, Restart, FindTarget, FindOther,
     SaveTarget, ListIds, DropFromOther, Released, StoredButFails, outside
<1>2. \/ Halt
      \/ UNCHANGED <<until, page, latest>> /\ (step' \in Resting <=> step \in Resting)
  <2>1. CASE Sweep
    BY <2>1 DEF Sweep, SweepList, SweepFind, SweepSave, SweepDone, StoredButFails, Visit, Resting, paging
  <2>2. CASE WorkerFails \/ Restart
    BY <2>2 DEF WorkerFails, Restart
  <2>3. CASE ListIds \/ Released \/ \E d \in Docs : FindTarget(d) \/ FindOther(d)
    BY <2>3 DEF FindTarget, FindOther, ListIds, Released, Resting, paging
  <2>4. CASE SaveTarget \/ DropFromOther
    BY <2>4 DEF SaveTarget, DropFromOther, StoredButFails, Visit, Resting, paging
  <2> QED
    BY <2>1, <2>2, <2>3, <2>4
<1> QED
  BY <1>t, <1>1, <1>2, SameWindow, HaltWindow

LEMMA ShiftWindow ==
  ASSUME TypeOK, WindowIsAhead, ShiftCursor
  PROVE  WindowIsAhead' /\ cursor' >= cursor
<1>t. now \in Nat /\ cursor \in Nat /\ until \in Nat /\ latest \in Nat
  BY CursorTypes
<1>1. NextFrom \in cursor .. now
  <2>1. until \in cursor .. now /\ (latest # 0 => latest \in cursor .. until)
    BY DEF ShiftCursor, WindowIsAhead, Resting
  <2> QED
    BY <1>t, <2>1 DEF NextFrom
<1>2. Halt /\ now' = now /\ cursor' \in {NextFrom, cursor}
  BY DEF ShiftCursor, outside
<1> QED
  BY <1>t, <1>1, <1>2, HaltWindow DEF WindowIsAhead

\* The cursor of an enterprise never moves back: whatever pages are read, fail
\* or are repeated, VetisIncomingLoadService saves no earlier date than it read.
THEOREM CursorGoesForward == Spec => CursorMovesForward
<1>1. Init => WindowIsAhead
  BY DEF Init, WindowIsAhead, OnPage, Unlisted, Resting, VetisAssumption
<1>2. TypeOK /\ WindowIsAhead /\ [Next]_vars => WindowIsAhead' /\ cursor' >= cursor
  <2> SUFFICES ASSUME TypeOK, WindowIsAhead, [Next]_vars PROVE WindowIsAhead' /\ cursor' >= cursor
    OBVIOUS
  <2>1. cursor \in Nat
    BY CursorTypes
  <2>2. CASE UNCHANGED vars
    BY <2>1, <2>2, CursorTypes, SameWindow DEF vars, outside, worker, paging
  <2> QED
    BY <2>1, <2>2, OutsideWindow, RoundWindow, RecordWindow, ShiftWindow DEF Next, Load
<1> QED
  BY <1>1, <1>2, IncomingTyped, PTL DEF Spec, CursorMovesForward
=============================================================================
