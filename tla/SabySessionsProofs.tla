-------------------------- MODULE SabySessionsProofs --------------------------
(***************************************************************************)
(* Proofs about the shared session of the operator: whatever the order of  *)
(* reads, logins and refusals, the slot never goes back to an old session, *)
(* no login is made beside a stored session, and a retry uses another one; *)
(* the queue of the gate holds each waiting command once.                  *)
(***************************************************************************)
EXTENDS SabySessions, Integers, TLAPS

LEMMA StepKeepsTypes ==
  ASSUME SessionsTyped, NEW c \in Callers, Begin(c) \/ Running(c) \/ CancelWait(c)
  PROVE  SessionsTyped'
<1> USE SessionsAssumption DEF SessionsTyped, Session, Step, Held, Goto, gate, server
<1>1. CASE Begin(c)
  BY <1>1 DEF Begin
<1>2. CASE CancelWait(c)
  BY <1>2 DEF CancelWait, Finish
<1>3. CASE Peek(c) \/ TakePeeked(c) \/ Wait(c)
  BY <1>3 DEF Peek, TakePeeked, Wait
<1>4. CASE Enter(c) \/ PeekHeld(c) \/ TakeHeld(c)
  BY <1>4 DEF Enter, PeekHeld, TakeHeld
<1>5. CASE Login(c)
  BY <1>5 DEF Login
<1>6. CASE Issue(c)
  BY <1>6 DEF Issue
<1>7. CASE Store(c)
  BY <1>7 DEF Store
<1>8. CASE LoginFails(c)
  BY <1>8 DEF LoginFails, Finish
<1>9. CASE Invalidate(c)
  BY <1>9 DEF Invalidate
<1>10. CASE Send(c)
  BY <1>10 DEF Send, Finish
<1>11. CASE SendRefused(c)
  BY <1>11 DEF SendRefused
<1>12. QED
  BY <1>1, <1>2, <1>3, <1>4, <1>5, <1>6, <1>7, <1>8, <1>9, <1>10, <1>11 DEF Running

\* The parts of the invariant a step of a command can disturb.
SessionParts ==
  /\ GateIsExclusive
  /\ SlotIsNewest
  /\ LoginsAreDue
  /\ NewSessionIsPrivate
  /\ SessionsAreIssued
  /\ RefusedStaysOut
  /\ RetryIsFresh

LEMMA StepKeepsSessions ==
  ASSUME SessionInv, NEW c \in Callers, Begin(c) \/ Running(c) \/ CancelWait(c)
  PROVE  SessionParts'
<1> USE SessionsAssumption
    DEF SessionInv, SessionParts, SessionsTyped, Session, Held, GateIsExclusive, SlotIsNewest,
        LoginsAreDue, NewSessionIsPrivate, SessionsAreIssued, RefusedStaysOut,
        RetryIsFresh, Goto, gate, server
<1>1. CASE Begin(c)
  BY <1>1 DEF Begin
<1>2. CASE CancelWait(c)
  BY <1>2 DEF CancelWait, Finish
<1>3. CASE Peek(c)
  BY <1>3 DEF Peek
<1>4. CASE TakePeeked(c)
  BY <1>4 DEF TakePeeked
<1>5. CASE Wait(c)
  BY <1>5 DEF Wait
<1>6. CASE Enter(c)
  BY <1>6 DEF Enter
<1>7. CASE PeekHeld(c)
  BY <1>7 DEF PeekHeld
<1>8. CASE TakeHeld(c)
  BY <1>8 DEF TakeHeld
<1>9. CASE Login(c)
  BY <1>9 DEF Login
<1>10. CASE LoginFails(c)
  BY <1>10 DEF LoginFails, Finish
<1>11. CASE Issue(c)
  BY <1>11 DEF Issue
<1>12. CASE Store(c)
  BY <1>12 DEF Store
<1>13. CASE Send(c)
  BY <1>13 DEF Send, Finish
<1>14. CASE SendRefused(c)
  BY <1>14 DEF SendRefused
<1>15. CASE Invalidate(c)
  BY <1>15 DEF Invalidate
<1>16. QED
  BY <1>1, <1>2, <1>3, <1>4, <1>5, <1>6, <1>7, <1>8, <1>9, <1>10, <1>11, <1>12, <1>13,
     <1>14, <1>15 DEF Running

LEMMA SessionInvInductive == SessionInv /\ [Next]_vars => SessionInv'
<1> SUFFICES ASSUME SessionInv, [Next]_vars PROVE SessionInv'
  OBVIOUS
<1>1. ASSUME NEW c \in Callers, Begin(c) \/ Running(c) \/ CancelWait(c) PROVE SessionInv'
  BY <1>1, StepKeepsTypes, StepKeepsSessions DEF SessionInv, SessionParts
<1>2. ASSUME NEW s \in live, Expire(s) PROVE SessionInv'
  <2>1. SessionsTyped'
    BY <1>2 DEF Expire, SessionInv, SessionsTyped
  <2>2. UNCHANGED <<slot, holder, pc, mine, refused, second, issued>>
    BY <1>2 DEF Expire, gate
  <2>3. QED
    BY <2>1, <2>2 DEF SessionInv, GateIsExclusive, SlotIsNewest, LoginsAreDue,
       NewSessionIsPrivate, SessionsAreIssued, RefusedStaysOut, RetryIsFresh
<1>3. CASE UNCHANGED vars
  BY <1>3 DEF vars, gate, server, SessionInv, SessionsTyped, GateIsExclusive, SlotIsNewest,
     LoginsAreDue, NewSessionIsPrivate, SessionsAreIssued, RefusedStaysOut, RetryIsFresh
<1>4. QED
  BY <1>1, <1>2, <1>3 DEF Next

LEMMA SessionInvInit == Init => SessionInv
  BY SessionsAssumption
  DEF Init, SessionInv, SessionsTyped, Session, Step, Held, GateIsExclusive, SlotIsNewest,
      LoginsAreDue, NewSessionIsPrivate, SessionsAreIssued, RefusedStaysOut, RetryIsFresh

THEOREM SessionInvHolds == Spec => []SessionInv
  BY SessionInvInit, SessionInvInductive, PTL DEF Spec

\* SabySessionStore never stores an older session over a newer one, however
\* many commands share the slot.
THEOREM SlotGoesForward == Spec => []SlotIsNewest
<1>1. SessionInv => SlotIsNewest
  BY DEF SessionInv
<1>2. QED
  BY <1>1, SessionInvHolds, PTL

\* GetAsync logs in only while the slot is empty: commands that waited for the
\* gate find the session of the first one.
THEOREM NoLoginBesideSession == Spec => []LoginsAreDue
<1>1. SessionInv => LoginsAreDue
  BY DEF SessionInv
<1>2. QED
  BY <1>1, SessionInvHolds, PTL

\* The retry of SendWithSessionAsync never repeats the refused session.
THEOREM RetriesAreFresh == Spec => []RetryIsFresh
<1>1. SessionInv => RetryIsFresh
  BY DEF SessionInv
<1>2. QED
  BY <1>1, SessionInvHolds, PTL

-----------------------------------------------------------------------------
(* The queue of the gate: who is let in leaves it, and nobody queues twice. *)

QueueInv == QueueTyped /\ HolderIsInside

\* Leaving the queue from its head.
LEMMA ReleaseKeepsOrder ==
  ASSUME QueueTyped, NEW c \in Callers, pc[c] \in Held, holder = c, Release,
         NEW step, Goto(c, step), pc \in [Callers -> Step]
  PROVE  QueueInv'
<1>1. CASE waiting = <<>>
  BY <1>1, SessionsAssumption DEF Release, QueueInv, QueueTyped, HolderIsInside, IsInjective
<1>2. CASE waiting # <<>>
  <2>1. /\ waiting \in Seq(Callers) /\ Len(waiting) \in Nat /\ Len(waiting) > 0
        /\ Tail(waiting) \in Seq(Callers)
        /\ Len(Tail(waiting)) = Len(waiting) - 1
        /\ \A i \in 1 .. Len(waiting) - 1 : Tail(waiting)[i] = waiting[i + 1]
        /\ Head(waiting) = waiting[1] /\ Head(waiting) \in Callers
    BY <1>2 DEF QueueTyped
  <2>2. \A i, j \in 1 .. Len(waiting) : waiting[i] = waiting[j] => i = j
    BY <2>1 DEF QueueTyped, IsInjective
  <2>3. \A i \in 1 .. Len(waiting) : waiting[i] \in Callers /\ pc[waiting[i]] = "queued" /\ waiting[i] # c
    BY <2>1 DEF QueueTyped, Held
  <2>4. \A i \in 1 .. Len(waiting) : pc'[waiting[i]] = "queued"
    BY <2>3 DEF Goto
  <2>5. waiting' = Tail(waiting) /\ holder' = waiting[1]
    BY <1>2, <2>1 DEF Release
  <2>6. \A i \in DOMAIN waiting' : i \in 1 .. Len(waiting) - 1 /\ waiting'[i] = waiting[i + 1]
    BY <2>1, <2>5
  <2>7. IsInjective(waiting')
    BY <2>1, <2>2, <2>6 DEF IsInjective
  <2>8. \A i \in DOMAIN waiting' : pc'[waiting'[i]] = "queued" /\ waiting'[i] # holder'
    BY <2>1, <2>2, <2>4, <2>5, <2>6
  <2> QED
    BY <2>1, <2>4, <2>5, <2>7, <2>8 DEF QueueInv, QueueTyped, HolderIsInside
<1> QED
  BY <1>1, <1>2

\* What RemoveAt returns.
LEMMA RemovedAt ==
  ASSUME NEW S, NEW s \in Seq(S), NEW i \in 1 .. Len(s)
  PROVE  /\ RemoveAt(s, i) \in Seq(S)
         /\ Len(RemoveAt(s, i)) = Len(s) - 1
         /\ \A j \in 1 .. Len(s) - 1 : RemoveAt(s, i)[j] = IF j < i THEN s[j] ELSE s[j + 1]
<1>1. PICK front : front = SubSeq(s, 1, i - 1)
  OBVIOUS
<1>2. PICK rest : rest = SubSeq(s, i + 1, Len(s))
  OBVIOUS
<1>3. PICK short : short = RemoveAt(s, i)
  OBVIOUS
<1>4. /\ front \in Seq(S) /\ Len(front) = i - 1
      /\ \A j \in 1 .. i - 1 : front[j] = s[j]
  BY <1>1
<1>5. /\ rest \in Seq(S) /\ Len(rest) = Len(s) - i
      /\ \A j \in 1 .. Len(s) - i : rest[j] = s[i + j]
  BY <1>2
<1>6. short = front \o rest
  BY <1>1, <1>2, <1>3 DEF RemoveAt
<1>7. Len(front) \in Nat /\ Len(rest) \in Nat /\ Len(front) + Len(rest) = Len(s) - 1
  BY <1>4, <1>5
<1>8. short \in Seq(S) /\ Len(short) = Len(s) - 1
  BY <1>4, <1>5, <1>6, <1>7
<1>9. \A j \in 1 .. i - 1 : short[j] = s[j]
  BY <1>4, <1>5, <1>6, <1>7
<1>10. ASSUME NEW j \in i .. Len(s) - 1 PROVE short[j] = s[j + 1]
  <2>1. j \in 1 .. Len(front) + Len(rest) /\ j > Len(front) /\ j \in Nat
    BY <1>4, <1>7
  <2>2. short[j] = rest[j - Len(front)]
    <3>1. front \in Seq(S) /\ rest \in Seq(S)
      BY <1>4, <1>5
    <3>2. (front \o rest)[j] = rest[j - Len(front)]
      BY <1>7, <2>1, <3>1
    <3> QED
      BY <1>6, <3>2
  <2>3. j - Len(front) \in 1 .. Len(s) - i /\ i + (j - Len(front)) = j + 1
    BY <1>4, <2>1
  <2> QED
    BY <1>5, <2>2, <2>3
<1> QED
  BY <1>3, <1>8, <1>9, <1>10

\* A cancelled wait leaves the queue from its middle.
LEMMA CancelKeepsOrder ==
  ASSUME QueueInv, pc \in [Callers -> Step], NEW c \in Callers, CancelWait(c)
  PROVE  QueueInv'
<1>1. PICK i \in DOMAIN waiting : waiting[i] = c /\ waiting' = RemoveAt(waiting, i)
  BY DEF CancelWait
<1>2. waiting \in Seq(Callers) /\ Len(waiting) \in Nat /\ i \in 1 .. Len(waiting)
  BY DEF QueueInv, QueueTyped
<1>3. /\ waiting' \in Seq(Callers) /\ Len(waiting') = Len(waiting) - 1
      /\ \A j \in 1 .. Len(waiting) - 1 : waiting'[j] = IF j < i THEN waiting[j] ELSE waiting[j + 1]
  BY <1>1, <1>2, RemovedAt
<1>4. \A j, k \in 1 .. Len(waiting) : waiting[j] = waiting[k] => j = k
  BY <1>2 DEF QueueInv, QueueTyped, IsInjective
<1>5. IsInjective(waiting')
  BY <1>2, <1>3, <1>4 DEF IsInjective
<1>6. \A j \in DOMAIN waiting' :
         \E k \in 1 .. Len(waiting) : k # i /\ waiting'[j] = waiting[k]
  BY <1>2, <1>3
<1>7. \A k \in 1 .. Len(waiting) : k # i =>
         waiting[k] \in Callers /\ waiting[k] # c /\ pc[waiting[k]] = "queued"
  BY <1>1, <1>2, <1>4 DEF QueueInv, QueueTyped
<1>8. \A d \in Callers \ {c} : pc'[d] = pc[d]
  BY DEF CancelWait, Finish, Goto
<1>9. \A j \in DOMAIN waiting' : pc'[waiting'[j]] = "queued"
  BY <1>6, <1>7, <1>8
<1>10. holder' = holder /\ holder # c
  BY DEF CancelWait
<1>11. HolderIsInside'
  BY <1>2, <1>6, <1>8, <1>10 DEF QueueInv, QueueTyped, HolderIsInside
<1> QED
  BY <1>3, <1>5, <1>9, <1>10, <1>11 DEF QueueInv, QueueTyped

\* A command that neither waits nor leaves the gate changes no place in the queue.
LEMMA MoveKeepsOrder ==
  ASSUME QueueInv, pc \in [Callers -> Step], NEW c \in Callers, NEW step, Goto(c, step), UNCHANGED gate,
         \/ pc[c] \notin Held \cup {"queued"}
         \/ holder = c /\ step \in Held
  PROVE  QueueInv'
<1>1. \A d \in Callers \ {c} : pc'[d] = pc[d]
  BY DEF Goto
<1>2. \A i \in DOMAIN waiting : waiting[i] \in Callers /\ waiting[i] # c
  BY SessionsAssumption DEF QueueInv, QueueTyped, HolderIsInside, Held
<1>3. pc'[c] = step
  BY DEF Goto
<1> QED
  BY <1>1, <1>2, <1>3, SessionsAssumption DEF QueueInv, QueueTyped, HolderIsInside, gate

LEMMA WaitKeepsOrder ==
  ASSUME QueueInv, pc \in [Callers -> Step], NEW c \in Callers, Wait(c)
  PROVE  QueueInv'
<1>1. /\ waiting \in Seq(Callers) /\ Len(waiting) \in Nat
      /\ \A i \in 1 .. Len(waiting) : waiting[i] \in Callers /\ pc[waiting[i]] = "queued"
  BY DEF QueueInv, QueueTyped
<1>2. \A i, j \in 1 .. Len(waiting) : waiting[i] = waiting[j] => i = j
  BY <1>1 DEF QueueInv, QueueTyped, IsInjective
<1>3. pc[c] = "getting" /\ holder # c /\ pc'[c] = "queued" /\ \A d \in Callers \ {c} : pc'[d] = pc[d]
  BY SessionsAssumption DEF Wait, Goto, QueueInv, HolderIsInside, Held
<1>4. \A i \in 1 .. Len(waiting) : waiting[i] # c /\ pc'[waiting[i]] = "queued"
  BY <1>1, <1>3
<1>5. CASE holder = NoCaller /\ holder' = c /\ UNCHANGED waiting
  BY <1>1, <1>3, <1>4, <1>5 DEF QueueInv, QueueTyped, HolderIsInside
<1>6. CASE holder # NoCaller /\ waiting' = Append(waiting, c) /\ UNCHANGED holder
  <2>1. /\ waiting' \in Seq(Callers) /\ Len(waiting') = Len(waiting) + 1
        /\ \A i \in 1 .. Len(waiting) : waiting'[i] = waiting[i]
        /\ waiting'[Len(waiting) + 1] = c
    BY <1>1, <1>6
  <2>2. \A i \in DOMAIN waiting' : i \in 1 .. Len(waiting) \/ i = Len(waiting) + 1
    BY <1>1, <2>1
  <2>3. IsInjective(waiting')
    BY <1>1, <1>2, <1>4, <2>1, <2>2 DEF IsInjective
  <2>4. \A i \in DOMAIN waiting' : pc'[waiting'[i]] = "queued"
    BY <1>3, <1>4, <2>1, <2>2
  <2>5. HolderIsInside'
    BY <1>1, <1>3, <1>6, <2>1, <2>2 DEF HolderIsInside, QueueInv, QueueTyped
  <2> QED
    BY <1>6, <2>1, <2>3, <2>4, <2>5 DEF QueueInv, QueueTyped
<1> QED
  BY <1>5, <1>6 DEF Wait

LEMMA StepKeepsOrder ==
  ASSUME SessionInv, QueueInv, NEW c \in Callers, Begin(c) \/ Running(c) \/ CancelWait(c)
  PROVE  QueueInv'
<1>t. pc \in [Callers -> Step] /\ (pc[c] \in Held => holder = c)
  BY DEF SessionInv, SessionsTyped, GateIsExclusive
<1>1. CASE Begin(c) \/ Peek(c) \/ TakePeeked(c) \/ Send(c) \/ SendRefused(c) \/ Invalidate(c)
  <2>1. UNCHANGED gate /\ pc[c] \notin Held \cup {"queued"} /\ \E step : Goto(c, step)
    BY <1>1 DEF Begin, Peek, TakePeeked, Send, SendRefused, Invalidate, Finish, Held
  <2> QED
    BY <1>t, <2>1, MoveKeepsOrder
<1>2. CASE Enter(c) \/ PeekHeld(c) \/ Login(c) \/ Issue(c)
  <2>1. UNCHANGED gate /\ holder = c /\ \E step \in Held : Goto(c, step)
    BY <1>2, <1>t DEF Enter, PeekHeld, Login, Issue, Held
  <2> QED
    BY <1>t, <2>1, MoveKeepsOrder
<1>3. CASE TakeHeld(c) \/ LoginFails(c) \/ Store(c)
  <2>1. Release /\ pc[c] \in Held /\ \E step : Goto(c, step)
    BY <1>3 DEF TakeHeld, LoginFails, Store, Finish, Held
  <2> QED
    BY <1>t, <2>1, ReleaseKeepsOrder DEF QueueInv
<1>4. CASE Wait(c) \/ CancelWait(c)
  BY <1>4, <1>t, WaitKeepsOrder, CancelKeepsOrder
<1> QED
  BY <1>1, <1>2, <1>3, <1>4 DEF Running

\* The session, the commands and the queue of the gate keep their types: the
\* queue holds each command once, and only commands that wait.
THEOREM SessionsKeepTypes == Spec => []TypeOK
<1>1. Init => QueueInv
  BY SessionsAssumption DEF Init, QueueInv, QueueTyped, HolderIsInside, IsInjective
<1>2. ASSUME SessionInv, QueueInv, [Next]_vars PROVE QueueInv'
  <2>1. ASSUME NEW c \in Callers, Begin(c) \/ Running(c) \/ CancelWait(c) PROVE QueueInv'
    BY <1>2, <2>1, StepKeepsOrder
  <2>2. ASSUME UNCHANGED <<pc, gate>> PROVE QueueInv'
    BY <1>2, <2>2 DEF QueueInv, QueueTyped, HolderIsInside, gate
  <2> QED
    BY <1>2, <2>1, <2>2 DEF Next, Expire, vars
<1>3. SessionInv /\ QueueInv => TypeOK
  BY DEF SessionInv, QueueInv, TypeOK
<1> QED
  BY <1>1, <1>2, <1>3, SessionInvHolds, PTL DEF Spec

-----------------------------------------------------------------------------
(* The permit is handed on                                                 *)

\* Whom the holder leaves behind is let in or goes on waiting.
LEMMA ReleaseServes ==
  ASSUME QueueTyped, WaitersAreServed, NEW c \in Callers, holder = c, Release,
         NEW step, step # "queued", Goto(c, step), pc \in [Callers -> Step]
  PROVE  WaitersAreServed'
<1> SUFFICES ASSUME NEW d \in Callers, pc'[d] = "queued"
             PROVE  \/ holder' = d
                    \/ holder' # NoCaller /\ \E i \in DOMAIN waiting' : waiting'[i] = d
  BY DEF WaitersAreServed
<1>1. d # c /\ pc[d] = "queued"
  BY DEF Goto
<1>2. PICK i \in DOMAIN waiting : waiting[i] = d
  BY <1>1 DEF WaitersAreServed
<1>3. /\ Len(waiting) \in Nat /\ i \in 1 .. Len(waiting) /\ waiting # <<>>
      /\ waiting[1] \in Callers
  BY <1>2 DEF QueueTyped
<1>4. holder' = waiting[1] /\ waiting' = Tail(waiting)
  BY <1>3 DEF Release, QueueTyped
<1>5. CASE i = 1
  BY <1>2, <1>4, <1>5
<1>6. CASE i # 1
  <2>1. i - 1 \in 1 .. Len(waiting) - 1 /\ (i - 1) + 1 = i
    BY <1>3, <1>6
  <2>2. i - 1 \in DOMAIN waiting' /\ waiting'[i - 1] = waiting[i]
    BY <1>3, <1>4, <2>1 DEF QueueTyped
  <2> QED
    BY <1>2, <1>3, <1>4, <2>2, SessionsAssumption
<1> QED
  BY <1>5, <1>6

\* Whoever stands behind a command that gives up keeps waiting.
LEMMA CancelServes ==
  ASSUME QueueTyped, WaitersAreServed, pc \in [Callers -> Step], NEW c \in Callers, CancelWait(c)
  PROVE  WaitersAreServed'
<1>1. PICK i \in DOMAIN waiting : waiting[i] = c /\ waiting' = RemoveAt(waiting, i)
  BY DEF CancelWait
<1>2. waiting \in Seq(Callers) /\ Len(waiting) \in Nat /\ i \in 1 .. Len(waiting)
  BY DEF QueueTyped
<1>3. /\ waiting' \in Seq(Callers) /\ Len(waiting') = Len(waiting) - 1
      /\ \A j \in 1 .. Len(waiting) - 1 : waiting'[j] = IF j < i THEN waiting[j] ELSE waiting[j + 1]
  BY <1>1, <1>2, RemovedAt
<1>4. holder' = holder /\ pc'[c] = "idle" /\ \A d \in Callers \ {c} : pc'[d] = pc[d]
  BY DEF CancelWait, Finish, Goto
<1>5. ASSUME NEW d \in Callers, d # c, NEW k \in DOMAIN waiting, waiting[k] = d
      PROVE  \E j \in DOMAIN waiting' : waiting'[j] = d
  <2>1. k # i /\ k \in 1 .. Len(waiting)
    BY <1>1, <1>2, <1>5
  <2>2. CASE k < i
    <3>1. k \in 1 .. Len(waiting) - 1 /\ k \in DOMAIN waiting'
      BY <1>2, <1>3, <2>1, <2>2
    <3> QED
      BY <1>3, <1>5, <2>2, <3>1
  <2>3. CASE k > i
    <3>1. k - 1 \in 1 .. Len(waiting) - 1 /\ k - 1 \in DOMAIN waiting' /\ ~(k - 1 < i) /\ (k - 1) + 1 = k
      BY <1>2, <1>3, <2>1, <2>3
    <3>2. waiting'[k - 1] = waiting[(k - 1) + 1]
      BY <1>3, <3>1
    <3> QED
      BY <1>5, <3>1, <3>2
  <2> QED
    BY <1>2, <2>1, <2>2, <2>3
<1> QED
  BY <1>4, <1>5 DEF WaitersAreServed

LEMMA WaitServes ==
  ASSUME QueueTyped, WaitersAreServed, pc \in [Callers -> Step], NEW c \in Callers, Wait(c)
  PROVE  WaitersAreServed'
<1>1. \A d \in Callers \ {c} : pc'[d] = pc[d]
  BY DEF Wait, Goto
<1>2. CASE holder = NoCaller /\ holder' = c
  BY <1>1, <1>2, SessionsAssumption DEF WaitersAreServed
<1>3. CASE holder # NoCaller /\ waiting' = Append(waiting, c) /\ UNCHANGED holder
  <2>1. waiting \in Seq(Callers) /\ Len(waiting) \in Nat
    BY DEF QueueTyped
  <2>2. /\ Len(waiting) + 1 \in DOMAIN waiting' /\ waiting'[Len(waiting) + 1] = c
        /\ \A i \in DOMAIN waiting : i \in DOMAIN waiting' /\ waiting'[i] = waiting[i]
    BY <1>3, <2>1
  <2> QED
    BY <1>1, <1>3, <2>2 DEF WaitersAreServed
<1> QED
  BY <1>2, <1>3 DEF Wait

LEMMA StepServes ==
  ASSUME SessionInv, QueueInv, WaitersAreServed,
         NEW c \in Callers, Begin(c) \/ Running(c) \/ CancelWait(c)
  PROVE  WaitersAreServed'
<1>t. QueueTyped /\ pc \in [Callers -> Step] /\ (pc[c] \in Held => holder = c)
  BY DEF SessionInv, SessionsTyped, GateIsExclusive, QueueInv
<1>1. CASE \/ Begin(c) \/ Peek(c) \/ TakePeeked(c) \/ Send(c) \/ SendRefused(c) \/ Invalidate(c)
           \/ Enter(c) \/ PeekHeld(c) \/ Login(c) \/ Issue(c)
  <2>1. UNCHANGED gate /\ \E step : step # "queued" /\ Goto(c, step)
    BY <1>1 DEF Begin, Peek, TakePeeked, Send, SendRefused, Invalidate, Finish, Enter, PeekHeld, Login, Issue
  <2> QED
    BY <1>t, <2>1 DEF WaitersAreServed, Goto, gate
<1>2. CASE TakeHeld(c) \/ LoginFails(c) \/ Store(c)
  <2>1. Release /\ pc[c] \in Held /\ \E step : step # "queued" /\ Goto(c, step)
    BY <1>2 DEF TakeHeld, LoginFails, Store, Finish, Held
  <2> QED
    BY <1>t, <2>1, ReleaseServes
<1>3. CASE Wait(c) \/ CancelWait(c)
  BY <1>3, <1>t, WaitServes, CancelServes
<1> QED
  BY <1>1, <1>2, <1>3 DEF Running

\* Slot.Gate never loses its permit: whatever fails or is cancelled, a command
\* that waits is let in or queues behind one that is inside or about to enter.
\* The safe half of CommandsEnd.
THEOREM GateIsHandedOn == Spec => [](WaitersAreServed /\ HolderIsInside)
<1>1. Init => QueueInv /\ WaitersAreServed
  BY SessionsAssumption
  DEF Init, QueueInv, QueueTyped, HolderIsInside, IsInjective, WaitersAreServed
<1>2. ASSUME SessionInv, QueueInv, WaitersAreServed, [Next]_vars PROVE QueueInv' /\ WaitersAreServed'
  <2>1. ASSUME NEW c \in Callers, Begin(c) \/ Running(c) \/ CancelWait(c)
        PROVE  QueueInv' /\ WaitersAreServed'
    BY <1>2, <2>1, StepKeepsOrder, StepServes
  <2>2. ASSUME UNCHANGED <<pc, gate>> PROVE QueueInv' /\ WaitersAreServed'
    BY <1>2, <2>2 DEF QueueInv, QueueTyped, HolderIsInside, WaitersAreServed, gate
  <2> QED
    BY <1>2, <2>1, <2>2 DEF Next, Expire, vars
<1>3. QueueInv => HolderIsInside
  BY DEF QueueInv
<1> QED
  BY <1>1, <1>2, <1>3, SessionInvHolds, PTL DEF Spec
=============================================================================
