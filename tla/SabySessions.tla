----------------------------- MODULE SabySessions -----------------------------
(***************************************************************************)
(* One slot of SabySessionStore, shared by every command that works under  *)
(* one organisation and certificate, and SendWithSessionAsync around it:   *)
(* the session is read without the gate, a login holds the gate across its *)
(* await, and a refused session is dropped under another lock than that.   *)
(***************************************************************************)
EXTENDS Naturals, Sequences, SequencesExt

CONSTANTS
  Callers,      \* commands running at a time
  NoCaller,     \* nobody: not a member of Callers
  MaxSessions   \* bound: the sessions Saby issues

ASSUME SessionsAssumption == NoCaller \notin Callers /\ MaxSessions \in Nat

VARIABLES
  slot,      \* Slot.SessionId, 0 for null
  holder,    \* who holds Slot.Gate
  waiting,   \* WaitAsync of the others, first come first served
  pc,        \* [Callers -> where the command is]
  mine,      \* [Callers -> the session GetAsync returned, 0 for null]
  refused,   \* [Callers -> the session Saby refused before the retry]
  second,    \* [Callers -> is the command on its retry?]
  issued,    \* the last session Saby issued
  live       \* the sessions Saby still accepts

server == <<issued, live>>
gate == <<holder, waiting>>
vars == <<slot, gate, pc, mine, refused, second, server>>

Session == 0 .. MaxSessions
Held == {"checking", "peekedHeld", "loggingIn", "loggedIn"}
Step == {"idle", "getting", "peeked", "queued", "ready", "refused"} \cup Held

SessionsTyped ==
  /\ slot \in Session
  /\ pc \in [Callers -> Step]
  /\ mine \in [Callers -> Session]
  /\ refused \in [Callers -> Session]
  /\ second \in [Callers -> BOOLEAN]
  /\ issued \in Session
  /\ live \subseteq 1 .. issued

\* Nobody queues twice, and who queues is not running.
QueueTyped ==
  /\ holder \in Callers \cup {NoCaller}
  /\ waiting \in Seq(Callers)
  /\ IsInjective(waiting)
  /\ \A i \in DOMAIN waiting : pc[waiting[i]] = "queued"

TypeOK == SessionsTyped /\ QueueTyped

Init ==
  /\ slot = 0
  /\ holder = NoCaller /\ waiting = <<>>
  /\ pc = [c \in Callers |-> "idle"]
  /\ mine = [c \in Callers |-> 0]
  /\ refused = [c \in Callers |-> 0]
  /\ second = [c \in Callers |-> FALSE]
  /\ issued = 0 /\ live = {}

Goto(c, step) == pc' = [pc EXCEPT ![c] = step]

Finish(c) ==
  /\ Goto(c, "idle")
  /\ mine' = [mine EXCEPT ![c] = 0]
  /\ refused' = [refused EXCEPT ![c] = 0]
  /\ second' = [second EXCEPT ![c] = FALSE]

\* Mutant: the waiter served stays in the queue.
ReleaseKeepsQueue ==
  /\ holder' = IF waiting = <<>> THEN NoCaller ELSE Head(waiting)
  /\ UNCHANGED waiting

\* Slot.Gate.Release hands the permit to the first waiter.
Release ==
  /\ holder' = IF waiting = <<>> THEN NoCaller ELSE Head(waiting)
  /\ waiting' = IF waiting = <<>> THEN <<>> ELSE Tail(waiting)

-----------------------------------------------------------------------------
(* GetAsync                                                                *)

Begin(c) ==
  /\ pc[c] = "idle"
  /\ Goto(c, "getting")
  /\ UNCHANGED <<slot, gate, mine, refused, second, server>>

\* The test without the gate; the value is read a second time to return it.
Peek(c) ==
  /\ pc[c] = "getting"
  /\ slot # 0
  /\ Goto(c, "peeked")
  /\ UNCHANGED <<slot, gate, mine, refused, second, server>>

TakePeeked(c) ==
  /\ pc[c] = "peeked"
  /\ mine' = [mine EXCEPT ![c] = slot]
  /\ Goto(c, "ready")
  /\ UNCHANGED <<slot, gate, refused, second, server>>

Wait(c) ==
  /\ pc[c] = "getting"
  /\ slot = 0
  /\ Goto(c, "queued")
  /\ \/ /\ holder = NoCaller
        /\ holder' = c
        /\ UNCHANGED waiting
     \/ /\ holder # NoCaller
        /\ waiting' = Append(waiting, c)
        /\ UNCHANGED holder
  /\ UNCHANGED <<slot, mine, refused, second, server>>

\* The caller's token is cancelled before it got the gate.
CancelWait(c) ==
  /\ pc[c] = "queued"
  /\ holder # c
  /\ \E i \in DOMAIN waiting : waiting[i] = c /\ waiting' = RemoveAt(waiting, i)
  /\ Finish(c)
  /\ UNCHANGED <<slot, holder, server>>

Enter(c) ==
  /\ pc[c] = "queued"
  /\ holder = c
  /\ Goto(c, "checking")
  /\ UNCHANGED <<slot, gate, mine, refused, second, server>>

PeekHeld(c) ==
  /\ pc[c] = "checking"
  /\ slot # 0
  /\ Goto(c, "peekedHeld")
  /\ UNCHANGED <<slot, gate, mine, refused, second, server>>

TakeHeld(c) ==
  /\ pc[c] = "peekedHeld"
  /\ mine' = [mine EXCEPT ![c] = slot]
  /\ Goto(c, "ready")
  /\ Release
  /\ UNCHANGED <<slot, refused, second, server>>

\* Mutant: a login under the gate without a second test.
LoginUntested(c) ==
  /\ pc[c] = "checking"
  /\ Goto(c, "loggingIn")
  /\ UNCHANGED <<slot, gate, mine, refused, second, server>>

Login(c) ==
  /\ pc[c] = "checking"
  /\ slot = 0
  /\ Goto(c, "loggingIn")
  /\ UNCHANGED <<slot, gate, mine, refused, second, server>>

LoginFails(c) ==
  /\ pc[c] = "loggingIn"
  /\ Release
  /\ Finish(c)
  /\ UNCHANGED <<slot, server>>

\* Mutant: the gate is released before the answer of the login is stored.
ReleaseEarly(c) ==
  /\ pc[c] = "loggingIn"
  /\ issued < MaxSessions
  /\ issued' = issued + 1
  /\ live' = live \cup {issued + 1}
  /\ mine' = [mine EXCEPT ![c] = issued + 1]
  /\ Goto(c, "loggedIn")
  /\ Release
  /\ UNCHANGED <<slot, refused, second>>

Issue(c) ==
  /\ pc[c] = "loggingIn"
  /\ issued < MaxSessions
  /\ issued' = issued + 1
  /\ live' = live \cup {issued + 1}
  /\ mine' = [mine EXCEPT ![c] = issued + 1]
  /\ Goto(c, "loggedIn")
  /\ UNCHANGED <<slot, gate, refused, second>>

\* Mutant: the gate is not released on success.
StoreForgetting(c) ==
  /\ pc[c] = "loggedIn"
  /\ slot' = mine[c]
  /\ Goto(c, "ready")
  /\ UNCHANGED <<gate, mine, refused, second, server>>

Store(c) ==
  /\ pc[c] = "loggedIn"
  /\ slot' = mine[c]
  /\ Goto(c, "ready")
  /\ Release
  /\ UNCHANGED <<mine, refused, second, server>>

-----------------------------------------------------------------------------
(* SendWithSessionAsync                                                    *)

\* The command is answered, refused for another reason, or its answer lost.
Send(c) ==
  /\ pc[c] = "ready"
  /\ Finish(c)
  /\ UNCHANGED <<slot, gate, server>>

\* Saby no longer knows the session, or none was sent.  Only the first such
\* answer is followed by a retry.
SendRefused(c) ==
  /\ pc[c] = "ready"
  /\ mine[c] \notin live
  /\ ~second[c]
  /\ Goto(c, "refused")
  /\ UNCHANGED <<slot, gate, mine, refused, second, server>>

\* Mutant: the refused session stays in the slot.
InvalidateNothing(c) ==
  /\ pc[c] = "refused"
  /\ refused' = [refused EXCEPT ![c] = mine[c]]
  /\ second' = [second EXCEPT ![c] = TRUE]
  /\ mine' = [mine EXCEPT ![c] = 0]
  /\ Goto(c, "getting")
  /\ UNCHANGED <<slot, gate, server>>

Invalidate(c) ==
  /\ pc[c] = "refused"
  /\ slot' = IF mine[c] = 0 \/ slot = mine[c] THEN 0 ELSE slot
  /\ refused' = [refused EXCEPT ![c] = mine[c]]
  /\ second' = [second EXCEPT ![c] = TRUE]
  /\ mine' = [mine EXCEPT ![c] = 0]
  /\ Goto(c, "getting")
  /\ UNCHANGED <<gate, server>>

\* Saby ends a session whenever it likes.
Expire(s) ==
  /\ s \in live
  /\ live' = live \ {s}
  /\ UNCHANGED <<slot, gate, pc, mine, refused, second, issued>>

Running(c) ==
  \/ Peek(c) \/ TakePeeked(c) \/ Wait(c)
  \/ Enter(c) \/ PeekHeld(c) \/ TakeHeld(c)
  \/ Login(c) \/ LoginFails(c) \/ Issue(c) \/ Store(c)
  \/ Send(c) \/ SendRefused(c) \/ Invalidate(c)

Next ==
  \/ \E c \in Callers : Begin(c) \/ Running(c) \/ CancelWait(c)
  \/ \E s \in live : Expire(s)

Spec == Init /\ [][Next]_vars

\* Every command that runs goes on: each of its awaits has a timeout.
FairSpec == Spec /\ \A c \in Callers : WF_vars(Running(c))

-----------------------------------------------------------------------------
\* The slot holds the newest session Saby issued or none, and nobody who waits
\* for an answer of a login can put an older one over it.
SlotIsNewest == slot \in {0, issued}

\* A command enters no login while the slot holds a session.
LoginsAreDue ==
  \A c \in Callers : pc[c] \in {"loggingIn", "loggedIn"} => slot = 0

\* The retry never uses the very session Saby has just refused.
RetryIsFresh ==
  \A c \in Callers : pc[c] = "ready" /\ second[c] /\ refused[c] # 0 => mine[c] # refused[c]

\* A refusal drops the session it was given to and no newer one: the comment
\* above Invalidate.  Asserted by no run: a command that got null drops any.
DropsOnlyItsOwn ==
  [][\A c \in Callers : pc[c] = "refused" /\ pc'[c] = "getting" =>
       slot' = slot \/ slot = mine[c]]_vars

\* The permit of the gate is never lost: a command that waits for it has just
\* got it, or queues behind one that holds it, whoever failed or gave up before.
WaitersAreServed ==
  \A c \in Callers : pc[c] = "queued" =>
    \/ holder = c
    \/ holder # NoCaller /\ \E i \in DOMAIN waiting : waiting[i] = c

\* No command waits for ever for its session, whoever fails before it.
CommandsEnd == \A c \in Callers : pc[c] # "idle" ~> pc[c] = "idle"

-----------------------------------------------------------------------------
(* The inductive invariant behind SlotIsNewest, LoginsAreDue, RetryIsFresh *)

\* Only the holder of the gate is between Enter and Release.
GateIsExclusive == \A c \in Callers : pc[c] \in Held => holder = c

\* A session that is not yet stored has been given to nobody else.
NewSessionIsPrivate ==
  \A c \in Callers : pc[c] = "loggedIn" =>
    /\ mine[c] = issued /\ issued > 0
    /\ \A d \in Callers : refused[d] < issued /\ (d # c => mine[d] < issued)

SessionsAreIssued == \A c \in Callers : mine[c] <= issued /\ refused[c] <= issued

\* A refused session never comes back to the slot.
RefusedStaysOut ==
  \A c \in Callers : refused[c] # 0 => slot # refused[c]

\* Who holds the gate was let in or is about to enter, and waits no more.
HolderIsInside ==
  holder # NoCaller =>
    /\ pc[holder] \in Held \cup {"queued"}
    /\ \A i \in DOMAIN waiting : waiting[i] # holder

SessionInv ==
  /\ SessionsTyped
  /\ GateIsExclusive
  /\ SlotIsNewest
  /\ LoginsAreDue
  /\ NewSessionIsPrivate
  /\ SessionsAreIssued
  /\ RefusedStaysOut
  /\ RetryIsFresh
=============================================================================
