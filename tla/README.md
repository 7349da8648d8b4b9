# Fmu-Api-Central: a verification project

Fmu-Api-Central is a .NET service that shops, their tills and their accountants
use as one place for marking («Честный знак»), electronic consignment notes
(ЭТрН, over the operator Saby) and veterinary documents (Ветис, over Mercury).
This directory holds TLA+ specifications of its core, TLC runs over small
instances and proofs checked by TLAPS. All definitions are translated from the
C# sources and the JavaScript of the browser pages under `src/`; what lies
outside (the operator, Mercury, CouchDB, the nodes) is modelled from how the
sources use it.

Contents: [inventory](#inventory), [plan](#plan), [modules](#modules),
[runs](#runs-and-bounds), [fairness](#fairness), [proofs](#proofs),
[departures of the code](#where-the-code-departs-from-its-documents),
[what is left out](#what-is-not-modelled).

To repeat the checks, in this directory:

    tlc -config etrn_races.cfg MCEtrnExchange.tla
    tlapm EtrnExchangeProofs.tla

## Inventory

One process, WebApi, holds the HTTP controllers and all background workers; a
second one, HostApp, starts and restarts it and the products beside it. The
pages of the users are scripts in the browser. All state that survives a restart
is CouchDB records and one configuration file.
**No record is ever locked.** A service finds a record, awaits something, and
saves its copy; `BaseCouchDbRepository.SaveDocumentAsync` asks for the current
revision and overwrites what is there, so that of two writers the later wins
with all fields of its copy. Nearly every hard behaviour of the server is a
form of this; those of the browser are answers that come late, to a page that
has moved on.

| component (directory) | state | operations | talks to |
| --- | --- | --- | --- |
| ЭТрН acceptance, polling, reconciliation (`Application/Etrn`, `Infrastructure/EtrnSaby`) | a record per note with status, stage, title; one position per connection (the last event handled, a pair of time and id); the gate of notes being accepted, in memory | accept or reject a note; load the change list; resolve notes stuck in «Sending» | Saby over HTTP, CouchDB |
| Saby sessions (`EtrnSaby/SabySessionStore`) | one slot per organisation and certificate: the session and a semaphore | take a session, log in, drop a refused one | Saby |
| Ветис journal (`Application/Vetis`, `Infrastructure/VetisApi`) | a record per waybill with its VSDs; the cursor of an enterprise in the organisation's card; what has been swept, quench progress and gate in memory | load changes in pages, move VSDs between records, sweep foreign transports, quench | Mercury (submit, poll), CouchDB |
| Ветис automatic quenching | a cursor of lanes in the worker | quench what is due, a batch at a time | journal, quench command |
| Ветис in the browser (`WebApp/.../vetis`) | one window with the opened and the busy document; a table with offset, generation and a page on its way | open, quench, watch a quench, reload; scroll, filter, load on | controllers of the journal |
| nodes (`Application/Instance`, `InstanceGroup`, `SettingsSchema`) | a record per Fmu-Api node: its settings, whether they are modified, a forced update, its group | packet of a node, fetch and acknowledgement of settings, downloads, edits of users and groups | the nodes over HTTP, the form in the browser |
| checker distribution | cached build template and one build slot | build and hand out archives | files |
| ГИС МТ, True API, X-API-KEY | tokens and statuses in organisation cards | renew, poll, write statuses | state services |
| alerts and messages | templates with a schedule, licence notices | a run each minute | mail, messengers |
| users, authentication | users, refresh tokens, failed logins in memory | log in, renew, block | browser |
| configuration, application state | a cached file with migrations; is the database up | read, save, migrate | file |
| CouchDB access, dump, compaction | revisions, indexes, status | save, find, export | CouchDB |
| HostApp supervisor | a process per product, restart attempts | start, stop, restart with delays | operating system |
| controllers, logs, installers, other pages | none others decide by | views and forwarding | all |

What is hard in each, and what makes it correct:

- **ЭТрН.** A request that decides a note, the polling worker and the
  reconciliation of slow decisions write one record. Answers of the operator get
  lost, requests are cancelled by a closed browser, the process restarts. Right
  is: Central never shows a decision the operator has not executed; a note that
  is closed has left its stage (the code keeps that but for notes an earlier stage
  of which was reported); no event is skipped when the position moves; no
  note stays in «Sending»; a decision reaches Central in the end.
- **Sessions.** Three entry points (peek, login, drop) of which only the login
  holds the gate. Right is: one login at a time, none beside a valid session, no
  loop of drops and logins, no command that waits for ever.
- **Journal.** The load, the sweep and several quench commands each work on
  copies; a quench may time out here and be executed there. Right is: what is
  shown as quenched is so in Mercury; the cursor passes over nothing; a VSD that
  moves is in one record; what is quenched is shown in the end.
- **Automatic quenching.** A walk over a journal that changes under it, cut into
  batches that leave marks. Right is: a pass skips nothing that stayed in place,
  and what is due is met again and again.
- **Window and list of Ветис.** Reads, reports, polls and pages come back in any
  order to one window and one widget. Right is: nothing of another document or
  filter is shown; a window is held while its request is under way and never
  longer; the list has no gap and goes on to its end.
- **Nodes.** Every operation reads a whole record, changes a field and writes it
  back: two of them lose one change. Right is: settings a user assigns reach the
  node, an update that was ordered is not forgotten, and both sides come to agree.
- **HostApp.** Right is: a program that dies is started again, with growing
  delays; a stop is final.
- **Authentication, tokens, configuration, alerts.** Counters and expiries at
  their limits; cached values that are stale.

`PROJECT.json` lists the source files of every component and the hazards, each at
its line with the properties that cover it.

## Plan

The order is that of the damage an error does: first what is sent to a state
system and cannot be taken back, then what a user is told, then the rest.

1. *Done.* `EtrnExchange` with its abstract specification `EtrnNotes`;
   `SabySessions`; `VetisIncoming` with its abstract specification
   `VetisJournal`; `VetisAutoQuench`, and their theorems.
2. *Done.* `InstanceExchange`; the browser's half of the journal,
   `VetisIncomingWindow` (composed with the gate and the progress store of the
   server) and `VetisPagedTable`; the proofs about the order of events and pages
   (`NothingLostBehindPair`, `NothingLostBehindCursor`, `OneRecord`,
   `SweptStaysSwept`), so that every safety property of a passing run is a
   theorem; the same with database faults and quench commands, naming the steps
   that can break them; for every liveness property the safety property its
   argument begins with.
3. *Left.* `VetisWindows`: the slices of a window, their halves and the next
   cursor (`ReadEnterpriseAsync`, `IncomingChangesWindow`), which will replace the
   window of `VetisIncoming` by an interface (which changes of a window are handed
   over, and where the cursor goes). `BrowserSession`: renewal of tokens by
   several requests and tabs against their rotation in the server, and failed
   logins. `BrowserPages`: router and polling. `ChildSupervisor`: start, death,
   delays, stop. The pure rules as operators against reference definitions:
   `EtrnAcceptance.Decide`, `VetisIncomingStatus.Of`, the order of
   `CompareDocuments`.
4. *Left.* The ГИС МТ exchange and its writes into cards; X-API-KEY and True API
   tokens; the configuration cache and its migrations; the status worker of the
   database; runs of alert templates; the template cache of the checker
   distribution; several Saby connections.

## Modules

| module | models | needs |
| --- | --- | --- |
| `EtrnExchange` | acceptance, polling, reconciliation, the operator | |
| `EtrnNotes` | what the exchange promises of one note, abstractly | |
| `EtrnRefinement` | the mapping `EtrnExchange` → `EtrnNotes`, property `NeverAhead` | both |
| `SabySessions` | one slot of the session store and the commands around it | |
| `VetisIncoming` | load, sweep, quench commands, Mercury | |
| `VetisJournal` | what the journal promises of VSDs, abstractly | |
| `VetisRefinement` | the mapping `VetisIncoming` → `VetisJournal`, property `JournalNeverAhead` | both |
| `VetisAutoQuench` | the walk of the automatic quencher | |
| `VetisIncomingWindow` | the window of a document, its requests, polls and reloads; the gate of the server | |
| `VetisPagedTable` | the paged list of a page and the server that pages it | |
| `InstanceExchange` | one node, its record and the users that edit it | |
| `MC...` | constants, symmetry for TLC | its module |
| `...Proofs` | theorems | its module, TLAPS |

The last definitions of `EtrnExchange`, `VetisIncoming`, `VetisAutoQuench` and
`InstanceExchange` (`GateInv`, `ClosedInv`, `FeedInv`; `VetisInv`, `CursorInv`,
`WindowIsAhead`; `PassInv`, `ProgressInv`; `ExchangeInv`, and their parts) are the
inductive invariants of the proofs; they stand beside the model because TLC
checked them first.

### EtrnExchange: acceptance against polling

`EtrnExchange.tla` holds the whole exchange of consignment notes (ЭТрН) of one
enabled connection, because its parts share the CouchDB records without a lock:

| actor in the code | actions |
| --- | --- |
| `EtrnAcceptanceService.AcceptAsync` (one per HTTP request, `EtrnAcceptanceGate` around it) | `Enter`, `FindRefuses`, `Find`, `SaveSending`, `GatewayFails`, `SendExecute`, `ExecuteTimesOut`, `Cancel`, `SaveSucceeded`, `SaveFailed` |
| `EtrnIncomingLoadService.ReconcileAsync` | `StartRound`, `StageUnknown`, `ReadStage`, `SaveReconciled` |
| `EtrnIncomingLoadService.LoadConnectionAsync` with `EtrnSabyGateway.FetchAsync` | `ReadPair`, `FetchFails`, `Fetch`, `SkipDocument`, `FindDocument`, `SaveDocument`, `DocumentsDone`, `SkipClosed`, `FindClosed`, `SaveClosed`, `ClosedDone`, `SavePair` |
| the operator (external) | `EarlyStage`, `ReachAcceptance`, `DecidedElsewhere`, `ExecuteAction` |
| the clock, the process | `TenMinutesPass`, `Restart` (the worker waits out its start delay again: `round = "starting"`) |

Every `await` on the database is a step of its own: a `Find` copies the record
into the local state of its actor (`copyXml`, `draft`), a later `Save` writes the
copy back over whatever is there by then, as `BaseCouchDbRepository.SaveDocumentAsync`
does (it asks for the current revision first, so it never loses to another
writer). With `DbFaults` a read may fail, and a failed `Save` may have stored its
document all the same (`SaveOutcome`).

Abstractions: a page of the change list is read in one step, for the gateway
touches nothing shared between its calls; the 30-day window of the first request
is the whole feed; the operator moves a note forward only, reports up to
`EarlyStages` events of the stages before acceptance and one of acceptance per
note; the title, the lines and the decision rule are the
set `Unparsable` and the free choice in `FindRefuses`; the session behind the
gateway is `SabySessions`.

`EtrnNotes.tla` has four variables per note, its stage at the operator, whether he
reported one before acceptance, our decision the operator executed and what
Central shows, and four steps (`Tell`, `Open`, `End`, `Show`); `EtrnRefinement.tla`
maps the exchange to them. `NeverAhead` says that every step of the exchange is a
step of it or none: what Central shows may lag behind the operator, and even
return to an older state (it does, see `etrn_overwrite`), but it is never ahead of
what he has told. That the end of an earlier stage is taken for the end of ours is
part of the promise (`MayShow`), for it is what the code does; that a *closed* note
is over is therefore promised only for notes of which nothing came before.

### SabySessions: one login for many commands

`SabySessionStore.GetAsync` reads the slot without the gate and, if it is empty,
takes the gate, looks again and logs in across an `await`. `InvalidateAsync`
compares and clears. `SendWithSessionAsync` retries once after a refusal.

| code | actions |
| --- | --- |
| first look (lines 29-30, two reads of the field) | `Begin`, `Peek`, `TakePeeked` |
| `WaitAsync` and `Release` of the semaphore, first come, first served | `Wait`, `CancelWait`, `Enter`, `Release` |
| second look and login under the gate | `PeekHeld`, `TakeHeld`, `Login`, `LoginFails`, `Issue`, `Store` |
| the request, its refusal and the retry | `Send`, `SendRefused`, `Invalidate` |
| Saby ends a session | `Expire` |

The two unguarded reads are two steps: between them the slot may be emptied, so
that `null` is returned as a session. `RetryIsFresh` and `LoginsAreDue` hold all
the same; that the drop after such a refusal removes only the command's own
session (`DropsOnlyItsOwn`) does not (see below).

### VetisIncoming: the journal and Mercury

| actor in the code | actions |
| --- | --- |
| `VetisIncomingTransportSweep.SweepBatchAsync` | `SweepList`, `SweepFind`, `SweepSave`, `SweepDone` |
| `VetisIncomingLoadService`, a page | `StartRound`, `ReadPage`, per record `FindTarget` and `SaveTarget` (`Merged`), `TurnPage`, `ShiftCursor` |
| `VetisIncomingRelease` | `ListIds`, `FindOther`, `DropFromOther`, `Released` |
| `VetisIncomingWorker`: the round or the sweep fails; the process | `WorkerFails`, `Restart` |
| `VetisIncomingQuenchService` per command | `Enter`, `NotSent`, `Submit`, `Unanswered`, `CancelCommand`, `StoreMissing`, `StoreFind`, `StoreSave`, `StoreFails`, `RememberErrors`, `SaveErrors`, `Report` |
| Mercury and its other users (external) | `Elsewhere`, `Process`, `ProcessLate` |

A record is a function from VSDs to local statuses, "none" where the VSD is not
in it. Left out: fields `Refresh` derives, `LastError`, volumes and authors (the
save of the *whole copy* is kept, and it is what the hazards are about). The
window is one slice of one enterprise, one page of heads suffices for the sweep,
the sort aligner is missing. Mercury lists by update date, changes have distinct
dates, `UTILIZED` and `WITHDRAWN` are final. Failures of CouchDB, a revision
conflict among them, are `DbFaults`; a `Save` that fails may have stored.

`VetisJournal.tla` has two variables, the status of each VSD in Mercury and what
each record shows, and two steps: a VSD leaves «оформлен», once; one record is
written, in which no VSD is ahead of Mercury. `VetisRefinement.tla` maps
the journal to it, forgetting waybills and dates. `JournalNeverAhead` says that a
record may lag, lose a VSD or fall back to an older state (a stale copy does all
three), but never shows as quenched what could still be quenched, nor as
withdrawn what is not.

### VetisAutoQuench: the walk

| code | actions |
| --- | --- |
| `OpenLanes`, `Fill` with `OldestAfter` | `OpenLanes`, `FillForPick` |
| `NextHead` and `seen` | `PickHead` |
| `Find`, `DueUuids`, `Commit`, `QuenchAsync` | `FindNothing`, `NotDue`, `Due`, `Quenched` |
| `PassFinished`, `Finish`, the worker's `_cursor` | `FillTail`, `PassEnds`, `BatchIsFull`, `BatchFails` |
| the worker's `catch`, a restart | `BatchThrows`, `Restart` |
| loading, users, the command itself | `MoveRecord` |

A record is a number that stands for its sort key; lanes are filled in any order.
Three history variables serve the properties: `steady` (records that did not move
since the pass began), `visited`, and `broken` (the last batch ended by a failure
or a restart). Left out: the set of organisations changing during a pass, the
error texts, and `started`, which is at most `looked` and therefore never ends a
batch by itself.

### VetisIncomingWindow: one window, many answers

`vetisIncomingWindow.js` has one window and one pair `openedId`, `busyId`. An
action is one callback of the script, or one step of the server.

| code | actions |
| --- | --- |
| a click in the list, `incomingDocument`, `openWindow`, Esc and the cross (`canClose`) | `Click`, `ReadServed`, `Opened`, `Close`, `ReadFails` |
| `quench`: the request, `watchQuench`, the report or the error, `finally` | `Quench`, `StagePolled`, `StageShown`, `ReportArrives`, `ErrorArrives`, `ListLoaded` (`WithReport`, `Ends`) |
| `watchForeignQuench`, `reloadIncoming` | `Pull`, `PollServed`, `PollIgnored`, `PollFails`, `LockedByOther`, `OtherEnded`, `Reloaded` |
| the gate and `VetisQuenchProgressStore`, the course of `QuenchAsync` | `Refused`, `Enter`, `SendVsd`, `StoreVsd`, `Leave` |
| another page or the worker; a lost connection, a restart | `OtherEnters`, `AnswerLost`, `ServerRestarts` |

A document is the number of its quenched VSDs; the window is a record of what it
shows and allows. `stranded` marks a window whose reload failed, `own` the
request it sent with no other of its document under way. Left out: volumes typed
into the table, the return of goods, the texts of messages.

### VetisPagedTable: pages of a moving list

| code | actions |
| --- | --- |
| `VetisPaging` in the server; rows that come and go | `Serve`, `Appear`, `Vanish` |
| `reload`, from a filter, the button, the first load or a quench that ended | `Reload` |
| the rest of `_loadNext` after its await: late, good, failed | `Outdated`, `Arrive`, `Fail` |
| `onAfterScroll` with `shouldLoadMore` | `Scroll` |
| another page of the menu and the way back, which builds a new table | `LeavePage`, `ReturnToPage` |

A row is its place in the order of the list. `foreign` says that the table of a
page that was left has touched the widget, `steady` which rows have been on the
server since the reload, `vanished` and `failed` that a row went or a page failed
since: the four are history, for the properties.

### InstanceExchange: a node and its record

| code | actions |
| --- | --- |
| the node (external): handshake, packet, settings, confirmation, download, a lost answer | `Greet`, `Post`, `AskSettings`, `ApplySettings`, `Confirm`, `Download`, `TimeOut` |
| `Handshake`, `MarkLegacyAccess` | `TouchRead`, `TouchSave` |
| a packet: `ResolveSettingsForSave`, the answer, a forced update that is not found | `PacketRead`, `PacketSave`, `PacketAnswer`, `PacketForgets` |
| `InstanceSettings`, `SettingsUploaded`, `FmuApiUpdate` | `GiveSettings`; `ConfirmRead`, `ConfirmSave`; `DownloadRead`, `DownloadSave`, `DownloadEnds` |
| users: a forced update, a group, the export of a schema, the form, a deleted file | `ForceUpdate` … `ForceSave`, `AssignGroup` … `AssignSave`, `ExportSettings` … `ExportSave`, `SubmitForm`, `FormRead`, `FormSave`, `DeleteFile` |
| the database is unavailable for one save; an error or a restart | `SaveSkipped`, `Abort` |

A settings document is the group it comes from; the node's clock, versions and
the reports no decision reads are left out. `Applied` is `ApplyGroupSchema`: it
gives the settings of the group, or those it was called with when the group or its
schema cannot be read (or there is none), and the request that called it goes on
and saves, so that an assigned record may be flagged and hold its old settings.

Three history variables and a field of each request say what is promised:
`owed` is a schema that was assigned and really lies in the record while the node
does not run with it, `order` an update that was forced. `older` says that the
node was handed settings before `owed` was assigned and has not confirmed them, and
`missed` (of a request) which of the two commands were saved after it had read the
record, or, for a confirmation, after the settings it confirms were handed out.
What the code may do to a promise is thereby named and nothing else is allowed:
`owed` ends when the node runs with the settings, by a save of a request that has
missed it and does not carry them (`StillOwed`), by the next assignment or export,
by a form that changes group or flag, and by a first packet that cannot read the
group (`KeepsOwn`); `order` ends when the update is handed out or its file cannot be
found, by the next order, or by a save of a request that has missed it
(`StillOrdered`). A request that reads the record after the command was saved drops
neither. That the code loses commands by overlap is under
[departures](#where-the-code-departs-from-its-documents).

## Runs and bounds

| run | asks | instance and why it is enough |
| --- | --- | --- |
| `etrn_races` | Can races, lost answers, cancellations, restarts, earlier stages and a flaky database make Central show what is not so (`DecisionsAreExecuted`, `ClosedMeansLeftOrTold`, `NeverAhead`), does anybody but the poll take a decision back (`OnlyPollTakesBack`), when does the position go back (`OnlyUnreadPairGoesBack`)? | 1 note, 1 report of an earlier stage, 2 requests beside the worker, `DbFaults`: two requests are the least that pass the gate one after another while an application of the first is still under way; the events of the earlier stage and of the acceptance may share a page or not; notes do not interact except through pages, which `etrn_feed` covers |
| `etrn_feed` | Does the position skip an event (`NothingLostBehindPair`)? | 3 notes on pages of 2, one unparsable, each with an earlier stage: full, last and empty pages, an event read twice, a poisoned event in front of others; no database faults, for with them it does not hold |
| `etrn_live` | Does «Sending» end, does a decision arrive (`SendingResolves`, `AcceptanceReachesCentral`)? | 1 note, 1 request, restarts, fairness; 2 earlier stages on pages of 2, so that acceptance may lie behind a full page and is not met unless the position moves on |
| `etrn_overwrite` | a comment of the repository that the code does not keep (`PollKeepsDecided`, violated) | 1 note, 1 request; see [departures](#where-the-code-departs-from-its-documents) |
| `saby_session` | `SlotIsNewest`, `LoginsAreDue`, `RetryIsFresh`, `CommandsEnd` | 3 commands, 3 sessions: one logs in, one waits, one holds an old session |
| `vetis_races` | Is the journal ever ahead of Mercury (`JournalNeverAhead`)? | 2 VSDs, 2 records, 2 commands, 3 changes, faults and restarts: VSDs that move, commands on both records, late execution |
| `vetis_load` | Does the cursor skip a change, does a VSD stay in two records, does what was swept return (`NothingLostBehindCursor`, `OneRecord`, `SweptStaysSwept`)? | 4 VSDs, 2 of them foreign, 2 records, pages of 2, 4 changes, faults and restarts: two pages per list, moved VSDs on one page and on two |
| `vetis_live` | Is a quenched VSD shown so again and again (`UtilizedIsShown`)? | 1 record with 2 VSDs, 1 automatic command, fairness |
| `vetis_auto` | Does a pass miss a record that stayed (`PassMissesNothing`), is such a record met for ever (`StayingIsVisited`)? | 3 records, 2 lanes, batches of 2: a batch that ends inside a page, at its end, and with the last record |
| `vetis_window` | Does the window show another document's rows (`RowsAreOwn`), is it open to a second quench or to Esc while its request runs (`OwnQuenchHoldsWindow`), can it stay locked (`NoOrphanLock`, `LocksEnd`), is the progress that of the command past the gate (`ProgressIsHolders`)? | 2 documents of 1 VSD, 2 requests of the page and those of others; 2 clicks, 2 quenches, 2 reads at a time, 1 fault: a request of each document at a time, two of one, a late report for a window that was replaced |
| `paged_table` | Are filters mixed (`RowsBelong`), is a row skipped (`NothingSkipped`), are two pages of one list on their way (`OneLoad`), does the list stop before its end (`EndIsFetched`), does the icon turn for ever (`SpinnerEnds`)? | 2 filters, up to 5 rows on pages of 2, a view of 2; the page built twice, 3 reloads, 2 pages on their way, 1 change, 1 failure: a full, a partial and an empty page, a late page of each kind |
| `instance_exchange` | Is an assignment lost before the node has it by anything but the endings it may have (`AssignedStaysPending`), an ordered update forgotten (`ForcedStaysOrdered`), do record and node come to agree (`Settles`)? | 1 node, 2 requests in the server at a time, 2 groups, 1 update file, 2 commands of users, 1 fault beside groups that cannot be read: every pair of operations overlaps, also those that lose a command, and a second assignment follows the first |

Each `TypeOK` is checked in one run of its module. Deadlock is checked in every
run but `vetis_window` and `paged_table`: a page that is closed, with its bounded
clicks and reloads used up, stands still. The bounds stand in guards of external
actions only, so that the code is never cut off: `EarlyStages` (reports of stages
before acceptance, per note), `MaxSessions` (sessions Saby
issues), `MaxChanges` (changes Mercury makes, or of the rows of a list),
`MaxEdits` (commands of users), `MaxFaults` (failed requests, restarts),
`MaxClicks` and `MaxQuenches` (of the users of a window), `MaxReads` and
`MaxLoads` (answers under way at a time: a click or a scroll waits for a place),
`MaxViews` and `MaxReloads` (times the page is built and reloaded), `MaxRow`
(rows there can be). `MaxReads` is the one that holds back a reaction of the
script too (`OtherEnded`), by delay only; under `MaxLoads` a page that arrives
leaves its place to the next one, so that no load once begun waits for it.
`QuietRounds` (in `vetis_load` only) lets Mercury change while a list is read only
if the list fits one page: otherwise a changed VSD leaves its place, those behind
it move up over the page's border, and the cursor passes them. That is a fact of
paging by offset; nothing in the repository promises otherwise. `VetisPagedTable`
has the same fact without such an assumption: `NothingSkipped` is stated for the
time in which no row has vanished.

Every property of a passing run has a mutant: a definition of the module changed
the way a mistake in the code would change it (operators marked "Mutant" in the
modules), under which TLC finds the property violated.

## Fairness

- `EtrnExchange`: the worker's loop never ends and each of its waits has a limit
  (`EtrnWorkers.cs`, an interval or a minute; HTTP timeouts), so weak fairness of
  `PollNext`, of each running request and of the clock; the operator answers
  again and again though it may fail in between, so strong fairness of
  `ReadStage` and `FetchUpTo`; restarts end, said as "the worker is not in its
  start delay for ever". No fairness of a new request, of the operator's other
  users or of successful saves is assumed.
- `SabySessions`: weak fairness of each running command; every `await` in it has
  a timeout or a token.
- `VetisIncoming`: weak fairness of the worker and of running commands, strong
  fairness of a successful list request and of the steps of an automatic command
  that succeed again and again. That the automatic quencher comes back to a due
  record is assumed there (`SF` of `Enter`) and is what `StayingIsVisited` of
  `VetisAutoQuench` shows. The conclusion is "again and again" only: while a load
  holds a stale copy it may show the old status once more.
- `VetisAutoQuench`: weak fairness of the batch; failures and restarts end
  (`<>[]~broken`). The second is needed: a record whose `Find` fails each time
  ends every batch in front of it.
- `VetisIncomingWindow`: weak fairness of the answers to the page (`Fetch`,
  `OfCall`), of its timer and what a poll leads to, and of the end of a command
  past the gate (`Leave`); none of the user and none of faults. A browser runs
  its callbacks and a request ends by an answer or an error.
- `VetisPagedTable`: weak fairness of serving a page and handling its answer.
- `InstanceExchange`: weak fairness of the node, which calls in intervals, and of
  each request in the server. `Settles` says what follows when the bounded edits
  and faults are over.

## Proofs

All theorems hold for every value of the constants that satisfies the module's
named assumption (and the condition stated in the table), and are checked by
TLAPS to the last leaf. Every safety property of every passing run is among them.

| theorem | states | invariant used |
| --- | --- | --- |
| `ExchangeTyped` | `TypeOK` of `EtrnExchange` | itself, with the typing of requests |
| `AcceptedNotesWereExecuted` | `DecisionsAreExecuted` | what every copy, request and draft holds is either undecided or already executed |
| `GateLetsOneIn`, `OnlyPollOverwrites` | one command per note, and what it read stays undecided (`OneCommandPerNote`, `HeldIsUndecided`); `OnlyPollTakesBack` | `GateInv`: a running command has its note in the gate, and between its `Find` and its saves nobody else decides it |
| `ClosedNotesMayClose` | `ClosedMeansLeftOrTold`: a closed note has left its stage, or the feed told of another stage before | `ClosedInv`: whatever lists a note as closed, the page, the draft or the reconciliation, found it so, and a note never comes back |
| `ClosedNotesHaveLeft` | `ClosedMeansLeft`, if the feed reports no stage before acceptance (`EarlyStages = 0`) | the theorem above: the feed then tells of acceptance first |
| `ExchangeIsNeverAhead` | `NeverAhead`: the refinement of `EtrnNotes`, without a condition | the decisions and the closed notes above, and `ReachedIsReported`: a note at its acceptance stage is in the feed, so that no report of an earlier stage follows |
| `OnlyDroppedNotesAreLost` | `NothingLostBehindPair`, with any database faults, as long as `KnownNotesAreLetGo`: no round lets go of a note it fetched before Central knows it | `FeedInv`: the pair the round works from is the saved one or none, and what lies before the pair it is going to save is stored or in the part of the page still to be handled |
| `PairPassesOverNothing` | `NothingLostBehindPair`, if the database answers | the same; `KnownNotesAreLetGo` then holds |
| `OnlyUnreadPairIsLost`; `PairGoesForward` | `OnlyUnreadPairGoesBack`, with any database faults; `PairMovesForward`, if the database answers | `RoundKnowsPair`: from its read on, a round works from the saved pair or from none; with it, the pair it is going to save is not behind that one |
| `SessionsKeepTypes` | `TypeOK` of `SabySessions`: the queue holds each waiting command once | `QueueInv` |
| `SlotGoesForward`, `NoLoginBesideSession`, `RetriesAreFresh` | the three safety properties of `SabySessions` | `SessionInv`: the gate is exclusive, a new session is known to its login only, sessions were issued, a refused one stays out |
| `GateIsHandedOn` | `WaitersAreServed`, `HolderIsInside`: the permit is never lost | `SessionInv`, `QueueInv`, with the lemmas about a queue from whose middle a cancelled command leaves |
| `IncomingTyped`, `JournalIsHonest` | `TypeOK`, `UtilizedHasLeft` of `VetisIncoming` | `VetisInv`: no record, copy, page or answer takes a VSD for quenched before it has left «оформлен», nor for withdrawn before it is, and Mercury never confirms a VSD again |
| `JournalIsNeverAhead` | `JournalNeverAhead`: the refinement of `VetisJournal` | `VetisInv` before and after the step |
| `CursorGoesForward` | `CursorMovesForward` | `WindowIsAhead`: every date a round may leave as the next cursor lies between the cursor and the end of its window |
| `OnlyStaleSavesUnsweep` | `SweptStaysSwept`, as long as `SavesAreFresh` | `SweepInv`: the list of the sweep still holds every record with a foreign transport, and loading carries none |
| `OnlyStaleSavesLose`, `OnlyStaleSavesDouble` | `LoadedBehindCursor`, `OneRecord`, with any commands, as long as `SavesAreFresh` and `MercuryStandsStill` | `CursorInv`: what is behind the offset of the page is stored or on the page, what is behind the cursor settled. That a page which is not full ends the list is arithmetic on ranks (`FullPage`): the n changes of a window have ranks 1 … n, and a page takes those in an interval |
| `SweepIsFinal`; `NoChangeIsLost`, `VsdHasOneRecord` | `SweptStaysSwept`; `NothingLostBehindCursor`, `OneRecord`, without quench commands, the last two with `QuietRounds` | corollaries: without commands every save is fresh, and with `QuietRounds` Mercury stands still |
| `WalkTyped`, `PassesMissNothing` | `TypeOK`, `PassMissesNothing` of `VetisAutoQuench` | `PassInv`: what the pass owes lies on the page of its lane, behind the page or was just picked, and no mark is beyond it |
| `BatchesAdvance` | `BatchesMoveOn`: marks never move back within a pass, and a full batch moves one on | `ProgressInv`: a mark is at most at its page, and once the batch has looked at something one mark has left where it began |
| `VetisIncomingWindowProofs`: `TypesKept`, `RowsKept`, `WindowHeld`, `LocksOwned`, `ProgressKept` | `TypeOK`, `RowsAreOwn`, `OwnQuenchHoldsWindow`, `NoOrphanLock`, `ProgressIsHolders` | `IInv`: an open window is that of `openedId`, its own request is the only one of its document and holds `busyId`, a request of this page that is past the gate is running |
| `VetisPagedTableProofs`: `TypesKept`, `RowsKept`, `EndKept`, `NothingLeftOut`, `OneLoadKept`, `IconIsOwed` | `TypeOK`, `RowsBelong`, `EndIsFetched`, `NothingSkipped`, `OneLoad`, `SpinnerIsOwed` | `IInv`: a page of the current generation carries the table's filters, and there is one exactly while the table loads; `SkipInv`: what the widget lacks lies behind the offset, and a page on its way starts there |
| `InstanceExchangeProofs`: `TypesKept`, `AssignmentKept`, `ForcedUpdateKept` | `TypeOK`, `AssignedStaysPending`, `ForcedStaysOrdered` | `ExchangeInv`: not the record alone but every copy that is going to be saved by a request which has not missed the command carries it, and who is about to confirm older settings has missed the assignment |
| `NoRequestIsForgotten` | `RequestsGoOn`: every request stands at a stage its handler goes on from, and what the node waits for is under way | itself, operation by operation |

The properties themselves are not inductive: they speak of the database, or of
what is on the screen, while the steps that could break them write a *copy* or
bring an *answer* taken long before. Each invariant therefore says of every place
where a copy or an answer lies what the property says of the end. They were first
checked by TLC as invariants of the runs above.

The conditions are not for the prover's sake: without them the properties fail,
as the next section says. Where a property fails in the whole model, the theorem
names the steps that are to blame and excludes nothing else:

- `SavesAreFresh`: whenever a quench command saves the record, its copy is what
  the record holds at that moment. It excludes the lost update, and neither the
  commands, nor their failures, nor the loads that overwrite *them*.
- `MercuryStandsStill`: Mercury makes no change while a list of more than one page
  is being read (a list of one page may change at any time).
- `KnownNotesAreLetGo`: a round strikes a note it has fetched from its list only
  when Central has a record of it, or by a restart, which drops the round with its
  pair. The `Save` that fails and is skipped with a warning breaks it, and nothing
  else can lose a note.
- `ToldEarly`, in `ClosedMeansLeftOrTold`: the feed told of a note before it told
  of its acceptance, and the poll cannot tell such an event from the end of the
  stage.

Behaviours that satisfy them are those in which nobody comes between the one
`Find` and `Save`, no list is changed while it is turned over, and no `Save` of a
fetched note fails: most behaviours, with all other failures, cancellations and
restarts. `LoadedBehindCursor` is
`NothingLostBehindCursor` but for one case, a withdrawn VSD that a command took
for a quenched one (`Agrees`); without commands the two are the same.

Some of the theorems speak of properties no run lists. Three are the stronger form
of one a run does, or follow from it under a condition (`UtilizedHasLeft` follows
from `JournalNeverAhead`, `ClosedMeansLeftOrTold` gives `ClosedMeansLeft` where no
earlier stage is reported, `LoadedBehindCursor` gives `NothingLostBehindCursor`).
The others are action and state properties on which the liveness properties rest, since liveness
itself is out of the prover's reach:

| liveness, checked by TLC | what is proved of it for all constants |
| --- | --- |
| `AcceptanceReachesCentral` | the pair never moves back and passes over nothing (`PairGoesForward`, `PairPassesOverNothing`), while the database answers |
| `CommandsEnd` | whoever waits for the gate queues behind a holder that is inside and will release it (`GateIsHandedOn`) |
| `UtilizedIsShown` | the cursor never moves back, and what it has passed is stored (`CursorGoesForward`, `OnlyStaleSavesLose`) |
| `StayingIsVisited` | every full batch moves a mark on, so that a pass is finitely many batches (`BatchesAdvance`), and a finished pass has visited what stayed (`PassesMissNothing`) |
| `LocksEnd` | every lock has somebody on the way who ends it (`LocksOwned`) |
| `SpinnerEnds` | the icon turns only while a page is on its way that puts it out (`IconIsOwed`) |
| `Settles` | no request is left where nobody goes on with it (`NoRequestIsForgotten`), and an assignment no older request takes back stays pending until the node has it (`AssignmentKept`) |
| `SendingResolves` | nothing but the poll undoes a stored outcome (`OnlyPollOverwrites`) |

Only model-checked: the liveness properties themselves, for the prover has no
`ENABLED`. No module declares a `RECURSIVE` operator, and no theorem rests on
induction over data.

## Where the code departs from its documents

Shown by a violation run, with the quoted line in `PROJECT.json`:

- `etrn_overwrite`: the poll saves "Waiting" over a decided or sending note when
  the acceptance ends between its `Find` and its `Save`; a comment says decided
  documents are not touched.

Observed with the models and asserted by no run (some have a definition in the
module, marked so):

ЭТрН:

- a note stored from a page that also holds an event of an earlier stage is
  closed at once, though it waits for acceptance (`ClosedMeansLeft` fails as soon as
  `EarlyStages` is not 0); `ClosedMeansLeftOrTold` and `NeverAhead` confine that to
  notes an earlier stage of which was reported;
- `WaitingKeepsTitle`: the query of stuck notes leaves the title out, and the
  reconciled record is saved without it;
- with `DbFaults`, `NothingLostBehindPair` fails: one failed `Save` of a page is
  logged and the position passes it;
- with `DbFaults`, `PairMovesForward` fails: a failed read of the position makes the
  round start from an empty one and save it, also when the login or the connection
  fails, though the design document
  (`docs/superpowers/specs/2026-11-04-etrn-saby-design.md:132`) says «Ошибка входа и
  обрыв связи пишутся в состояние опроса, пара идентификаторов не сдвигается.»
  `OnlyUnreadPairGoesBack` confines the loss to such rounds;
- a save of "Waiting" over "Closed" after the closing event was passed leaves the
  note waiting (two notes and over thirty steps, beyond the runs);
- `DropsOnlyItsOwn` (a comment of `SabySessionStore`): a command that got `null`
  drops whatever session lies there; the next one logs in again;
- the design document says that the acceptance does not catch exceptions of the
  gateway; `EtrnAcceptanceService.cs:122-126` does. The model follows the code;
- the window of an ЭТрН (`etrnIncomingWindow.js`) lacks the checks for another
  document that the window of Ветис has.

Ветис:

- `QuenchKeepsLoaded`: a VSD the load adds between the `Find` and the `Save` of a
  quench is erased; the comment says the second `Find` prevents that;
- `OneRecord` with quench commands: a stale copy brings back a VSD that moved;
- `UtilizedIsQuenched`: a VSD withdrawn in Mercury is stored as quenched, for the
  refusal reads the same; the plan of the quench fixes says so itself;
- a document that is opened, quenched, replaced by another and opened again may
  be quenched a second time; the `finally` of the first request then frees
  `busyId` and the window while the second is under way, and Esc closes it. The
  plan of the quench fixes (`docs/superpowers/plans/2026-10-31-vetis-quench-fixes.md`,
  lines 918 and 932) compares documents only and says that Esc does not close a
  window during a quench. `OwnQuenchHoldsWindow` is stated for the only request of
  a document;
- a reload that fails leaves the button and the volumes of the window locked
  until the document is opened again (`stranded`);
- `applyQuenchReport` leaves the button «Погасить» as it was, also when the report
  says that nothing is left to quench; the same plan (line 932) says it is not to
  be had for an accepted document;
- a quench of others that begins and ends between two polls is not seen, and of
  two reloads the older may arrive last: the window then shows an old state of
  its own document;
- a row that vanishes makes the next page of a list skip one until the list is
  loaded anew; a page that fails ends the list until then; the table of a page
  that was left writes into the widget of the page that came after it, which has
  the same id (`foreign`).

Nodes:

- an assignment or an ordered update saved while another request holds an older
  copy of the record is lost when that copy is saved (`missed`);
- `AssignGroup` reports success and flags the record also when the group or its
  schema could not be read, and saves the old settings with the new group; the
  node then fetches and confirms its old settings;
- a confirmation names no version: one that is on its way when settings are
  assigned clears their flag, and the node never asks for them (`older`).
  `Settles` does not say otherwise: record and node agree in the end, for the next
  packet puts the node's settings back, but they need not be those of the group;
- `ForcedUpdateId` is cleared before the first byte of the file is sent, so that
  a download that breaks is not repeated; a lookup of the file that fails for a
  moment drops the order too (`PacketForgets`);
- the form of a node sends group and flag as the list knew them, whatever has
  changed since, and `CreateNew` drops the times of the handshake and of the last
  access without tokens.

## What is not modelled

XML and cryptography (titles, signatures, SOAP), logs and job status, the request
and application journals (written, never read by a decision), controllers,
installers, dump and compaction: they keep no state that others decide by.
Partly modelled are the journal of Ветис (one enterprise and one slice of its
window), the nodes (one node; no search, deletion or merge of schemas, statistics
and calendar), the access to CouchDB (saves and their failures, not the status
worker and the indexes) and the browser (the window and the list of Ветис, the
form of a node; the other pages are forms and lists, and their races are listed
as hazards). The components of stages 3 and 4 of the plan are not modelled *yet*;
their hazards are listed.

By lines the greater part of the JavaScript in the repository is vendored
(monaco, webix, pdf.js: about four fifths), and the program's own core is C#; a
share of JavaScript lines therefore says little of what is modelled.
