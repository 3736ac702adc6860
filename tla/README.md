# Tippy: models and proofs

Tippy is an ASP.NET application that creates CKB chains for development, runs the
processes of each (`ckb`, `ckb-indexer`, `ckb-miner`), mines blocks, keeps a denylist of
transactions, and shows what is on a chain. This directory models the parts of it in which
requests, timers, child processes, files, the database and the scripts of its pages meet, checks
the models with TLC, and proves what matters most about them with TLAPS.

Paths below are relative to the repository's `src/` directory.

## 1. Inventory

How a request reaches the code: ASP.NET serves every request on a thread of its own. Each
request has its own Entity Framework context (`TippyDbContext`), that is, its own copy of the
rows it reads. `ActiveProjectFilter` and `PageModelBase` read the projects and choose the
active one before the handler runs. What requests share is the SQLite database, the static
fields of `Tippy.Ctrl`, the child processes, and the files of the chains. There is no lock
anywhere.

| Component | State | Operations | Interacts with |
|---|---|---|---|
| Process control: `Tippy.Ctrl/ProcessManager`, `ProcessGroup`, `Process/CommandProcess` | static list of groups; three child processes per group | Start, Stop, Restart, ResetData, StartMiner, StopMiner, Stop of all at exit | pages and API call it with the row they have read; the children bind ports, exit, or are killed |
| Advanced mining: `ProcessGroup` lines 104-180, `ProcessManager.StartMiner` | timer, count of blocks to go, copy of the denylist, per group | mine one block, start advanced mining, the timer's handler | RPC calls to the node; the handler runs on pool threads beside the requests |
| Projects and denylist: `Tippy.Core`, `Api/TippyRpc`, `Pages/Projects`, `Pages/Home`, `Pages/DeniedTransactions` | tables Projects and DeniedTransactions | create (three ways), activate (two ways), edit, delete, deny, allow | the active project decides which chain every other request is about |
| Chain files: `Process/NodeProcess`, `CommandProcess`, `CreatesSpecToml`, `WorkPathManage` | one directory per chain: `ckb.toml`, the spec, its contracts in `specs/cells`, `data`, `indexer-data` | initialise, configure, copy contracts, run, reset | runs inside Start and ResetData of process control; `ckb init` and `ckb run` read and write the same files |
| Debugger: `Process/Debugger`, `Pages/Debugger` | two static processes (each a ttyd, one with gdb, one with ckb-debugger), a file per script with the transaction | open a session, close | two fixed ports that the page's frames show; the transaction and its cells from the active chain's node |
| Log streaming: `CommandProcess.HandleOutput`, `Program`, `Hubs/LogHub`, `wwwroot/js/log.js`, `lib/ansi_up` | lines on their way; per page a connection and a converter with buffer and style | read, send, convert, add a paragraph | events of the process groups, SignalR, the log page |
| Message boxes and notifications: `wwwroot/js/lobibox.js` | boxes, notifications, timers, one backdrop for all boxes | show, hide, destroy, set progress, set size and position; notify and remove | clicks, keys, other scripts of the page, the browser's timers |
| Upload page: `Pages/MyConstract` | the chosen file, a box per choice | choose, answer, submit | message boxes; the upload handler |
| Recorder and RPC proxy: `Api/TippyRpc` 47-87, 567-632 | table RecordedTransactions | pass a call on, record `send_transaction` | the node; a save that nothing awaits |
| Rollback: `revert_blocks`, `Pages/Blocks/RollBackTo` | the node's chain | truncate to a block below the tip | the node |
| Explorer pages: `Pages/Blocks`, `Transactions`, `Addresses`, `Tokens`, `Cells` | none | windows and pages over answers of node and indexer | RPC clients |
| Addresses, Molecule, types: `Ckb.Address`, `Ckb.Molecule`, `Ckb.Types` | none | pure functions | called by pages and mining |
| RPC clients: `Ckb.Rpc` | none | one HTTP call each; failures become null | node, indexer |
| Settings, environment, views, `site.js`, form validation | files, classes of elements | I/O, markup | - |

What is hard, and what would make each part correct:

- **Process control.** Two requests start or stop one chain at once; a start fails half-way; a
  child dies while its group is listed; a miner is started while its chain is stopped; the
  application ends while requests are in progress. Correct means: a live child can always be
  stopped (somebody refers to it), a listed chain has been started, a chain that is not listed
  has no child that would get in the way of the next start, data is deleted only under a chain
  that is down, a restart comes back.
- **Advanced mining.** The handlers of the timer may overlap, the count is decremented without
  a lock, calls fail silently, a template gets outdated, a stop leaves the timer running, the
  denylist is a copy. Correct means: as many blocks as asked for, an end, no timer that nobody
  can stop, no denied transaction in a block.
- **Projects and denylist.** Requests compute on rows they have read earlier. Correct means: one
  active project, distinct ports, a denylist that refers to existing projects and that says what
  the answers say.
- **Chain files.** Initialise, copy, configure, run, edit, reset, start again, with a fault between
  any two, and with starts that do not know the contracts. Correct means: a chain keeps the
  contracts it was initialised with, the data is of the genesis in the spec, node and indexer
  hold the same chain.
- **Debugger.** A child that was made and never started makes every later Stop throw; sessions
  share ports and files; children outlive Tippy. Correct means: no child without a reference, none
  after Close, and a page shows what it was opened for.
- **Log streaming.** An escape sequence is cut by the end of a line; lines of several streams
  and chains use one connection; the page is loaded and disconnected in between. Correct means: a
  paragraph for each line, in the looks it has without the cut, and no line that freezes the page.
- **Message boxes, notifications, uploads.** Timers that nobody cancels find their box shown, hidden
  or gone; an answered box can be answered again. Correct means: a backdrop if and only if there is a
  modal box, a report of completion at 100 % and only there, an open tab, the file that is sent is the one
  that was named.
- **Recorder.** The save may fail after the answer has been sent, on a thread where nobody
  catches the exception.
- **Pure functions.** Boundaries: the first page, the genesis block, zero and the largest values.

`PROJECT.json` lists all components and, under "hazards", the lines where these bite.

## 2. Plan

| Module | Of | State |
|---|---|---|
| `ProcessManager` | process control | modelled, checked, proved |
| `AdvancedMining` | timer, single blocks, denylist filter | modelled, checked, proved |
| `Projects` | projects and denylist in the database | modelled, checked, proved |
| `Chains` (abstract) | what a user is promised of a chain: up, down, mining; `ProcessManager` implements it, one request at a time | checked, proved |
| `CommandProcess`, `ChainFiles`, `Debugger`; `DebuggedChain` composes them | the directory of a chain; the two children of the debugger | modelled, checked, proved |
| `AnsiUp`; `LogStream` extends it; `Rendering` | the converter; the way of a line to the page; the reference for what the page shows | modelled, checked, proved |
| `MessageBoxes`, `UploadPage`, `Notifications`, `BoxLayout`; `PageScripts` composes them | the scripts of the pages | modelled, checked, proved |
| `Recorder` | proxy and recorder; `Rollback` with it | open |
| `Paging`, `Address`, `Molecule`, `ChainTypes` | pure algorithms, as operators against a reference definition, bounded inputs | open |

Each `MC` module instantiates a specification for TLC; each `_proofs` module holds the theorems
of one. Modules that are proved about have no recursive operator; the one recursion, that of the
reference in `Rendering`, is a recursive function. Open besides: visits of the debugger that overlap.

## 3. The models

### ProcessManager

| Model | Code |
|---|---|
| `row` | the row of the project, as far as ports are concerned |
| `groups` | `ProcessManager.processGroups` |
| `info[g]`, `proc[g]` | a group's `ProcessInfo`, and its three `CommandProcess` fields with the state of the process each refers to |
| `pc`, `req` | where each request is, and the row it has read |
| `leaked` | history: groups nothing refers to any more |
| `faults` | history: faults so far (an executable that cannot be started, a lost slot in the list, an end of the application), bounded by `MaxFaults` |

`StartLookup` to `StartAdd` are the steps of `Start`, `StopFind` to `StopRemove` those of `Stop`,
with the test and the kill of each child a step of its own, since a second `Stop` can come in
between (`StopKillNull` is the exception that it gets). `AfterStop` is what the handler goes on
with: nothing, a start, the reset, the save of an edit. `Bind` and `Die` belong to the
children, `Crash` and `AppExit` to the application.

Merged or left out: the node's two ports are one, as they are always tested and taken together;
`List.Find`, `Remove` and `Add` are one step each, except that two overlapping `Add`s may lose
one; the miner is launched in one step (its own `Stop` and `Start`); a child that has exited
and been leaked is forgotten. `ProcessManager.Stop()` of all groups at exit is `AppExit`.

### AdvancedMining

One running dev chain. `deny`, `timer`, `remaining` are the group's fields, `enabled` the timers that
raise `Elapsed`, `copy` what `remainingBlocksToMine -= 1` has read. `Load` and `Assign` are the
handler and `StartMiner` (the rows are read in one place and assigned in another), `Check` and
`Create` are `StartAdvancedMining`, `Guard`, `GetTemplate`, `NoTemplate`, `Submit` and `SubmitFails`
are `MineOneBlock`, `Read`, `Write` and `Test` the end of `OnMiningNextBlock`. `Halt` and `Forget` are the
steps of `StopAdvancedMining`: the field is read for `Stop` and for `Dispose` and set to null at last, and another handler
or a request can come in between (the exception it may get there is swallowed by the timer). The node (what a
template contains, that a block on an old tip changes nothing) is external.

History: `asked`, `mined` and `lost` count; `overlapped` says that two handlers have run at once, `crowded`
that two requests have, `late` that a mining was started while a handler of the one before still ran.

What the code does, and the model with it: a handler left over from a mining that has been stopped may write its count over that
of the next mining, and stop it before its blocks are mined; two handlers that decrement at once may take the count
past zero, and then mining goes on until the count wraps around.

Merged or left out: `deny` is read in one step when a block is made; `Create` is one step, since the
first `Elapsed` of the new timer is an interval away and the steps of handlers left over come before or after it.

### Projects

| Model | Code |
|---|---|
| `row`, `nextId` | table Projects: ports and flag of each; AUTOINCREMENT |
| `denied` | table DeniedTransactions: its index is unique over transaction and type, so it is a function from these to the project |
| `view[t]` | the projects in the request's Entity Framework context, as far as it uses them again |
| `pc`, `req` | step and parameters of each request; `form` is a Create page that a user has open |
| `stale`, `raced`, `edited` | history: whose view a save of another has outdated; that such a request created or activated; that a user typed ports in |

A request reads (`CreateChain`, `QuickStart`, `OpenForm`, `SetActive`, `Delete`, `Edit`, `Deny`), may read again
(`Refresh`, through the context: `Reread`), and saves. A save is one transaction that writes the
columns in which the context differs from what it has read; an update or delete of a row that
is gone fails as a whole (`Throws`).

Merged or left out: the filter's, the page's and the handler's first queries are one, as nothing is
decided between them; the query and the delete of unban are one; names, lock args, tokens and
contracts are not kept.

### Chains

`Chains` has three variables: the settings of each project (`settings`), the chains that are up (`up`), the
children of each that live (`live`). A node starts only where nothing lives; a chain goes down only
when nothing of it lives; only a dev chain that is up gets a miner; a row changes or goes only
under a chain that is down and dead. `ProcessManager` instantiates it as `Promise` with `settings`
the rows, `up` the chains in the list, `live` what runs in groups that somebody refers to;
`ImplementsChains` is its specification. Most steps of a request are stutters there; a start that
fails after its node has started is `Loses`: children that nobody refers to are forgotten in `Chains`, too
(`NoLostChild` is about them).

### CommandProcess, ChainFiles, Debugger, DebuggedChain

`CommandProcess` is what the two users of the class share: the states of the field `process`, the
exception of `Kill`, the step of the request in progress (`step`), the bound on faults.

| Model | Code |
|---|---|
| `lockArg`, `info` | the project's row, and the `ProcessInfo` made from it; `info.contracts` is null unless the query included them |
| `conf`, `spec`, `cells` | `ckb.toml`, `specs/dev.toml`, `specs/cells` |
| `data`, `indexed` | `data`, `indexer-data`: the genesis they were built on |
| `node` | the node's process and the field that refers to it |
| `origin` | history: who initialised the chain, and whether something went wrong then |
| `gdb`, `dbg` | `GdbProcessInstance`, `DebuggerProcessInstance` |
| `orphans`, `leftover` | ttyds that no field refers to; ttyds of earlier runs of Tippy |
| `mock` | the file that `WriteMockTx` writes, per script |
| `session`, `page`, `closed` | the session being opened, the one whose page is shown, whether the last request was a Close that returned |

A start goes through `BeginStart` (the Start page, `start_chain`, or the second half of Restart), `FoundInitialised` or
`InitChain`, `CopyContracts`, `UpdateConfiguration`, `RunNode`, `RunIndexer`, and each of them has its way to fail, swallowed or
not, as in the code. `StopChain` is followed by a reset, a save or a start. `NodeAccepts` is
external: `ckb run` exits without a configuration, without a contract that the spec names, or
with data of another genesis. A session is `Dump`, `WriteMockTx`, the two stops, `MakeBoth`, the two starts.

What the code does, and the models with it: `Reset` deletes nothing, since `File.Exists` is false for a
directory; only the Start page loads `Contracts`, so a chain first started by `start_chain` or by the Restart page
is initialised without the contracts that were chosen for it; an application that is killed between
`ckb init` and the copy leaves a chain without contracts that no later start repairs; a ttyd
survives Tippy, and the next session's page shows what it serves; a ttyd that could not be
started makes every later Stop of the debugger throw, until Tippy is started again.
`GenesisHasContracts` and `FramesShowAsked` are stated with exactly these ways out.

Merged or left out: ports, capacity and extra toml, which are written beside the lock arg; chains
of type testnet and mainnet; the wait of a second after the node; the binary of the script, which
is written beside the transaction. Requests come one at a time in these modules: what overlapping
requests do to the list is `ProcessManager`; two visits of the debugger that overlap can leave a ttyd that no
field refers to, which is not modelled.

### AnsiUp and LogStream

`AnsiUp` is `ansi_up.js`: `buffer` is what it holds back, `style` the current looks, `conv` and `cmds` where the loop of
`ansi_to_html` and that of `process_ansi` are, `blocks` what the call has made so far. A character is one of the
classes its regular expressions tell apart. `TextPacket`, `EscPacket`, `CsiPacket`, `LinkPacket` are the passes of the
loop by the kind of packet `get_next_packet` finds, `SgrCommand` one command of an SGR sequence, `AtEnd` an incomplete or empty
buffer.

`LogStream` is the way there: `WriteLine` and `EndOfStream` (`HandleOutput`, with `null` at the end), `Send` (`OnNodeLogReceived`), `wire`
(SignalR: in order, to the page if it is connected), `ReceiveLog`, `Convert`, `AddParagraph` (`log.js`), `LoadPage`,
`ConnectionStarts`, `ConnectionLost`. `heard` is history.

What the code does, and the model with it: the end of a stream is shown as a paragraph with the word
null; the box is never trimmed; a lost connection is not made again; an ESC [ that is followed by a
character that is no part of a sequence holds the display back until one that makes it illegal.

`Rendering` is the reference the page is compared with: a function (`Converted`) that takes a whole input in one go, one
character or one sequence at each turn, to the characters that are shown, each with its style and
its URL (`Cells`). The blocks the converter makes of a text depend on where lines are cut; the cells do not.

Left out: the configuration of the converter, on which no step depends (the page sets `use_classes`, so that a
style is written as class names and not as colors; it leaves the url schemes as they are); wording, scrolling.

### MessageBoxes, UploadPage, Notifications, BoxLayout, PageScripts

`MessageBoxes` is the first half of `lobibox.js`, of which `messageboxes.js` is a copy: `opt` the options of the boxes made,
`doc`, `hidden`, `unbound` where the element is and whether it has handlers, `pending` the callbacks of `hide` and
`destroy` that wait for their timer, `backdrop`, `loading`, `progress`. Each method is an action that scripts may take in any
order, and so are the clicks, the keys and `TimerFires`. `setProgress` stores the progress, calls the script's
`progressUpdated`, and then tests for 100: `SetProgress` is the first half, `ProgressUpdated` the second, `calls` the stack of
those in between. What `progressUpdated` does is any sequence of calls of the methods, `setProgress` of any box included;
timers, clicks and keys wait until the stack is empty, since a page has one thread. `nested` is history. `UploadPage` is the script in
`Pages/MyConstract/Index.cshtml`. `Notifications` is the second half (`notifications.js` is a copy): `shown`, `ticking` (delays),
`removals` (those that wait half a second), the tabs of large notifications and the open one.
`BoxLayout` is size and position as integers, with the height of the body that jQuery's `css` takes (0 for a negative one), and the
position by name or by numbers. In `PageScripts` a page has one of the four, as pages of
the application do.

What the code does, and the models with it: two clicks on "yes" submit the form twice; "no" and then
"yes" submits it without a file; Esc goes on destroying boxes that are gone; a hidden modal box
keeps the backdrop; a window is shown when its content arrives, even if it has been destroyed; a progress box reports its completion once for each call of `setProgress` that has not returned when it
gets to 100 %; a large notification throws without Bootstrap's tabs, and cannot be closed then.

Left out: dragging, titles, icons, sounds, markup, the call of a window's `load` by a script; the boxes' other callbacks
(`onShow`, `shown`, `beforeClose`, `closed`), and what a handler of `progressCompleted` calls.
The application itself uses `Lobibox.confirm` only.

## 4. The runs

| Run | Question | Bounds | Result |
|---|---|---|---|
| `pm_sequential` | Is process control right if requests come one at a time? | 2 projects, 2 groups, two settings that clash in a port, one thread, no faults | holds: `UniqueGroup`, `RowAgrees`, `NoOrphan`, `ResetWhileStopped`, `RestartComesBack`, `ImplementsChains` |
| `pm_concurrent` | What is left of it if requests overlap? | 1 project, 2 groups, 2 threads, 1 fault | holds: `TypeOK`, `RegisteredIsStarted`, `NoLostChild`, `LeavesListDown` |
| `pm_stop` | Is a chain down once `stop_chain` has returned (README.md:307)? | same | violated: a miner started meanwhile runs on |
| `am_ticks` | Do blocks add up and does mining end, with handlers that overlap anywhere? | 1 request thread, 2 pool threads, 2 timers, 1 transaction; 1 block with a denylist, or 2 blocks in one or two minings without | holds: `TypeOK`, `BlocksAccounted`, `NoLeakedTimer`, `ZeroIsNoticed`, `SingleHonoursDenylist`, `MiningEnds` |
| `am_zero` | Does `mine_blocks` mine the number asked for (README.md:385)? | a request of 0 blocks, 1 pool thread | violated: the count is decremented before it is compared with 0 |
| `am_disallowed` | Does a denied transaction stay out of blocks (TxPool/Index.cshtml:157)? | 1 pool thread, up to 2 blocks | violated: ticks use the denylist that was loaded when mining began |
| `projects_races` | Active project and ports when creates, activations and deletes overlap | 3 ids, 2 threads, no typed ports, no denylist | holds: `UniqueActive`, `LoneActivation`, `PortsDistinct` |
| `projects_denylist` | The same with edits and the denylist | 2 ids, 2 threads, 1 typed setting, 1 deniable | holds: `TypeOK`, `DeniedOwned`, `ActiveStays` |
| `projects_added` | Does the active project deny what `ban_transaction` says it added (README.md:437)? | 2 ids, 1 thread | violated: another project's denial blocks the row, and the exception is swallowed |
| `debugged_chain` | What do starts, edits, resets and debugger sessions that fail or are cut off leave for later ones? | 2 lock args, 2 contracts, 2 transactions, 2 scripts, 2 faults | holds: `DebuggedTypeOK`, `GenesisHasContracts`, `FilesAgree`, `NoneIsForgotten`, `FramesShowAsked` |
| `log_lines` | Does each line of the page's chain get its paragraph in its looks, wherever lines end? | 2 streams of 2 chains, 3 lines, whole and cut sequences | holds: `LogTypeOK`, `OneParagraphEach`, `CutDoesNotMatter`, `LinesDoNotMix`, `LinesAreShown` |
| `page_scripts` | Do boxes, backdrop, answers, tabs and sizes come out right in any order of calls, clicks and timers? | 2 boxes, 2 notifications, 3 waiting callbacks of a box, 2 calls of `setProgress` within each other, 2 removals, 2 files | holds: `PageTypeOK`, `BackdropMatchesBoxes`, `CompletesOnce`, `UploadIsNamed`, `TabStaysOpen`, `FitsWindow`, `BackdropGoes`, `NotesGo` |

Why these bounds are enough. Hazards between requests need two of them: the code has no place
where a third request meets two that are half-way, other than as a repetition. Two groups let
a chain be started twice or replaced. Two blocks let a tick overlap the last one and the last but
one. Three projects are needed for "the one that is active, the one to be activated and another
one", and for ports of different kinds to come from different projects. Where a bound limits a
counter it is in a guard: `MaxFaults`, `MaxAsked` (blocks asked for in all), `MaxBelow` (how far the
count falls below zero before TLC stops raising ticks), `MaxId` (projects ever created), `MaxLines` (lines read),
`MaxTimers` (callbacks waiting for one box), `MaxCalls` (calls of `setProgress` within each other), `MaxRemovals` (removals of one notification). Two faults let a second
one meet what the first has left; two sessions or two contracts are enough to differ in one
thing and agree in another. The run of `AdvancedMining` has the denylist
and the second mining apart (`OneDenied` in its MC module), to keep its states few enough for liveness; the safety properties are proved
for both together. Three lines let a sequence begin in one, go on in the next and end
in the third. `CutDoesNotMatter` compares with the same text as one line; `MaxUrl` is only large enough for
the links of the instance. The theorems hold for every value of the bounds.

Deadlock is not checked: with the bounds reached the systems may stop, and an idle
application is a legal end state.

Several properties are stated with a way out (`raced`, `overlapped`, `crowded`, `late`, `nested`, `leaked`, `faults`): without it
they do not hold of the code, which has no locks, and lets callbacks call it again. The ways out are exactly the events named at their
definitions, and every one of those events can happen in the run (`crowded` alone cannot: it takes a second request thread, which only
the theorems have): the property says what is lost by it and that nothing else is. `BlocksAccounted`, for instance: two handlers that overlap can lose a
decrement, so that a block too many is mined, and this is all they can do; that mining never ends short of the blocks asked for
holds however they overlap. It does not hold once two requests have run at once, or a mining has been started among the handlers of the one before.
`UniqueGroup` has no way out and holds with one request at a time; that two starts of a chain which overlap list it twice is in `pm_concurrent`, whose
properties hold all the same. A `mine_blocks(0)` (`am_zero`) is why the theorem on the count asks for positive numbers.

`RestartComesBack` has two parts, so that the old group of a listed chain does not pass for the new one. A restart whose ports nobody
else holds comes to a moment (`Restarted`) at which the chain is in no group and the new one has been started; from there the
request ends with the chain listed. The way out is a fault in between.

### Fairness

`FairSpec` of `ProcessManager`: a request in progress takes its next step (no lock is waited for, and
the only wait is for a killed process to exit). No fairness for requests to come, for children to
bind or die, or for faults. `RestartComesBack` depends on it.

`FairSpec` of `AdvancedMining` (in the run as `MCSpec`): a handler in progress takes its next step; an enabled timer
with `AutoReset` raises `Elapsed` again and again; and a call that is made again and again gets a template some time
(`NoTemplate` ends the handler before the count goes down, so a node that never
answers does keep mining from ending). `MiningEnds` depends on it; its way out is a count that overlapping handlers or requests have taken
past zero.

`LogFairSpec`: the page's event loop goes on with what it has begun and takes a message that has arrived;
`LinesAreShown` depends on it. `PageFairSpec`: the browser fires a timer that is due, of each box and each
notification, those of boxes also if scripts are again and again in the middle of a call when they are due (strong fairness); `BackdropGoes` and
`NotesGo` depend on it, and `BackdropGoes` gives up if a `progressUpdated` never returns. Nothing is assumed of users, scripts, processes and
connections.

`Projects` and `DebuggedChain` have safety and action properties only.

## 5. The proofs

Each component's theorems are in a module of their own, which no run uses. They hold for any
finite or infinite set of threads, groups, timers and transactions, and for any value of
the bounds; the assumptions are those of the modules, which TLC evaluates in the runs, and those a
theorem states itself. Those of the modules give types to the constants (`ConstantsAssumption`, `MaxFaultsAssumption`, `MaxUrlAssumption`,
`LogAssumption`, `BoxAssumption` and the like), say that null is none of the values it stands beside (`NullAssumption`,
`FilesNullAssumption`, `DebugNullAssumption`), and that scripts give booleans to options a box has
(`OptionsAssumption`).

**ProcessManager_proofs.** `TypeCorrect`. Then, with requests that overlap in any way,
`RegisteredAreStarted`, `ChildrenAreNotLost`, `GroupsLeaveDown`. None of the three is inductive: that a group leaves the
list with its node down needs to know what its `Stop` has done so far, and that no second
request has started that group anew. `ChildInv` adds `Own` (a group in the hands of a starting request is
in no list and in no other hands), `Done` (what a start or stop has done stays done) and `Attended` (a listed
group without an indexer or node has a stop at a step past it). `OneRequestAtATime` assumes that there is
one request at most (`Sequential`) and proves `UniqueGroup`, `RowAgrees`, `NoOrphan` and `ResetWhileStopped`, from
`SoloInv`, which adds what the request in progress knows of its group at each step.

`ChainsAreListedOnce`, `ChainsAgreeWithRows` and `ResetsAreOfStoppedChains` are its parts, one for each property.

**Chains_proofs.** `ChainsAreImplemented`: under `Sequential`, `Spec => ImplementsChains`. The initial states map to initial
states; then there is a lemma for each action of `ProcessManager` that says which action of `Chains` it
is or that it stutters. `SoloInv` gives what those need of the request in progress: that nothing of
the chain lives when its node is started, that all is down when the group leaves the list, that the
group in the hands of a start is the only one of its project. Two facts are added: that a miner is
launched for dev chains only (`DevOnly`), and which groups the live children of a project can be in (`LiveGroups`).

**DebuggedChain_proofs.** The files and the debugger have an invariant each; a step of one leaves the variables
of the other alone and is never in the middle of the other's request. `FilesInv` adds to the
properties what a start knows (`info` is not null; when the contracts are copied by a start of the
page, nothing was there before) and what a directory that was never initialised cannot hold.
`DebugInv` adds what a session has done so far (`SessionKnown`), which children are down after each
stop (`StoppedSoFar`), and that a page is shown only between requests (`PageKnown`). From these follow `DebuggedTypes`,
`ContractsAreInTheGenesis`, `DataFollowsTheSpec`, `NoTtydIsForgotten` and `PagesShowTheirSession`.

**AdvancedMining_proofs.** `TypeCorrect` (a request in progress has its parameters). `TimersAreNotLeaked` (`NoLeakedTimer`) for any
requests, `MiningIsCounted` (`BlocksAccounted`) for positive numbers of blocks; both hold while handlers overlap. There are two invariants, since
a count that overlapping handlers write is exact no more, but still a bound. `SoloInv`, as long as no two handlers overlap: there is one
handler and one request in progress, and `mined + lost + remaining = asked`, corrected by what the one handler has
mined or read and not yet counted. `LongInv`, however handlers overlap: the only enabled timer is the group's, and no request creates another
while there is one (`OneTimer`); the count, and every copy of it that a handler is going to write, is large enough for
what has been asked for, mined and lost, and for a decrement by each handler that has mined or lost a block and not read the count yet
(`NeverShort`, whose parts are `Covers` with `AheadSet`, these handlers). A handler that decrements an old copy writes a larger number than it
should, never a smaller one; so a handler that finds zero has all blocks asked for behind it. Only a request or a handler that was
there before the timer breaks this, which is what `crowded` and `late` say. `ZeroIsAlwaysNoticed` (`ZeroIsNoticed`) has no such exception:
whatever overlaps, a count of zero has a handler that is yet to test it or to stop the timer.
`SingleIsHonoured` is the action property `SingleHonoursDenylist`. It needs, of every thread's template,
that it holds only what the chain can take next unless a block has come in between (`FreshTemplates`), and, of
the one request, that the group's list is the one it brought and its template was filtered by
that (`Honours`); a handler of the timer changes neither, it only makes the template stale, so only a second request is exempted.

**LogStream_proofs.** `LogType` and `OneParagraphAlways` follow from `LogInv`, which adds to the types that
commands are only left inside an SGR sequence and that each has its ";" (`Commands`: without it `shift` would run off the
end), that between two lines only a buffer is held back that `get_next_packet` calls incomplete, and that
no more was sent than read. Types of the converter are no formality: that a style is one needs that the palette and
the three values of a true color stay in 0..255 for every command (`ExtendedColorTurn`, `SgrTurn`), that a block's text
is cut inside the buffer needs where a link's positions lie (`LinkPositions`). About the converter itself,
for any line: `OnePacket` says that a buffer begins with exactly one kind of packet, which ends at one place, so
that the order of the regular expressions and the choices the model leaves decide nothing;
`DecidedPacketsStay` that more input does not change an escape sequence once it is told apart, which is why only a sequence
that is held back can tell where a line ended; `ConverterNeverStuck` and `ConverterAdvances` that there is always a packet or the end, and
that each step shortens the buffer or the commands: together the reason why `LinesAreShown` holds.

**Rendering_proofs.** What the page shows against the reference, for any lines. The reference is a recursive function, and
so is the library's `FlattenSeq`, by which paragraphs and lines are joined. What they compute is proved by induction over
their input, in four stages:

1. Recursion that goes down a measure has a solution, and induction along a measure holds
   (`SolutionExists`, `UpTheMeasure`, from the least element of a set of naturals). Predicates are sets there and the steps of the
   recursion are functions, since no prover instantiates a theorem with an operator as parameter.
2. `FlattenAppend` and `CellsAppend`: a block more at the end gives its cells more at the end. `TextJoin`: a text that is cut gives the
   cells of its parts.
3. One turn of the reference, with and without more input behind it (`TurnTo`, a lemma for each kind of packet): it takes the same packet and
   leaves what follows alone. This is where `OnePacket` and `DecidedPacketsStay` are needed, and why the turns shorten their input (`TurnIsLess`), so that
   the equation of the reference holds of every input (`ConvertedExists`). From it follows `CutAnywhere`: a conversion may stop at any place of
   its input and go on from what it holds.
4. `ConvertStep`: a step of the converter leaves the rendering of what the converter holds as it is. A text packet takes as many turns as it has
   characters (`CharByChar`), each other packet one.

`CutDoesNotMatter` and `LinesDoNotMix` are about moments between two lines and are not inductive. `CutInv` says at every moment
that what everything heard renders to is what the paragraphs, the blocks of the line under way, and the buffer, style and commands
render to. A new line keeps it by `CutAnywhere`, a step of the converter by `ConvertStep`; at the end of a line nothing is
left to convert. `MixInv` says that of the line under way alone, and adds that after lines that end what they begin the buffer is empty and
the style is none. From these follow `CutDoesNotMatterAlways` and `LinesDoNotMixAlways`.

**PageScripts_proofs.** `PageInv` has a part for each script, and a script that is not on the page leaves its part as it is.
For boxes (`BackdropAlways`, `CompletesOnceAlways`) it adds that only boxes that have been made wait for a callback, and one
click makes two of them wait, not more, so their number keeps its bound; and of `setProgress` that a box whose `progressUpdated` has not called it again has one call on the stack at most, and then has reported
nothing yet (`NestedOnce`). For `UploadNamedAlways` (`UploadInv`): a box in the
document asks about the file that is chosen, or the file has been cleared, unless it was changed behind the boxes; on that page
no window asks for content, so no box enters the document later than at its making. For
`TabAlwaysOpen`: a tab is that of a large notification of its position and no notification has two (`TabsOK`), so that
removing one neither removes nor opens another's. `FitsAlways` follows from how a size is computed, no larger than the window, and the place from both
(`LayoutInv`), whatever sizes and coordinates scripts gave before.

Two more theorems hold what `BackdropGoes` and `NotesGo` rest on, for any number of boxes and notifications: that the timer which is to
take an element away is not lost. `DestroyIsKept`, an action property: once a box in the document is being destroyed, no call,
click, Esc or other callback takes its `destroy` from the callbacks that wait, until one of them has taken the box out of the document
(callbacks are only put behind those that wait, and the one that runs is the first). `DelayIsKept`, an inductive invariant on `NoteInv`: a
small notification with a delay that is on the page has its timer or a removal that waits; a removal is used up only by one that takes
the notification away. That these timers then fire is the fairness of the runs.

**Projects_proofs.** `TypeCorrect` needs that a request has the parameters its operation uses (`Formed`).
`DenylistOwned` is inductive on the types. The others need `CurrentInv`: a view that no save has outdated is the table
itself, and the ports offered to it are the ones the table offers. From it follow `ActiveIsUnique`,
`ActivationIsExclusive` and, with the least element of a set of naturals (`Least`, from the library's theorem
on well-founded relations), `ActiveIsKept`. `PortsAreDistinct` needs the stronger `Spacing`: the ports of a project are
three consecutive numbers, and those of two projects are at least three apart; "three above the
highest of each kind" keeps that, while "no port given twice" alone would not be kept.

Only model-checked: the liveness properties (`RestartComesBack`, `MiningEnds`, `LinesAreShown`, `BackdropGoes`, `NotesGo`), which are out of
the prover's reach, like anything that needs ENABLED, and of course the violations. Every safety invariant and every action property of a
passing run has a theorem. For four of the liveness properties the theorems hold the safety half: of `LinesAreShown` the variant of the
converter (`ConverterAdvances`, `ConverterNeverStuck`), of `MiningEnds` that a count of zero is noticed
(`ZeroIsAlwaysNoticed`), of `BackdropGoes`
that a box goes on being destroyed (`DestroyIsKept`), of `NotesGo` that a delay is not lost (`DelayIsKept`).

## 6. What is not modelled

Still to come, as far as it keeps state or computes something:

- the transaction recorder (`TippyRpc` 567-632): `async void`, so that a save that fails because its project has been deleted
  throws on a thread where nobody catches it;
- `revert_blocks` (`TippyRpc` 373), an unsigned subtraction corrected afterwards, and `RollBackTo`;
- the windows of the explorer pages over blocks and transactions;
- the conversion of groups of bits of `Ckb.Address`, the headers of `Ckb.Molecule`, the decodings of `Ckb.Types`;
- overlapping visits of the debugger (`Process/Debugger/ProcessManager.cs` 10).

Small hazards that no model has: ports above 65535 after some ten thousand projects (`TippyRpc` 152); the
removal of another project's denial by `unban_transaction` (`TippyRpc` 440); `Substring` of a denied hash that is shorter than
22 characters (`ProcessGroup` 118).

Not to be modelled: views and styles, `site.js` (it adds and removes classes), the vendored form
validation, generated migrations, result records, settings, listing and storing of uploaded
files, labels of tokens, and the calls into cryptographic libraries: no state that anything else
depends on.

Of the components that are modelled, these are left out: the wording of errors; how a port or a
hash is written; the polling of the network by the pages; and what section 3 names for each.
