# gxworks-agent: verification models

gxworks-agent is a local service that reads and writes PLC programs for an
engineering tool, Mitsubishi GX Works2, on behalf of a user and of a language
model. The risk in such a program is not in one function but in the order of
things: a write is approved for one state of the project and executed in another,
a job is cancelled while the desktop acts for it, the service stops between the
moment a command is sent to GX Works2 and the moment its answer is recorded.

This directory holds TLA+ models of the parts of the service that decide such
orders, the TLC configurations that check them on small instances, and proofs of
their main properties for every instance. A path such as `application/jobs.py` is
below the repository's Python package, `src/`; the `source` entries of
`PROJECT.json` name files from the repository's parent directory, hence
`src/src/application/jobs.py`.

| Module | What it is |
| --- | --- |
| `JobManager` | the durable job queue (`application/jobs.py`, `application/events.py`) |
| `JobLifecycle` | what the job queue promises of one job, as an abstract specification |
| `JobManagerProofs` | proofs about `JobManager`, the refinement of `JobLifecycle` among them |
| `ProposalExecution` | proposals, approval policy, decision jobs and the desktop thread (`application/proposals.py`, `approval.py`, `proposal_workflow.py`, `execution.py`) |
| `ProposalExecutionProofs` | proofs about `ProposalExecution` |
| `LiveSession` | one live engineering session and its recovery (`application/live_engineering.py`) |
| `LiveSessionProofs` | proofs about `LiveSession`: types, revisions, results, saves |
| `LiveSessionEditProofs` | proofs about its edits: none twice, none lost |
| `LiveDelivery` | how a stage save of a live session becomes a project version (`application/execution.py`, `native_completion.py`) |
| `LiveDeliveryProofs` | proofs about `LiveDelivery` |
| `HardwareLease` | read-only permissions for a PLC (`application/hardware.py`) |
| `HardwareLeaseProofs` | proofs about `HardwareLease` |
| `ScanMachine` | the bounded scan check of ladder programs (`simulator/bounded.py`), beside a machine it stands for |
| `ScanMachineProofs` | the soundness and the completeness of its known values |
| `MC*` | the instances TLC checks; one `.cfg` per run |

Run a configuration with `tlc -config MCJobManager.cfg MCJobManager` and the proofs
with `tlapm JobManagerProofs.tla`.


## 1. Inventory

### 1.1 How the parts interact

A `Workbench` (`application/workbench.py:149`) takes the exclusive lock of a
workspace directory and creates the job manager, the proposal service, the
execution coordinator and, on demand, the hardware service. It closes them in the
order hardware, jobs, execution, lock (`:170`). Clients - the web interface, MCP and
the agent - call the workbench; what takes long becomes a job.

- **client -> job queue**: a submission returns a record at once, a pool thread runs
  the worker, clients poll the event log and may cancel.
- **decision job -> workspace lock -> desktop thread**: a decision on a proposal is a
  job. It takes the workspace's `thread_lock`, checks the proposal, marks it
  executing, submits the work to the single desktop thread and blocks on its future
  with the lock held, then records the verdict.
- **desktop thread -> job**: the desktop thread calls back into the job's progress
  function, which is also where the job's cancellation is noticed - on a thread that
  is not the job's.
- **desktop thread -> live session -> GX Works2**: the desktop thread also steps the
  open live sessions. It makes edits, compiles and saves by UI automation in its own process; the
  helper process that the driver starts for a reading has a time limit and only reads the window or
  selects an element (`gxworks2/active_document.py:320`).
- **live session -> project store**: a verified Save is handed on as bytes, committed as
  a project version and the session is rebased on it.
- **hardware service -> reader process**: a read is recorded, the reader is run with a
  time limit, the values are accepted only if the permission is still valid.

Jobs, proposals, the policy, permissions and session receipts are JSON files, each replaced
atomically; a project's record with its versions is a small sqlite database
(`storage/project_records.py`), changed in one transaction. No transaction covers two of them: whatever
spans two records can be cut between them.

### 1.2 Components

Lines are approximate. "Hard" names what makes the component difficult to test.

**Job queue** (`application/jobs.py`, `events.py`; 550 lines). State: per job a record
with status, cancel flag, request id and event log; in memory the pool, its queue and
`_closed`. Operations: submit (idempotent by request id), checkpoint, emit, cancel,
wait, shutdown, recovery of records at start. Hard: cancel against checkpoint, append
and end; saves that fail; a restart with records of the previous process. Correct when
every accepted job gets exactly one verdict that its history justifies, a request id
never runs twice, and the log a client follows agrees with the record.

**Proposals and decisions** (`proposals.py`, `approval.py`, `proposal_workflow.py`,
`execution.py`; 1900 lines). State: proposals with the binding (specification, base
version, active version) they were made for, the approval policy with its revision, the
executing flag, the desktop thread's queue. Operations: create, decide by the user or
by policy, reject, accept locally, execute an external effect, record the verdict,
recover. Hard: repeated decisions under different request ids, a policy that is
changed between decision and execution, bindings that go stale, cancellation on another
thread, a crash or a failing save between effect and verdict. Correct when an effect happens at most once,
under standing consent, for the inputs that were approved, and is never recorded as not
having happened.

**Live engineering session** (`live_engineering.py`; 870 lines, with the parts of
`gxworks2/live_driver.py`, `active_document.py` and `engineering_compile.py` it relies
on). State: pending commands, the command in flight, revisions (edited, saved, version),
results of compile, address query and save, recovery record. Operations: run, pause,
the steps of six kinds of commands, recovery, rebase, detach, close. Hard: everything that
happens between dispatch and confirmation. Correct when no command is lost or repeated,
results belong to the revision they are shown for and saved bytes are what is delivered.

**Hardware permissions** (`hardware.py`; 210 lines). State: permission records, deadlines
in memory, per-request read records. Operations: propose, approve, revoke, read, expiry,
close, restart. Hard: time passing between two checks, slow and failing saves, late
answers, `close()` beside an operation under way. Correct when the device is contacted at
most once per request, within the limits of an approved and valid permission.

**Live session delivery** (`execution.py:671-1110`, `native_completion.py:129-178`). State: the row
of an open session in memory (base version, pending save, checkpoint), its receipt on disk, the
project's versions. Operations: start, continue, rebind, end, deliver a save, commit it, rebase, late
acknowledgement, loading after a restart, orderly shutdown. Hard: three records (receipt, project,
receipt again) change one after the other, each write may fail, and the process may end between any
two. Correct when a save is committed at most once along a line of versions, the last save sent is
never forgotten, and the session tells the save its base version holds.

**Project store** (`storage/session.py`, `project_records.py`, `application/session.py`;
1800 lines). State: versions, active version, specification, metadata, settings.
Operations: complete a version, activate one, change metadata, save the project. The callers hold the
workspace lock. Seen from the proposals as an active version and a stamp, from the delivery as the list
of versions and the active one.

**Agent calls** (`workbench.py:325-376`). State: one file per (project, call id) with the recorded
response. Operations: call, replay. Hard: a crash between the effect of a call and its recorded
response (`:376`); the proposal's own request key answers for it, which is `Replay` in
`ProposalExecution`. The recorded responses are not modelled (section 5).

**Read delivery** (`read_delivery.py`), **debug loop** (`debug_loop.py`), **synchronisation**
(`gxworks2/sync_service.py`, `import_service.py`): small state machines over records. Not modelled, but
for the versions a debugging plan makes (`ProposalExecution`).

**Desktop automation** (`gxworks2/`, 15 000 lines): Windows UI automation. To the models it
is an environment that acts, answers late, fails or falls silent.

**Simulator** (`simulator/`, 7000 lines). The bounded scan check (`bounded.py`, 560 lines) executes a
ladder program over a memory that is only partly known; its known results decide whether a program
breaks its specification. State: memory, contacts, accumulator and stacks, the enables and samples of
the scan before, starts and drives of timers. Operations: one per instruction, begin and end of a
scan. Hard: a long sequence of partly known steps that ends in a value reported as known. Correct when
every known value is the value of each machine the trace may stand for, and a fully declared trace is
always decided. The plain simulator is not modelled.

**PLC analysis and validation** (`plc/`, 32 000),
**GXW file format** (`gxw/`, 32 000), **inspection and rendering**: sequential functions of
their inputs without shared state.

**Knowledge retrieval** (`knowledge/`, 14 000), **model runtime** (4000), **agent runtime**
(4500), **integrations** (6000), **web interface and native adapters**: network I/O,
ranking, prompt assembly and user interface around the services above.

The hazards of this code, each at its line and with the properties that watch it, are
listed in `PROJECT.json`.


## 2. The models and the code

An action is one section of code that no other actor can come between: what happens
under a lock, or up to the next save, callback or answer from outside. Data is kept only
as far as a property tells it apart: a job's result is an outcome, an edit is its number, a
program version is a number. `PROJECT.json` maps every definition to the lines it stands
for. Variables that exist only in the models (history) are declared under that heading in
each module; no guard of the code depends on them.

### 2.1 JobManager

Disk: `status`, `cancel_requested`, `events`, `request_id`. Every update of a record and the
event that announces it are one `atomic_json` under the record lock (`Record`). Process:
`phase`, `closed`, the executor's `queue`, and per job where its pool thread stands (`thread`)
and the `outcome` it is about to record.

| Action | Code |
| --- | --- |
| `Submit`, `Cancel`, `Shutdown` | the operations of a client; a repeated request id changes nothing |
| `Start`, `StartCancelled`, `StartUnsaved` | the head of `_run_recorded`: take the job, look at the cancel flag, save "running" |
| `Checkpoint`, `CheckpointCancelled`, `Emit` | `JobContext.emit`: the checkpoint and the append take the lock separately |
| `WorkerReturns`, `WorkerRaises`, `Salvage`, `NoSalvage` | the ends of a worker; `_preserve_rejected_generation` turns a rejected candidate into a diagnostic version and a completed job |
| `Finish`, `FinishUnsaved` | the terminal record, or its save failing |
| `Crash`, `Construct`, `Recover`, `Skip`, `Constructed` | the end of the process at any step and the constructor's loop: the records it has not read yet are `unread`; each step reads one and interrupts it if it is active, or leaves it; the constructor returns after the last, whatever the records say. A crash may cut the loop |

`JobLifecycle` states the promise apart from all this: accepted once, executed at most once
and not after a cancellation was asked for, one verdict that the history justifies. The
mapping reads `stage` and `verdict` off the record; the executor, the queue and the threads
disappear.

### 2.2 ProposalExecution

A decision is a pair of a proposal and the request id it was submitted under (the user's, or
the policy's at one revision), because `decide` and the policy use different ids for the same
proposal. `job` is a coarse form of `JobManager`: queued, running without the lock, and three
positions with it (`Locked`): granted, waiting for the desktop, committed. `Free` is the
workspace's `thread_lock`: nobody is creating, accepting locally or deciding.

The checks (`Checkpoint`, `Refuse`, `Grant`) follow the order of `proposal_workflow.py` and
`ProposalService.accept`. The desktop thread begins, refuses a base version that is not
active (`Stale`), acts (`Effect`), returns, or dies in a progress callback
(`ProgressCancelled`). Acting comes before answering, so a crash between them leaves an effect
without a verdict; `Restart` marks it interrupted. A native result is committed as a version
(`NativeCommit`) before the verdict (`NativeRecord`). `Rebind` is any other command that
activates a version or edits what a proposal is bound to; it takes the same lock, but
`active` may return to an old version, so that an old binding can hold again.

A debugging plan makes its own versions on the desktop thread: `DebugCandidate` completes one, which
becomes the active one or does not, and `DebugReverts` is the error after that which activates the base
again. `Replay` is an assistant's call that is repeated because its reply was not recorded: it finds the
proposal and, while that is pending, comes to the policy again (`proposal_workflow.py:91`); a user's
repeated request gets the record back and nothing more.

The save of a verdict may fail (`proposals.py:364`, `:366`): neither call of `_save` is guarded, so the
caller leaves the lock with the error and the proposal says executing with nobody inside for it. That
is `LocalUnsaved` and `VerdictUnsaved`; `unsaved`, a history variable, names these proposals until the
next start of the process interrupts them. Nothing acts for them meanwhile, which `ExecutedOnce`
says; that they stay so until a restart is the code's behaviour, of which neither a
comment nor a test says anything, and therefore no finding.

### 2.3 LiveSession

The source in the window is the sequence of edits that made it: the number of the command,
or `ByHand`. The project file is a source and a stamp. With this a property can say "the bytes
hold revision n" or "this edit was applied twice" instead of trusting the counters, which are
modelled too (`revision`, `saved`, `verRev`) and are what the properties are about.
Two assumptions about the window: it has handled what was sent to it before it answers a later reading,
and an edit of which only a part was made is a change by hand, which no reconciliation accepts.
`ActionObserved` speaks of edits and compiles; the writes of a Save that are still to come are
what `SavedOnce` and the comparisons of the file are for.

`s` is the controller in memory, `receipt` its recovery record on disk. `pc` is the step the
desktop thread takes next; `Run`, `Prepare`, one action per kind of command, the readback of
each kind, `Commit`, `Report` and `Fail` are the loop of `live_engineering.py`. The window acts
on its own: a compile ends (`IdeCompiles`), a Save writes the file, perhaps twice (`IdeSaves`), the user
edits and saves by hand. An edit is UI automation in the server's process (`live_driver.py:291-467`), so
it ends with the server: `Apply` begins it, `MakeEdit` makes it, and a crash or a failure between them
leaves it unmade. Helper processes only read; one that outlives its time limit makes the next reading
fail, which `Fail` and `StayUnconfirmed` allow at any step. `SendSave` compares the file, not the window, so what the
user changed by hand since `Prepare` is saved too; `SaveReturns` compares both. After a failure or a restart `Rebind*` finds out by reading alone: an edit shows in the source or it does not; every
other command needs a receipt of its own.

Rebinding a session that never confirmed any source (`context` None,
`live_engineering.py` around 750) adopts what the window shows without comparing it
with the saved baseline, unlike a first `Observe`. The model has this; `RevisionNamesSource`
therefore counts the edits of commands only.

### 2.4 LiveDelivery

`LiveSession` ends where bytes are handed on; this module begins there. A stage save is the number of
its operation id. `row` is the session in memory and `disk` its receipt, with the four fields of the
controller's checkpoint that tell of saves: in flight, delivery, pending version, version. `active` is the
version the project works on; a call is refused at once unless it was proposed for it. `job` is the
one approved call under way (calls hold the workspace lock, so there is one), with the step it takes
next.

| Action | Code |
| --- | --- |
| `Approve`, `Start*` | the proposal is for the active version; `_native_engineering` for `start`: a new working copy, a session that exists, a copy without a receipt |
| `Open`, `Acknowledge`, `OpenRefused` | the row of the call's base version; the acknowledgement of a save that the call's version holds already |
| `Attach`, `Rebind*` | `_restore_live_row` and the reconciliation of a save in flight |
| `Edit`, `NameSave`, `SendSave`, `ConfirmSave`, `Run*`, `End*` | what a run does to these fields; every write of the row may fail |
| `Refuse`, `Commit`, `Rebase`, `RebaseFails` | `NativeCompletion.complete_live`, `complete_native_candidate`, `rebase_live_session` |
| `OtherVersion`, `Activate`, `Crash`, `Shutdown` | other proposals, whose version may be held back; the user's return to an older version; the end of the process at any step; `_close_live_sessions`, whose write may fail |

`RebaseAllowed` is every check of `rebase_live_session`: the row is there, open and not busy (`Busy`: the
steps between the mark and its removal), has the call's base and waits for a version, and the new version
is the active one.

`line` of a version is history: the saves in it and in the versions it was made from. `fields.id` says
where a result made now would find the operation id of its save. A rebind that recovers a save keeps it
only in the status of the last save, which the next edit makes stale (`live_engineering.py:775`); a
save that has lost its id cannot be acknowledged late, and the model lets this happen.
A save whose bytes do not verify, or that breaks the program's specification (`Refuse`), stays pending
for as long as the session lives: every later call delivers it first and is refused again.

### 2.5 HardwareLease

The operations hold the workspace lock, so the state has one operation (`op`) with the copy of
the record it will save. Between its steps the clock ticks (`Tick`), saves fail (`SaveFails`),
the bound version changes (`ChangeVersion`), the service closes - dropping all deadlines without
the lock (`Close`) - or dies (`Crash`). A read is: check, save the request, check again
(`Contact`), contact the device, accept or refuse the values (`Answer`, `Expired`, `NoAnswer`),
save. Calls by another operator and refused calls change nothing but the audit log and are left
out.

### 2.6 ScanMachine

The module runs one program on two machines in step, by the same operators: `known` is the checker's,
with `Unknown` for Python's None, a memory the trace declares in part and a clock only some frames
give, which may stand still between two scans or jump by up to `MaxTick`; `actual` is a machine with every value known that agrees with what was declared. A property can
then say what soundness means, which no run of the code alone can. The instructions are those
`lower_rung_instructions` gives: contacts with their edges and comparisons, ORB and ANB, MPS, MRD and
MPP, OUT of coils, timers and counters, PLS, PLF, SET, RST and MOV. An instruction the code refuses
becomes a gap: what it would write is unknown, and the accumulator and stack are what the handler
leaves (`Forget`, `Contact`, `Block`).

`Blurs` names what the checker forgets while it keeps something that depends on it. A comparison of an
unknown word in LD raises before it pushes (`bounded.py:379`, `:393`, `:536`), so that the ORB of that row
pops the initial TRUE and reports a known output; an unknown drive or reset of a timer keeps the
timer's start (`:445`, `:482`) or drops it where it should start at an unknown time (`:489`).
`KnownIsActual` claims soundness for traces that meet none of these cases, and findings 3 and 4 are what
happens in the others.

`Balanced` is what `lower_rung_instructions` gives for the elements of a rung: the rows of a parallel
block after the first begin with an LD and end with their ORB (`plc/ir.py:248-260`), so that an ORB never
meets an empty stack. A rung that brings its own list (`ordered_instructions`, `:206`) is taken as it
is; with a stray ORB its accumulator is unknown even when everything is declared (`bounded.py:402`).
`MCScanMachine` computes the depth of the stack in each of its programs and assumes that they are
balanced, which TLC evaluates.


## 3. What the runs check

| Run | Instance | Properties |
| --- | --- | --- |
| `jobs` | 2 jobs, 1 thread, 1 request id, 2 progress events, 2 crashes, 1 failing save, fair | `TypeOK`, `ActiveHasWorker`, `RequestBoundOnce`, `LogTellsStatus`, `CancelBoundary`, `SalvageReported`, `RestartSettles`, `FinishedIsFinal`, `JobSettles`, `ImplementsLifecycle` |
| `proposal_policy` | 1 debugging plan, 3 policy revisions, 2 stamps, 1 new version, 2 cancels, 1 crash, 1 failing save | `ExecutedOnce`, `ConsentStands`, `EffectIsBound` |
| `proposal_binding` | a native plan and a local candidate, 1 new version, 1 crash, 1 failing save or repeated call, 1 cancel, fair | `TypeOK`, `EffectIsAnswered`, `ExecutingIsOwned`, `VerdictIsFinal`, `DecisionEnds` |
| `proposal_cancel` | a native plan and a simulation, fair, one cancel | `CancelledDecisionEnds` is violated |
| `live_session` | all kinds of commands, 2 commands, 1 action by hand, 1 crash | `TypeOK`, `AppliedOnce`, `ActionObserved`, `NoCommandLost`, `DiskHoldsRevision` |
| `live_results` | 3 commands without reopen, 1 crash | `RevisionNamesSource`, `ResultsAreCurrent`, `SavedOnce`, `DeliveryIsSaved`, `SaveNotLost` |
| `live_build` | 2 compiles, 1 crash | `LastBuildReported` is violated |
| `hardware` | 1 permission, 3 requests of which 2 may be read, 7 ticks, 2 failing saves, 2 instances, 1 version change | `TypeOK`, `ContactedOnce`, `ContactPermitted`, `ValuesInTime`, `ReadsBounded`, `RevokedStays` |
| `scan` | 11 programs over 3 bits, a register, a timer and a counter; 4 scans, 0 to 2 time units apart | `TypeOK`, `KnownIsActual`, `ExactIsDecided` |
| `scan_claim` | a timer driven through an undeclared relay | `UnknownStaysUnknown` is violated |
| `scan_row` | a row in parallel that begins with the comparison of an undeclared register | `UnknownStaysUnknown` is violated |
| `live_delivery` | 2 saves, 4 versions, 1 failed read or write, 2 crashes | `TypeOK`, `CommittedOnce`, `SaveNotLost` |

Each property is stated in words above its definition, and `PROJECT.json` gives for each of them
a plausible bug of the code (a `_`-suffixed operator before the definition it replaces) under
which it fails.

**Why these bounds.** *Jobs*: two jobs on one thread make one wait while the other is cancelled,
fails or ends; jobs touch each other only through the queue and the request ids, and a request id
is a relation of two records. Two crashes let the second cut the recovery of the first. The failing save
leaves an active record without a worker for `RestartSettles`.
*Proposals*: several decisions on one proposal (user, and policy at three revisions) need one
proposal; competition for the desktop and the lock needs two. A version and two stamps suffice for
a binding to go stale and become true again. *Live session*: an edit, a compile and a Save are the
shortest plan in which a result can outlive its revision; two commands are the shortest in which
one is lost or repeated; one crash can fall at every step, and the restored session goes on to the
end of the plan. The two runs split what one run cannot hold: actions by hand and all kinds of
commands with two commands, longer plans without actions by hand. *Hardware*: three requests
against a limit of two exceed it by one; deadlines of two and three ticks within seven allow a
permission to be approved, to expire and to be looked at after. Permissions share nothing but the
lock and the close, and for them the proofs of section 4 cover every number. *Delivery*: two saves let
a later one take the place of an undelivered one; four versions hold a save on two sibling lines and a
version after it; one crash leaves a save behind and the second falls into its recovery. *Scan check*:
each program is one feature with its neighbours (rows, branches, edges, held, stopped and restarting
timers, counters, moves); four scans are a rise, a fall and a rise again with the scan that sees it, a
clock that stands still, goes on or jumps over a step needs ticks of 0, 1 and 2, and
two timer steps are the least preset that tells a wrong start from a right one.

**Deadlock.** The live session and delivery runs check for deadlock. The other runs do not: when
crashes, saves, scans, time or revisions are used up and no client wants anything, the program rests.
For jobs and decisions the liveness properties say what must not be left behind then.

**Fairness.** `JobManager!FairSpec`: pool threads and a constructor that has begun are scheduled
(weak fairness per job on beginning, working and settling); workers end, which bounds of progress
events express. Nobody is obliged to submit, cancel, shut down or start the program, and a crash may
come at any time, so `JobSettles` allows for one. `ProposalExecution!FairSpec`: pool threads, the
thread that holds the lock and the desktop thread are scheduled, and an operation of the desktop
returns: the driver's waits have time limits (`execution.py:645`, `:961`), a background compile has
none (`:593`), and there the assumption is one about GX Works2. The save that ends the decision's own job is taken to
succeed, since its failure is `JobManager`'s (`FinishUnsaved`); the save of the proposal's verdict may
fail here, and the decision ends all the same. Users and crashes are free. The lock
needs no strong fairness: each proposal has finitely many decisions. `LiveSession`, `LiveDelivery`,
`HardwareLease` and `ScanMachine`
promise nothing under fairness: whether a window ever answers is GX Works2's business.

### Findings

Statements of the repository's own tests and comments that fail in the models by what the code does.

1. **A cancel ends the desktop thread** (`proposal_cancel`, `application/execution.py:324`). A
   progress callback on the desktop thread raises `JobCancelled`, a `BaseException`; `_worker`
   catches `Exception` only. The thread ends with the future unresolved, the decision job waits for
   it for ever and keeps the workspace lock. `tests/test_application_persistence.py:332` expects such a
   job to end as cancelled. `DecisionEnds` therefore promises the end of a decision only while the desktop
   thread lives.
2. **An old build answers for a new compile** (`live_build`, `gxworks2/engineering_compile.py:146`). After
   a crash during a second compile of one revision the restored driver knows the previous run only,
   and when the new output reads the same, that run is the answer. Lines 79-80 of that file say a
   previous build cannot satisfy a later compile's completion.
3. **An unknown drive keeps a timer's start** (`scan_claim`, `simulator/bounded.py:445`). A timer is driven
   through a relay the trace does not declare. The checker makes its value and contact unknown and
   keeps `timer_starts`; when the drive is known again the count goes on from the old start, and a timer
   that was released in between is reported with a known value and contact that are wrong, with no gap.
   Line 8 of that file says unknown memory and time remain unknown.
4. **A refused LD= leaves its row without a block** (`scan_row`, `simulator/bounded.py:377`). A row in parallel
   begins with the comparison of an undeclared register. The operands are read before the logic so far is
   saved (`:393`), so the ORB of the row takes the enable of the left bus instead of the row above it, and
   the coil is reported as known and on where the machine has it off. The checker records a gap for the
   register and none for the coil, against the same line 8. The Python class gives this result for this
   program (X0 off, D0 undeclared, M0 on: Y0 known and on).


## 4. What is proved

The proofs hold for every value of the constants that satisfies the named assumptions
(`JobsAssumption`: numbers are natural, at least one worker, the absent request id is not a
request id; `ProposalAssumption`: every proposal has an action, numbers are natural;
`DeliveryConstants`: numbers are natural; `ScanConstants`, `ProgramsWellFormed`: kinds of devices are
disjoint, instructions have operands of their kind and a timer is driven once, which the code checks;
`LiveConstants`, `NoneIsAbsent`: numbers are natural, the kinds of commands are those of the code, the
absent value of a live session is none of the values it stands beside;
`LeaseConstants`, `LeaseNone`: numbers are natural, the set of request ids is finite, the absent value
is neither a record nor an operation). The bounds of the models are constants too,
so the theorems hold for any number of crashes, faults and steps.

| Theorem | Statement |
| --- | --- |
| `JobManagerProofs!TypeCorrect` | `Spec => []TypeOK` |
| `JobManagerProofs!WorkersCoverRecords` | `Spec => []ActiveHasWorker` |
| `JobManagerProofs!RestartsSettle` | `Spec => []RestartSettles` |
| `JobManagerProofs!RequestsBoundOnce` | `Spec => []RequestBoundOnce` |
| `JobManagerProofs!SalvageIsReported` | `Spec => []SalvageReported` |
| `JobManagerProofs!LogsTellStatus` | `Spec => []LogTellsStatus` |
| `JobManagerProofs!CancelIsABoundary` | `Spec => []CancelBoundary` |
| `JobManagerProofs!FinishedRecordsAreFinal` | `Spec => FinishedIsFinal` |
| `JobManagerProofs!RecordsImplementLifecycle` | `Spec => ImplementsLifecycle` |
| `ProposalExecutionProofs!TypeCorrect` | `Spec => []TypeOK` |
| `ProposalExecutionProofs!ActsOnce` | `Spec => []ExecutedOnce` |
| `ProposalExecutionProofs!EffectsAreAnswered` | `Spec => []EffectIsAnswered` |
| `ProposalExecutionProofs!ExecutingHasOwner` | `Spec => []ExecutingIsOwned` |
| `ProposalExecutionProofs!ConsentStandsAlways` | `Spec => []ConsentStands` |
| `ProposalExecutionProofs!EffectsAreBound` | `Spec => EffectIsBound` |
| `ProposalExecutionProofs!VerdictsAreFinal` | `Spec => VerdictIsFinal` |
| `ProposalExecutionProofs!OneInside` | `Spec => [](Exclusive /\ DesktopServes)` |
| `LiveSessionProofs!Invariant` | `Spec => []IInv` |
| `LiveSessionProofs!TypeCorrect` | `Spec => []TypeOK` |
| `LiveSessionProofs!RevisionsNameSources` | `Spec => []RevisionNamesSource` |
| `LiveSessionProofs!DiskRevisions` | `Spec => []DiskHoldsRevision` |
| `LiveSessionProofs!CurrentResults` | `Spec => []ResultsAreCurrent` |
| `LiveSessionProofs!DeliveriesAreSaved` | `Spec => []DeliveryIsSaved` |
| `LiveSessionProofs!SavesOnce` | `Spec => []SavedOnce` |
| `LiveSessionProofs!SavesAreNotLost` | `Spec => SaveNotLost` |
| `LiveSessionEditProofs!EditInvariant` | `Spec => []EInv` |
| `LiveSessionEditProofs!EditsApplyOnce` | `Spec => []AppliedOnce` |
| `LiveSessionEditProofs!ActionsObserved` | `Spec => []ActionObserved` |
| `LiveSessionEditProofs!CommandsAreKept` | `Spec => []NoCommandLost` |
| `LiveDeliveryProofs!TypeCorrect` | `Spec => []TypeOK` |
| `LiveDeliveryProofs!SavesCommittedOnce` | `Spec => []CommittedOnce` |
| `LiveDeliveryProofs!SavesNotLost` | `Spec => []SaveNotLost` |
| `LiveDeliveryProofs!BaseIsTold` | `Spec => []BaseTellsSave` |
| `LiveDeliveryProofs!RebaseNeverRefused` | `Spec => [](job.pc = "committed" => RebaseAllowed)` |
| `ScanMachineProofs!TypeCorrect` | `Spec => []TypeOK` |
| `ScanMachineProofs!ReportsAreSound` | `Spec => []KnownIsActual` |
| `ScanMachineProofs!ExactTracesAreDecided` | programs that are `Balanced` imply `Spec => []ExactIsDecided` |
| `HardwareLeaseProofs!TypeCorrect` | `Spec => []TypeOK` |
| `HardwareLeaseProofs!OneContactPerRequest` | `Spec => []ContactedOnce` |
| `HardwareLeaseProofs!ContactsArePermitted` | `Spec => []ContactPermitted` |
| `HardwareLeaseProofs!ValuesAreInTime` | `Spec => []ValuesInTime` |
| `HardwareLeaseProofs!ContactsAreBounded` | `Spec => []ReadsBounded` |
| `HardwareLeaseProofs!RevocationIsFinal` | `Spec => RevokedStays` |

**Job queue.** `ActiveHasWorker` and the refinement are not inductive: `Finish` overwrites whatever
status it finds with an outcome chosen earlier. `ThreadAgrees` says why that is safe. A pool thread
that lives belongs to an active record; one that waits has not run its worker; one that
finishes has an outcome, and that outcome was earned (completed only after the worker ran,
cancelled only after a request, and completed whenever a version was salvaged). `LoopCovers` says what the
constructor still owes: an active record of the last process is one it has not read. The invariant is
`TypeOK`, `ThreadAgrees` for every job, `LoopCovers`, `ActiveHasWorker`, `RestartSettles` and `SalvageReported`. `RequestBoundOnce` needs no
more than the types, since only `Submit` sets a request id. The refinement
maps the initial state to the abstract one and each action to `Accept`, `AskCancel`, `Execute`, `Decide` or a
stutter, with the invariant supplying the guards of `Execute` and `Decide`.

The two properties of the event log speak of logs of every length, and no induction over a sequence is
needed: a step appends at most one event. `LogSound` says where the log has its last entry that is not
progress, that nothing follows a terminal one, and what may still follow a logged "cancelling": one
progress event of a thread that is already past its checkpoint (`emitting`), which spends it: the next
checkpoint finds the request in the record. `LogSteps` sorts the steps into those that leave a record
alone (`Quiet`), announce a status (`Announces`) or append progress (`Progresses`), and `LogStep` shows
each of the three to keep `LogSound`.

**Proposals.** None of the properties is inductive: they speak of effects and verdicts, and what keeps
them is the workspace's lock. `IInv` says that one thread at a time is inside it (`Exclusive`: a decision,
a local acceptance or a creation), that an executing proposal is the one a thread is inside for, or one whose verdict
could not be saved, and then nobody is (`Owned`), that the desktop works or has answered for the decision that waits (`DesktopServes`), that
the policy and the binding checked on entering still hold (`Checked`: the policy and the project change
with the lock only, and a debugging plan changes the active version only after it acted, `NotActed`) and what has not happened yet at each place inside (`Unspent`). A step
outside the lock is seen by none of these (`OutsideKeeps`), a step inside moves one job (`MoveKeeps`) or
leaves with a verdict (`LeaveKeeps`). After a crash nobody is inside, jobs and proposals still say
executing, and the restart settles both.

**Live session.** The session in memory and the recovery record are written at different steps, each may
be all that is left, and what is in flight shows in neither of them but in the window. So no property is
inductive, and the invariant `IInv` says the same of both records: the command in flight is the head of
the plan (`Shape`), the numbers count the commanded edits of the confirmed source and of the saved bytes
(`Counted`), a result names the revision and the run it is of (`Results`), what waits for a version was
saved (`Delivered`), and a Save that was sent lies behind the plan or is known by the command in flight
(`Sent`). The last is `SavedOnce`: a Save is sent only under an operation id that both records have
before (`NameSave`), and a record with that id asks for a receipt and does not send again. `CallSound` and
`FlightSound` say how the records differ at each step of the thread. A copy from one to the other
(`CopyRecordSound`) keeps all of it, which is what a crash and a restart need. Every reconciliation
reaches the same record, but for the plan and the numbers (`ReboundIs`).

For the edits the order of the commands is decisive. `EInv` adds that whatever is still planned has a
greater number than every edit in the confirmed source, the window, the file and the build, except that
the edit in flight may show in the window, and in the file only if it shows in the window (`Fence`). A
reconciliation that finds the edit takes it out of the plan; one that does not finds it nowhere, so it
may be sent again. `Within` is the converse: an edit that shows anywhere was confirmed before or is the one in flight.
`Covers` is the other half: an accepted edit is planned or confirmed. `CompilerSound`
says that a compile works for the command both records have in flight. TLC checked both invariants on the
instances of the two passing runs before they were proved.

**Delivery.** `CommittedOnce` and `SaveNotLost` relate the versions to a save that passes from the flight
to the delivery, the row and the version. The invariant says two things of any record of the session,
in memory or on disk. `Sound`: the saves it names are not in the line of its base version, one that
waits for a version is the one to deliver, and its saved revision is that of its base. So a commit on
that base cannot repeat one, and a version that holds the pending save is the only one that may be
acknowledged. `Kept`: it names the last save sent, unless a version holds it. Both are kept by every
write because the receipt is always an earlier row, and a row read at a crash is the receipt.
`JobSound` carries them through the steps of a call.

**Scan check.** `KnownIsActual` follows from monotonicity: each operator of the machine, applied to a
state below another one (unknown, or equal, in every place), gives a state below that one's successor.
The stacks are below each other in every entry and have the same length, since a refused LD is the only
instruction that pushes in one machine and not in the other, and it blurs (finding 4).
The clock may take any step between two scans, so nothing depends on its rate. The timers need more: a
start the checker does not have, while the machine has one, is `StartLost`, and then the checker holds
the timer's value unknown and its last enable is not a known rest, so that it will not use a new start
before it has seen the timer at rest (`TimerOutBelow`).

`ExactIsDecided` is the converse for a trace that declares everything. The values themselves do not
carry it: a timer's drive is refused without a start, a known rest or a value of zero, and an ORB without
a block below it. `Decided` adds that accumulator, stacks, enables and samples are known, and that a
timer without a start is at rest with its contact open, so that its next drive starts it; the depth of
the stack is at least that of `Balanced`. The theorem has this as its hypothesis, for any depths.

**Hardware permissions.** The properties speak of the record on disk, but an operation saves a
copy it took earlier, so they are not inductive. `IInv` adds what relates the copy to the record it
replaces (`CopyFollows`, `GrantFollowsCheck`, `ReadOnDisk`: it never forgets a revocation or a request, and
a contact is made with the copy and the record equal), what history knows of the device
(`ContactsKnown`: a contacted request is recorded), how far a deadline reaches
(`DeadlineGranted`: an active permission's deadline is not later than the one granted), and the same
for the accepted values and the limit in both copies (`AcceptedInTime`, `WithinLimit`). The last needs
cardinalities of finite sets: one more request is used by a read that found fewer than `ReadLimit`.

**Only model-checked.** Liveness under fairness (`JobSettles`, `DecisionEnds`) and the
absence of deadlock in `LiveSession` and `LiveDelivery` are out of the prover's reach, as is everything that
needs ENABLED. All safety properties of the passing runs are proved. That the programs the lowering makes are balanced is read off its code, since it is a recursive
function of a rung and not modelled.


## 5. What is left

### Not modelled, and why

- *The contents of things*: plan normalisation, capability checks and simulation results only
  decide whether an action is taken; the models let either happen.
- *Pure functions* - file format, parser, validation, semantics, rendering, ranking - have no state to
  explore, and their inputs (binary files, program texts) are out of TLC's reach at any useful size.
- *The rest of the scan check*: structured-text records, PWM, application instructions, ZRST,
  digit-specified operands, recorded timer values and starts (`timer_started_at_ms`) and initial memory of
  timers and counters, which start at rest here; and the plain simulator, which evaluates fully known programs.
- *Project store*: the callers hold the workspace lock and the project record is changed in one
  transaction, so that the versions are one list here. `version.json` is a copy nothing reads back.
- *Agent calls*: a call is repeated under one lock, and its effect is a proposal bound to a request key,
  which the repeated call finds (`ProposalExecution!Replay`).
- *Debug loop*: its plan is one effect of `ProposalExecution`, with the versions it makes; the imports and
  simulations inside it are desktop work with a rollback that is not repeated. *Read delivery* and *synchronisation* are functions of
  records read and written under the lock.
- *Several live sessions*: sessions of different projects share nothing but the desktop thread; one
  project has one.
- *Network, prompts, user interface, UI automation*: environment.
- *Two processes on one workspace*: the workspace lock excludes them (`workbench.py:149`); the model
  starts with the lock held.
- *Partial writes of one file*: `atomic_json` replaces the file; a failing save leaves the old one, which
  is what `StartUnsaved`, `FinishUnsaved` and `SaveFails` do.
- *Failing saves*: a failing save of a verdict is `LocalUnsaved` and `VerdictUnsaved`; one of a proposal that
  is being created, rejected or marked executing leaves the record as it was, as if the call had not been
  made. In `LiveSession` a raise there takes the path of any other failure of the step (`Fail`); in
  `LiveDelivery` every write may fail.
- *Revocation across a crash*: `RevokedStays` speaks of steps of a running process; after a restart the
  permission is unusable because of the boot id, which `ContactPermitted` covers.
- The hazards with a note in `PROJECT.json` are those no property covers yet. Two of them are
  deliberate: an approval of hardware access that lies between its check and its grant sets a deadline
  again after `close()` dropped all of them (`hardware.py:136`, `:145`), and a failed save of an approval
  leaves the request pending with a longer deadline (`:144`). The model has both steps; the
  code promises nothing of them.

### Plan

In this order, the parts whose loss would cost a user most first:

1. `VersionStore`: `complete_version` and the artifacts of a version as sequences of file replacements
   with a crash between any two; what a reader sees after a restart.
2. `AgentCall`: an abstract specification (each call id has one answer) and the recorded response with
   a crash around it.
3. The composition of `LiveSession` and `LiveDelivery`: the fields of the checkpoint as a refinement of
   the session's record.
4. The debug loop's attempts, and `Synchronisation`: the three-way comparison of project, snapshot and IDE
   as a pure operator with its reference definition.
