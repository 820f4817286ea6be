--------------------------- MODULE ProposalExecution ---------------------------
(***************************************************************************)
(* From an engineering proposal to its effect: the durable proposals of    *)
(* application/proposals.py, the approval policy of approval.py, the       *)
(* decision jobs of proposal_workflow.py and the single desktop thread of  *)
(* execution.py.  A decision job holds the workspace's thread_lock from    *)
(* its checks until the verdict is recorded and waits, under that lock,    *)
(* for the desktop thread's future.  Cancellation needs no lock.           *)
(***************************************************************************)
EXTENDS Naturals, FiniteSets

CONSTANTS
    Proposals,      \* proposal ids that may be drawn
    Action,         \* the action of each proposal
    MaxVersions,    \* bound: versions of the project
    MaxStamp,       \* bound: contents of specification and base version
    MaxRevision,    \* bound: revision of the approval policy
    MaxCancels,     \* bound: cancel requests
    MaxCrashes,     \* bound: ends of the process
    MaxFaults       \* bound: saves of a proposal that fail, replies to calls that are lost

External == {"gx_import", "simulation", "debug", "native_engineering"}
\* The actions an assistant's call may ask for (pending_proposal).
OfCall == {"gx_import", "native_engineering"}
Modes == {"ask", "auto", "full"}

ASSUME ProposalAssumption ==
    /\ Action \in [Proposals -> External \cup {"accept_local"}]
    /\ MaxVersions \in Nat /\ MaxStamp \in Nat /\ MaxRevision \in Nat
    /\ MaxCancels \in Nat /\ MaxCrashes \in Nat /\ MaxFaults \in Nat

\* The request ids under which decide() submits a job: "approve_" of a user and
\* "policy_<revision>_" of the policy.
Keys == [by : {"user"}, revision : {0}] \cup [by : {"policy"}, revision : 0 .. MaxRevision]
Decisions == Proposals \X Keys

VARIABLES
    \* On disk: the project (active version, versions made, and a stamp for the
    \* content of the confirmed specification and of the base version), the
    \* policy, the proposals with the binding each was created for, the jobs.
    active, versions, stamp, policy, proposal, bound, job, cancelled,
    \* In memory: is the process up, the proposal being created under the lock,
    \* the local acceptance under the lock, the desktop thread and its future.
    up, creating, local, desktop, future,
    \* History: external effects and versions accepted per proposal, the proposals
    \* whose verdict this process could not save, faults spent.
    effects, commits, unsaved, cancels, crashes, faults

project == <<active, versions, stamp>>
records == <<proposal, bound>>
work == <<job, cancelled>>
memory == <<up, creating, local>>
thread == <<desktop, future>>
history == <<effects, commits, unsaved>>
spent == <<cancels, crashes, faults>>
vars == <<project, policy, records, work, memory, thread, history, spent>>

JobEnds == {"completed", "cancelled", "failed", "interrupted"}
\* Where the pool thread of a decision job stands while it holds the lock.
Locked == {"granted", "waiting", "committed"}
JobActive == {"queued", "running"} \cup Locked
Outcomes == {"passed", "failed", "error"}
Verdicts == {"accepted", "rejected", "failed", "interrupted", "conflict"}

Binding == [active |-> active, stamp |-> stamp]
BindingHolds(p) == bound[p].active = active /\ bound[p].stamp = stamp

\* Nobody is inside the workspace's thread_lock.
Free ==
    /\ up /\ creating = {}
    /\ \A d \in Decisions : job[d] \notin Locked
    /\ \A p \in Proposals : local[p] = "idle"

\* approval.allows
Allows(mode, p) ==
    \/ Action[p] = "native_engineering"
    \/ mode = "full" /\ Action[p] \in External
    \/ mode = "auto" /\ Action[p] \in {"simulation", "debug"}

Init ==
    /\ active = 0 /\ versions = 0 /\ stamp = 0
    /\ policy = [mode |-> "ask", revision |-> 0]
    /\ proposal = [p \in Proposals |-> "absent"]
    /\ bound = [p \in Proposals |-> [base |-> 0, active |-> 0, stamp |-> 0]]
    /\ job = [d \in Decisions |-> "none"]
    /\ cancelled = {}
    /\ up = TRUE /\ creating = {}
    /\ local = [p \in Proposals |-> "idle"]
    /\ desktop = "idle" /\ future = "none"
    /\ effects = [p \in Proposals |-> 0] /\ commits = [p \in Proposals |-> 0]
    /\ unsaved = {}
    /\ cancels = 0 /\ crashes = 0 /\ faults = 0

Settle(p, verdict) == proposal' = [proposal EXCEPT ![p] = verdict]
JobTo(d, state) == job' = [job EXCEPT ![d] = state]

-----------------------------------------------------------------------------
(* The workspace and its users.                                            *)

\* Mutant of Rebind: another command changes the project without the lock.
Rebind_Unlocked ==
    /\ up
    /\ \/ \E v \in 0 .. versions : active' = v /\ v # active /\ UNCHANGED versions
       \/ UNCHANGED <<active, versions>>
    /\ stamp' \in 0 .. MaxStamp
    /\ UNCHANGED <<policy, records, work, memory, thread, history, spent>>

\* Another command changes what a proposal is bound to: it activates a version
\* (a new one, or an old one again), or edits the specification or metadata.
Rebind ==
    /\ Free
    /\ \/ \E v \in 0 .. versions : active' = v /\ v # active /\ UNCHANGED versions
       \/ versions < MaxVersions /\ versions' = versions + 1 /\ active' = versions'
       \/ UNCHANGED <<active, versions>>
    /\ stamp' \in 0 .. MaxStamp
    /\ UNCHANGED <<policy, records, work, memory, thread, history, spent>>

\* ApprovalPolicy.update: the caller names the current revision, and only a
\* change of mode makes a new one.
UpdatePolicy(mode) ==
    /\ Free /\ mode # policy.mode /\ policy.revision < MaxRevision
    /\ policy' = [mode |-> mode, revision |-> policy.revision + 1]
    /\ UNCHANGED <<project, records, work, memory, thread, history, spent>>

\* What the policy does with a pending proposal: it submits the job of its
\* revision, unless there is one.  An assistant that started under another policy
\* gets no consent from this one.
PolicyJob(p) ==
    LET d == <<p, [by |-> "policy", revision |-> policy.revision]>> IN
    \/ Allows(policy.mode, p) /\ job[d] = "none" /\ JobTo(d, "queued")
    \/ (Allows(policy.mode, p) => job[d] # "none" \/ Action[p] \in OfCall) /\ UNCHANGED job

\* create_execution and pending_proposal: the record first, and still under the
\* lock the policy.  A save that fails here, or in Reject, leaves no trace.
Create(p, base) ==
    /\ Free /\ proposal[p] = "absent"
    /\ Settle(p, "pending")
    /\ bound' = [bound EXCEPT ![p] = [base |-> base, active |-> active, stamp |-> stamp]]
    /\ creating' = {p}
    /\ UNCHANGED <<project, policy, work, up, local, thread, history, spent>>

\* An assistant's call whose reply was not recorded is repeated: it finds the
\* proposal and, while that is pending, comes to the policy again.  A user's request
\* that is repeated does not: create_execution returns the record as it is.
Replay(p) ==
    /\ Free /\ proposal[p] = "pending" /\ Action[p] \in OfCall /\ faults < MaxFaults
    /\ creating' = {p}
    /\ faults' = faults + 1
    /\ UNCHANGED <<project, policy, records, work, up, local, thread, history, cancels, crashes>>

\* Mutant of ApplyPolicy: the lock is not given back.
ApplyPolicy_KeepsLock(p) ==
    /\ up /\ p \in creating
    /\ PolicyJob(p)
    /\ UNCHANGED <<project, policy, records, cancelled, up, creating, local, thread,
                   history, spent>>

ApplyPolicy(p) ==
    /\ up /\ p \in creating
    /\ creating' = {}
    /\ PolicyJob(p)
    /\ UNCHANGED <<project, policy, records, cancelled, up, local, thread, history, spent>>

\* Mutant of Reject: any proposal can be rejected.
Reject_Any(p) ==
    /\ Free /\ proposal[p] # "absent"
    /\ Settle(p, "rejected")
    /\ UNCHANGED <<project, policy, bound, work, memory, thread, history, spent>>

Reject(p) ==
    /\ Free /\ proposal[p] = "pending"
    /\ Settle(p, "rejected")
    /\ UNCHANGED <<project, policy, bound, work, memory, thread, history, spent>>

\* decide("accept") by the user submits a job under a fixed request id; when the
\* id is taken the earlier job is returned and nothing is submitted.
Approve(p) ==
    LET d == <<p, [by |-> "user", revision |-> 0]>> IN
    /\ up /\ proposal[p] # "absent" /\ Action[p] \in External /\ job[d] = "none"
    /\ JobTo(d, "queued")
    /\ UNCHANGED <<project, policy, records, cancelled, memory, thread, history, spent>>

\* JobManager.cancel takes the record lock only.
Cancel(d) ==
    /\ up /\ job[d] \in JobActive /\ d \notin cancelled /\ cancels < MaxCancels
    /\ cancelled' = cancelled \cup {d}
    /\ cancels' = cancels + 1
    /\ UNCHANGED <<project, policy, records, job, memory, thread, history, crashes, faults>>

-----------------------------------------------------------------------------
(* accept of a local candidate, in the caller's thread and under the lock. *)

AcceptLocal(p) ==
    /\ Free /\ proposal[p] = "pending" /\ Action[p] = "accept_local"
    /\ IF BindingHolds(p)
       THEN Settle(p, "executing") /\ local' = [local EXCEPT ![p] = "granted"]
       ELSE Settle(p, "conflict") /\ UNCHANGED local
    /\ UNCHANGED <<project, policy, bound, work, up, creating, thread, history, spent>>

\* Mutant of CommitVersion: the project activates a version it does not list.
CommitVersion_Unlisted(p) ==
    /\ versions < MaxVersions
    /\ commits' = [commits EXCEPT ![p] = @ + 1]
    /\ active' \in {active, versions + 1}
    /\ UNCHANGED <<versions, stamp>>

\* complete_version(activate=True); a blocking behaviour check keeps the old
\* version active.
CommitVersion(p) ==
    /\ versions < MaxVersions
    /\ versions' = versions + 1
    /\ commits' = [commits EXCEPT ![p] = @ + 1]
    /\ active' \in {active, versions'}
    /\ UNCHANGED stamp

LocalCommit(p) ==
    /\ up /\ local[p] = "granted"
    /\ CommitVersion(p)
    /\ local' = [local EXCEPT ![p] = "committed"]
    /\ UNCHANGED <<policy, records, work, up, creating, thread, effects, unsaved, spent>>

LocalDone(p, verdict) ==
    /\ up
    /\ \/ local[p] = "committed" /\ verdict = "accepted"
       \/ local[p] = "granted" /\ verdict = "interrupted"
    /\ Settle(p, verdict)
    /\ local' = [local EXCEPT ![p] = "idle"]
    /\ UNCHANGED <<project, policy, bound, work, up, creating, thread, history, spent>>

\* The save of the verdict fails: the caller leaves the lock with the error and the
\* record still says executing, which only the next start of the process answers.
LocalUnsaved(p) ==
    /\ up /\ local[p] # "idle" /\ faults < MaxFaults
    /\ local' = [local EXCEPT ![p] = "idle"]
    /\ unsaved' = unsaved \cup {p}
    /\ faults' = faults + 1
    /\ UNCHANGED <<project, policy, records, work, up, creating, thread, effects, commits,
                   cancels, crashes>>

-----------------------------------------------------------------------------
(* The worker of a decision job.  Its end is recorded here with its last   *)
(* effect; the gap between the two belongs to JobManager.                  *)

RunJob(d) ==
    /\ up /\ job[d] = "queued"
    /\ JobTo(d, IF d \in cancelled THEN "cancelled" ELSE "running")
    /\ UNCHANGED <<project, policy, records, cancelled, memory, thread, history, spent>>

\* Mutant of ConsentGone: only the mode is compared.
ConsentGone_ModeOnly(d) == d[2].by = "policy" /\ ~Allows(policy.mode, d[1])

\* With the lock taken: the checkpoint, the policy again, and then the guards of
\* ProposalService.accept, in this order.
ConsentGone(d) ==
    d[2].by = "policy" /\ (policy.revision # d[2].revision \/ ~Allows(policy.mode, d[1]))

Checkpoint(d) ==
    /\ Free /\ job[d] = "running" /\ d \in cancelled
    /\ JobTo(d, "cancelled")
    /\ UNCHANGED <<project, policy, records, cancelled, memory, thread, history, spent>>

Refuse(d) ==
    /\ Free /\ job[d] = "running" /\ d \notin cancelled
    /\ \/ ConsentGone(d) /\ JobTo(d, "failed") /\ UNCHANGED proposal
       \/ /\ ~ConsentGone(d) /\ proposal[d[1]] \in {"accepted", "failed"}
          /\ JobTo(d, "completed") /\ UNCHANGED proposal
       \/ /\ ~ConsentGone(d)
          /\ proposal[d[1]] \in (Verdicts \ {"accepted", "failed"}) \cup {"executing"}
          /\ JobTo(d, "failed") /\ UNCHANGED proposal
       \/ /\ ~ConsentGone(d) /\ proposal[d[1]] = "pending" /\ ~BindingHolds(d[1])
          /\ JobTo(d, "failed") /\ Settle(d[1], "conflict")
    /\ UNCHANGED <<project, policy, bound, cancelled, memory, thread, history, spent>>

\* Mutant of Grant: an interrupted execution may be approved again.
Grant_Retries(d) ==
    /\ Free /\ job[d] = "running" /\ d \notin cancelled
    /\ ~ConsentGone(d) /\ proposal[d[1]] \in {"pending", "interrupted"}
    /\ BindingHolds(d[1])
    /\ Settle(d[1], "executing")
    /\ JobTo(d, "granted")
    /\ UNCHANGED <<project, policy, bound, cancelled, memory, thread, history, spent>>

Grant(d) ==
    /\ Free /\ job[d] = "running" /\ d \notin cancelled
    /\ ~ConsentGone(d) /\ proposal[d[1]] = "pending" /\ BindingHolds(d[1])
    /\ Settle(d[1], "executing")
    /\ JobTo(d, "granted")
    /\ UNCHANGED <<project, policy, bound, cancelled, memory, thread, history, spent>>

\* The save that opens the execution, or that records the conflict, fails: the
\* proposal stays pending.
OpenUnsaved(d) ==
    /\ Free /\ job[d] = "running" /\ d \notin cancelled
    /\ ~ConsentGone(d) /\ proposal[d[1]] = "pending" /\ faults < MaxFaults
    /\ JobTo(d, "failed")
    /\ faults' = faults + 1
    /\ UNCHANGED <<project, policy, records, cancelled, memory, thread, history, cancels, crashes>>

\* submit_approved(...).result(): the job blocks, with the lock.
SubmitApproved(d) ==
    /\ up /\ job[d] = "granted"
    /\ JobTo(d, "waiting")
    /\ UNCHANGED <<project, policy, records, cancelled, memory, thread, history, spent>>

VerdictOf(outcome) ==
    CASE outcome = "passed" -> "accepted"
      [] outcome = "error"  -> "interrupted"
      [] outcome = "failed" -> "failed"

\* accept() classifies the result of a simulation, an import or a debugging plan,
\* or a native result that has nothing to deliver.  What the desktop thread raises
\* arrives as a result as well (_worker), so the job completes.
Record(d) ==
    /\ up /\ job[d] = "waiting" /\ future # "none"
    /\ Settle(d[1], VerdictOf(future))
    /\ JobTo(d, "completed")
    /\ future' = "none"
    /\ UNCHANGED <<project, policy, bound, cancelled, memory, desktop, history, spent>>

\* complete_native: the verified result becomes a version before accept() can
\* record the verdict.
NativeCommit(d) ==
    /\ up /\ job[d] = "waiting" /\ future = "passed"
    /\ Action[d[1]] = "native_engineering"
    /\ proposal[d[1]] = "executing" /\ BindingHolds(d[1])
    /\ CommitVersion(d[1])
    /\ JobTo(d, "committed")
    /\ future' = "none"
    /\ UNCHANGED <<policy, records, cancelled, memory, desktop, effects, unsaved, spent>>

NativeRecord(d) ==
    /\ up /\ job[d] = "committed"
    /\ Settle(d[1], "accepted")
    /\ JobTo(d, "completed")
    /\ future' = "none"
    /\ UNCHANGED <<project, policy, bound, cancelled, memory, desktop, history, spent>>

\* Mutant of NativeRaises: the exception is recorded as a failed execution.
NativeRaises_Failed(d) ==
    /\ up
    /\ \/ job[d] \in {"granted", "committed"}
       \/ job[d] = "waiting" /\ future = "passed" /\ Action[d[1]] = "native_engineering"
    /\ Settle(d[1], "failed")
    /\ JobTo(d, "failed")
    /\ future' = "none"
    /\ UNCHANGED <<project, policy, bound, cancelled, memory, desktop, history, spent>>

\* The execution callback raises: submit_approved because the coordinator is closed,
\* or complete_native, before or after the version was committed (a refused
\* candidate, a failed rebase of the live session).
NativeRaises(d) ==
    /\ up
    /\ \/ job[d] \in {"granted", "committed"}
       \/ job[d] = "waiting" /\ future = "passed" /\ Action[d[1]] = "native_engineering"
    /\ Settle(d[1], "interrupted")
    /\ JobTo(d, "failed")
    /\ future' = "none"
    /\ UNCHANGED <<project, policy, bound, cancelled, memory, desktop, history, spent>>

\* The save of the verdict fails, whatever the verdict was: the job ends and the
\* lock is free, while the record still says executing.
VerdictUnsaved(d) ==
    /\ up /\ faults < MaxFaults
    /\ job[d] \in {"granted", "committed"} \/ (job[d] = "waiting" /\ future # "none")
    /\ JobTo(d, "failed")
    /\ future' = "none"
    /\ unsaved' = unsaved \cup {d[1]}
    /\ faults' = faults + 1
    /\ UNCHANGED <<project, policy, records, cancelled, memory, desktop, effects, commits,
                   cancels, crashes>>

-----------------------------------------------------------------------------
(* The desktop thread (GXExecutionCoordinator._worker).                    *)

Begin(d) ==
    /\ up /\ desktop = "idle" /\ job[d] = "waiting" /\ future = "none"
    /\ desktop' = "working"
    /\ UNCHANGED <<project, policy, records, work, memory, future, history, spent>>

\* _version refuses a version that is not the active one.
Stale(d) ==
    /\ up /\ desktop = "working" /\ job[d] = "waiting" /\ bound[d[1]].base # active
    /\ desktop' = "idle" /\ future' = "error"
    /\ UNCHANGED <<project, policy, records, work, memory, history, spent>>

Effect(d) ==
    /\ up /\ desktop = "working" /\ job[d] = "waiting" /\ bound[d[1]].base = active
    /\ desktop' = "acted"
    /\ effects' = [effects EXCEPT ![d[1]] = @ + 1]
    /\ UNCHANGED <<project, policy, records, work, memory, future, commits, unsaved, spent>>

\* execute_approved_plan of a debugging plan completes a candidate version, imports
\* and tests it, and makes it the active one or leaves the base active.
DebugCandidate(d) ==
    /\ up /\ desktop = "acted" /\ job[d] = "waiting" /\ Action[d[1]] = "debug"
    /\ versions < MaxVersions /\ versions' = versions + 1
    /\ \/ /\ active' = versions' /\ desktop' = "activated"
          /\ commits' = [commits EXCEPT ![d[1]] = @ + 1]
       \/ desktop' = "refused" /\ UNCHANGED <<active, commits>>
    /\ UNCHANGED <<stamp, policy, records, work, memory, future, effects, unsaved, spent>>

\* The operation returns, or an Exception becomes the future's result.
Return(d, outcome) ==
    /\ up /\ job[d] = "waiting"
    /\ \/ desktop = "acted" /\ (Action[d[1]] = "debug" => outcome # "passed")
       \/ desktop = "refused" /\ outcome # "passed"
       \/ desktop = "activated" /\ outcome # "failed"
       \/ desktop = "working" /\ bound[d[1]].base = active /\ outcome # "passed"
    /\ desktop' = "idle" /\ future' = outcome
    /\ UNCHANGED <<project, policy, records, work, memory, history, spent>>

\* An error after the activation: the base is activated again.
DebugReverts(d) ==
    /\ up /\ desktop = "activated" /\ job[d] = "waiting"
    /\ active' = bound[d[1]].base
    /\ desktop' = "idle" /\ future' = "error"
    /\ UNCHANGED <<versions, stamp, policy, records, work, memory, history, spent>>

\* A progress callback runs ctx.emit on this thread.  When the job was cancelled
\* its checkpoint raises JobCancelled - a BaseException, which "except Exception"
\* in _worker does not catch: the thread ends and the future stays unresolved.
ProgressCancelled(d) ==
    /\ up /\ desktop \in {"working", "acted"} /\ job[d] = "waiting" /\ d \in cancelled
    /\ bound[d[1]].base = active /\ Action[d[1]] # "debug"
    /\ desktop' = "dead"
    /\ UNCHANGED <<project, policy, records, work, memory, future, history, spent>>

-----------------------------------------------------------------------------
Crash ==
    /\ up /\ crashes < MaxCrashes
    /\ up' = FALSE /\ crashes' = crashes + 1
    /\ creating' = {} /\ desktop' = "idle" /\ future' = "none"
    /\ local' = [p \in Proposals |-> "idle"]
    /\ UNCHANGED <<project, policy, records, work, history, cancels, faults>>

\* Mutant of Restart: executing proposals are left as they are.
Restart_LeavesExecuting ==
    /\ ~up
    /\ up' = TRUE
    /\ job' = [d \in Decisions |-> IF job[d] \in JobActive THEN "interrupted" ELSE job[d]]
    /\ unsaved' = {}
    /\ UNCHANGED <<project, policy, records, cancelled, creating, local, thread,
                   effects, commits, spent>>

\* JobManager and ProposalService mark what was in flight; nothing is resumed.
Restart ==
    /\ ~up
    /\ up' = TRUE
    /\ job' = [d \in Decisions |-> IF job[d] \in JobActive THEN "interrupted" ELSE job[d]]
    /\ proposal' = [p \in Proposals |->
                        IF proposal[p] = "executing" THEN "interrupted" ELSE proposal[p]]
    /\ unsaved' = {}
    /\ UNCHANGED <<project, policy, bound, cancelled, creating, local, thread,
                   effects, commits, spent>>

-----------------------------------------------------------------------------
Users ==
    \/ Rebind
    \/ \E m \in Modes : UpdatePolicy(m)
    \/ \E p \in Proposals, v \in 0 .. versions : Create(p, v)
    \/ \E p \in Proposals : Replay(p) \/ Reject(p) \/ Approve(p) \/ AcceptLocal(p)
    \/ \E d \in Decisions : Cancel(d)
InLock(p) ==
    ApplyPolicy(p) \/ LocalCommit(p) \/ LocalUnsaved(p) \/ \E v \in Verdicts : LocalDone(p, v)
Worker(d) ==
    \/ RunJob(d) \/ Checkpoint(d) \/ Refuse(d) \/ Grant(d) \/ SubmitApproved(d)
    \/ Record(d) \/ NativeCommit(d) \/ NativeRecord(d) \/ NativeRaises(d)
    \/ OpenUnsaved(d) \/ VerdictUnsaved(d)
Desktop(d) ==
    \/ Begin(d) \/ Stale(d) \/ Effect(d) \/ ProgressCancelled(d)
    \/ DebugCandidate(d) \/ DebugReverts(d)
    \/ \E o \in Outcomes : Return(d, o)

Next ==
    \/ Users \/ Crash \/ Restart
    \/ \E p \in Proposals : InLock(p)
    \/ \E d \in Decisions : Worker(d) \/ Desktop(d)

Spec == Init /\ [][Next]_vars

\* A local candidate is accepted on the caller's thread, never by a job.
InJobs == {d \in Decisions : Action[d[1]] \in External}
\* Pool threads, the desktop thread and a thread inside the lock are scheduled;
\* an operation of the desktop ends.  Users and crashes are free.
Fairness ==
    /\ \A p \in Proposals : WF_vars(InLock(p))
    /\ \A d \in InJobs : WF_vars(Worker(d))
    /\ \A d \in InJobs :
          WF_vars(Begin(d) \/ Stale(d) \/ \E o \in Outcomes : Return(d, o))
FairSpec == Spec /\ Fairness

-----------------------------------------------------------------------------
BindingType == [base : 0 .. MaxVersions, active : 0 .. MaxVersions, stamp : 0 .. MaxStamp]

TypeOK ==
    /\ versions \in 0 .. MaxVersions /\ active \in 0 .. versions /\ stamp \in 0 .. MaxStamp
    /\ policy \in [mode : Modes, revision : 0 .. MaxRevision]
    /\ proposal \in [Proposals -> {"absent", "pending", "executing"} \cup Verdicts]
    /\ bound \in [Proposals -> BindingType]
    /\ \A p \in Proposals : bound[p].base <= versions
    /\ job \in [Decisions -> {"none"} \cup JobActive \cup JobEnds]
    /\ cancelled \subseteq Decisions
    /\ up \in BOOLEAN /\ creating \subseteq Proposals
    /\ local \in [Proposals -> {"idle", "granted", "committed"}]
    /\ desktop \in {"idle", "working", "acted", "activated", "refused", "dead"}
    /\ future \in {"none"} \cup Outcomes
    /\ effects \in [Proposals -> Nat] /\ commits \in [Proposals -> Nat]
    /\ unsaved \subseteq Proposals
    /\ cancels \in Nat /\ crashes \in Nat /\ faults \in Nat

\* However often a proposal is approved - by the user, by the policy at several
\* revisions, again after a restart - it acts on the desktop at most once and
\* becomes at most one version (proposals.py: "Never retry it automatically").
ExecutedOnce == \A p \in Proposals : effects[p] <= 1 /\ commits[p] <= 1

\* A proposal that acted never looks like one that did not: it is being executed
\* or says accepted, failed or interrupted; one that made a version never says
\* that it failed, was refused or is still open.
EffectIsAnswered ==
    \A p \in Proposals :
        /\ effects[p] > 0 => proposal[p] \in {"executing", "accepted", "failed", "interrupted"}
        /\ commits[p] > 0 => proposal[p] \in {"executing", "accepted", "interrupted"}

\* Who holds the lock for proposal p.
Holders(p) == {d \in Decisions : d[1] = p /\ job[d] \in Locked}

\* An executing proposal cannot be accepted, rejected or repeated by anyone, so in
\* a running process one thread, and only one, must be there to settle it.  The
\* exception is the code's: when the save of a verdict fails, the record keeps
\* saying executing with nobody inside for it, until a restart interrupts it.
ExecutingIsOwned ==
    up => \A p \in Proposals :
        IF proposal[p] = "executing" /\ p \notin unsaved
        THEN (local[p] # "idle") <=> (Holders(p) = {})
        ELSE local[p] = "idle" /\ Holders(p) = {} /\ (p \in unsaved => proposal[p] = "executing")

\* The lock is held from the checks to the verdict, so the policy a job was
\* started under still stands whenever the desktop works for it.
ConsentStands ==
    \A d \in Decisions :
        up /\ job[d] = "waiting" /\ d[2].by = "policy" =>
            policy.revision = d[2].revision /\ Allows(policy.mode, d[1])

\* The desktop acts only for an executing proposal whose inputs are those it was
\* created for, although the checks ran earlier and on another thread.
EffectIsBound ==
    [][\A p \in Proposals : effects'[p] # effects[p] =>
          /\ proposal[p] = "executing"
          /\ BindingHolds(p) /\ bound[p].base = active]_vars

\* A verdict is final, and nothing acts or commits for the proposal after it.
VerdictIsFinal ==
    [][\A p \in Proposals : proposal[p] \in Verdicts =>
          /\ proposal'[p] = proposal[p]
          /\ effects'[p] = effects[p] /\ commits'[p] = commits[p]]_vars

\* Every submitted decision ends, unless the process does or a cancel request has
\* ended the desktop thread, after which nothing that waits for it can.
DecisionEnds ==
    \A d \in InJobs :
        (job[d] \in JobActive) ~> (job[d] \in JobEnds \/ ~up \/ desktop = "dead")

\* The persistence test cancels a job that is inside the engineering transaction
\* and expects it to end as cancelled: a cancelled decision ends.
CancelledDecisionEnds ==
    \A d \in Decisions :
        (job[d] \in JobActive /\ d \in cancelled) ~> (job[d] \in JobEnds \/ ~up)
=============================================================================
