------------------------------ MODULE JobManager ------------------------------
(***************************************************************************)
(* The durable job queue of application/jobs.py: a JSON record per job, a  *)
(* ThreadPoolExecutor that runs the workers, and the record lock that      *)
(* makes each record update atomic.  What runs outside that lock - the     *)
(* worker itself, the gap between a checkpoint and the append that follows *)
(* it, the gap between the worker's end and its recorded end - is where    *)
(* cancel, shutdown and a crash of the process interleave.                 *)
(***************************************************************************)
EXTENDS Naturals, Sequences, FiniteSets

CONSTANTS
    Jobs,           \* the record ids that may ever be drawn (uuid4)
    Requests,       \* request ids a client may attach to a submission
    NoRequest,      \* request_id=None
    MaxWorkers,     \* max_workers of the executor
    MaxProgress,    \* bound: progress events of one worker
    MaxCrashes,     \* bound: ends of the process
    MaxSaveFaults   \* bound: atomic_json calls that raise OSError

ASSUME JobsAssumption ==
    /\ NoRequest \notin Requests
    /\ MaxWorkers \in Nat \ {0}
    /\ MaxProgress \in Nat /\ MaxCrashes \in Nat /\ MaxSaveFaults \in Nat

VARIABLES
    \* The records on disk.
    status, cancel_requested, events, request_id,
    \* The process: the constructor's progress and the record files its loop has
    \* yet to read, _closed, the executor's queue, where each job's pool thread
    \* stands and the outcome it will record.
    phase, unread, closed, queue, thread, outcome,
    \* History: the jobs whose worker was called, the jobs that left a
    \* diagnostic version in the project, the records that the last process to
    \* end left on disk, and the faults spent.
    ran, salvaged, inherited, crashes, faults

durable == <<status, cancel_requested, events, request_id>>
process == <<phase, unread, closed, queue, thread, outcome>>
history == <<ran, salvaged, inherited, crashes, faults>>
vars == <<durable, process, history>>

Active == {"queued", "running", "cancelling"}
Outcomes == {"completed", "cancelled", "failed"}
Terminal == Outcomes \cup {"interrupted"}
EventTypes == Active \cup Terminal \cup {"progress"}
LiveThreads == {"pooled", "working", "emitting", "raised", "finishing"}
Threads == LiveThreads \cup {"none", "exited"}

Known(j) == status[j] # "absent"
Busy == {j \in Jobs : thread[j] \in LiveThreads \ {"pooled"}}
ProgressOf(j) == Len(SelectSeq(events[j], LAMBDA e : e = "progress"))

\* append_event and _save under the record lock: the status and the event that
\* announces it reach the disk in one atomic replacement.
Record(j, s) ==
    /\ status' = [status EXCEPT ![j] = s]
    /\ events' = [events EXCEPT ![j] = Append(@, s)]

Init ==
    /\ status = [j \in Jobs |-> "absent"]
    /\ cancel_requested = [j \in Jobs |-> FALSE]
    /\ events = [j \in Jobs |-> <<>>]
    /\ request_id = [j \in Jobs |-> NoRequest]
    /\ phase = "up" /\ unread = {} /\ closed = FALSE /\ queue = <<>>
    /\ thread = [j \in Jobs |-> "none"]
    /\ outcome = [j \in Jobs |-> "none"]
    /\ ran = {} /\ salvaged = {} /\ inherited = {} /\ crashes = 0 /\ faults = 0

-----------------------------------------------------------------------------
(* Callers.                                                                *)

\* Mutant of Claimed: a finished record no longer claims its request id.
Claimed_WhileActive(r) == \E k \in Jobs : status[k] \in Active /\ request_id[k] = r

\* A request id names one record for ever.  A second submission under it returns
\* that record (same inputs) or raises ConflictError: neither changes the state.
Claimed(r) == \E k \in Jobs : Known(k) /\ request_id[k] = r

Submit(j, r) ==
    /\ phase = "up" /\ ~closed /\ ~Known(j)
    /\ r = NoRequest \/ ~Claimed(r)
    /\ Record(j, "queued")
    /\ request_id' = [request_id EXCEPT ![j] = r]
    /\ queue' = Append(queue, j)
    /\ thread' = [thread EXCEPT ![j] = "pooled"]
    /\ UNCHANGED <<cancel_requested, phase, unread, closed, outcome, history>>

\* Mutant of Cancel: the status is not looked at.
Cancel_Finished(j) ==
    /\ phase = "up"
    /\ Known(j) /\ ~cancel_requested[j]
    /\ cancel_requested' = [cancel_requested EXCEPT ![j] = TRUE]
    /\ Record(j, "cancelling")
    /\ UNCHANGED <<request_id, process, history>>

Cancel(j) ==
    /\ phase = "up"
    /\ status[j] \in Active /\ ~cancel_requested[j]
    /\ cancel_requested' = [cancel_requested EXCEPT ![j] = TRUE]
    /\ Record(j, "cancelling")
    /\ UNCHANGED <<request_id, process, history>>

\* Mutant of Shutdown: the waiting jobs are dropped (cancel_futures=True).
Shutdown_DropsQueue ==
    /\ phase = "up" /\ ~closed
    /\ closed' = TRUE /\ queue' = <<>>
    /\ UNCHANGED <<durable, phase, unread, thread, outcome, history>>

\* executor.shutdown without cancel_futures: what is queued still runs.
Shutdown ==
    /\ phase = "up" /\ ~closed
    /\ closed' = TRUE
    /\ UNCHANGED <<durable, phase, unread, queue, thread, outcome, history>>

-----------------------------------------------------------------------------
(* The pool thread of one job: _run_recorded.                              *)

Take(j) ==
    /\ queue # <<>> /\ j = Head(queue) /\ thread[j] = "pooled"
    /\ Cardinality(Busy) < MaxWorkers
    /\ queue' = Tail(queue)

Step(j, from, to) ==
    /\ thread[j] = from
    /\ thread' = [thread EXCEPT ![j] = to]

End(j, from, result) ==
    /\ Step(j, from, "finishing")
    /\ outcome' = [outcome EXCEPT ![j] = result]

\* Mutant of Start: "running" is written over a requested cancellation.
Start_IgnoresCancel(j) ==
    /\ Take(j)
    /\ Record(j, "running")
    /\ Step(j, "pooled", "working")
    /\ ran' = ran \cup {j}
    /\ UNCHANGED <<cancel_requested, request_id, phase, unread, closed, outcome,
                   salvaged, inherited, crashes, faults>>

Start(j) ==
    /\ Take(j) /\ ~cancel_requested[j]
    /\ Record(j, "running")
    /\ Step(j, "pooled", "working")
    /\ ran' = ran \cup {j}
    /\ UNCHANGED <<cancel_requested, request_id, phase, unread, closed, outcome,
                   salvaged, inherited, crashes, faults>>

\* Mutant of StartCancelled: the outcome is left unset.
StartCancelled_NoOutcome(j) ==
    /\ Take(j) /\ cancel_requested[j]
    /\ Step(j, "pooled", "finishing")
    /\ UNCHANGED <<durable, phase, unread, closed, outcome, history>>

StartCancelled(j) ==
    /\ Take(j) /\ cancel_requested[j]
    /\ End(j, "pooled", "cancelled")
    /\ UNCHANGED <<durable, phase, unread, closed, history>>

\* The save of "running" raises: the worker is never called and the exception
\* takes the path of a failed job.
StartUnsaved(j) ==
    /\ Take(j) /\ ~cancel_requested[j] /\ faults < MaxSaveFaults
    /\ Step(j, "pooled", "raised")
    /\ faults' = faults + 1
    /\ UNCHANGED <<durable, phase, unread, closed, outcome, ran, salvaged, inherited, crashes>>

\* Mutant of Checkpoint: emit without its checkpoint.
Checkpoint_Unchecked(j) ==
    /\ ProgressOf(j) < MaxProgress
    /\ Step(j, "working", "emitting")
    /\ UNCHANGED <<durable, phase, unread, closed, queue, outcome, history>>

\* JobContext.emit: the checkpoint and the append take the lock separately.
Checkpoint(j) ==
    /\ ~cancel_requested[j] /\ ProgressOf(j) < MaxProgress
    /\ Step(j, "working", "emitting")
    /\ UNCHANGED <<durable, phase, unread, closed, queue, outcome, history>>

CheckpointCancelled(j) ==
    /\ cancel_requested[j]
    /\ End(j, "working", "cancelled")
    /\ UNCHANGED <<durable, phase, unread, closed, queue, history>>

Emit(j) ==
    /\ Step(j, "emitting", IF status[j] \in Active THEN "working" ELSE "raised")
    /\ events' = IF status[j] \in Active
                 THEN [events EXCEPT ![j] = Append(@, "progress")] ELSE events
    /\ UNCHANGED <<status, cancel_requested, request_id, phase, unread, closed,
                   queue, outcome, history>>

WorkerReturns(j) ==
    /\ End(j, "working", "completed")
    /\ UNCHANGED <<durable, phase, unread, closed, queue, history>>

WorkerRaises(j) ==
    /\ Step(j, "working", "raised")
    /\ UNCHANGED <<durable, phase, unread, closed, queue, outcome, history>>

\* Mutant of Salvage: a cancelled job is reported as cancelled after its candidate
\* was delivered.
Salvage_ThenCancelled(j) ==
    /\ j \in ran
    /\ End(j, "raised", IF cancel_requested[j] THEN "cancelled" ELSE "completed")
    /\ salvaged' = salvaged \cup {j}
    /\ UNCHANGED <<durable, phase, unread, closed, queue, ran, inherited, crashes, faults>>

\* _preserve_rejected_generation: a rejected candidate of a generation worker is
\* delivered as a diagnostic version and the job counts as completed.  Nothing on
\* this path looks at cancel_requested.
Salvage(j) ==
    /\ j \in ran
    /\ End(j, "raised", "completed")
    /\ salvaged' = salvaged \cup {j}
    /\ UNCHANGED <<durable, phase, unread, closed, queue, ran, inherited, crashes, faults>>

NoSalvage(j) ==
    /\ End(j, "raised", "failed")
    /\ UNCHANGED <<durable, phase, unread, closed, queue, history>>

Finish(j) ==
    /\ Step(j, "finishing", "exited")
    /\ Record(j, outcome[j])
    /\ outcome' = [outcome EXCEPT ![j] = "none"]
    /\ UNCHANGED <<cancel_requested, request_id, phase, unread, closed, queue, history>>

\* The save of the terminal record raises out of the pool thread.  The record
\* keeps its active status until the next process finds it.
FinishUnsaved(j) ==
    /\ faults < MaxSaveFaults
    /\ Step(j, "finishing", "exited")
    /\ outcome' = [outcome EXCEPT ![j] = "none"]
    /\ faults' = faults + 1
    /\ UNCHANGED <<durable, phase, unread, closed, queue, ran, salvaged, inherited, crashes>>

-----------------------------------------------------------------------------
(* The process ends and JobManager.__init__ runs again.                    *)

Crash ==
    /\ phase # "down" /\ crashes < MaxCrashes
    /\ phase' = "down" /\ unread' = {} /\ closed' = FALSE /\ queue' = <<>>
    /\ thread' = [j \in Jobs |-> "none"]
    /\ outcome' = [j \in Jobs |-> "none"]
    /\ inherited' = {j \in Jobs : Known(j)}
    /\ crashes' = crashes + 1
    /\ UNCHANGED <<durable, ran, salvaged, faults>>

Construct ==
    /\ phase = "down"
    /\ phase' = "starting" /\ unread' = {j \in Jobs : Known(j)}
    /\ UNCHANGED <<durable, closed, queue, thread, outcome, history>>

\* One record file of the constructor's loop, in any order: a crash may fall
\* between two of them.  A save that raises here ends the constructor, which is
\* a crash to the records.
Read(j) ==
    /\ phase = "starting" /\ j \in unread
    /\ unread' = unread \ {j}

\* Mutants of Recover: the event is forgotten; a cancelling record is not active.
Recover_Silent(j) ==
    /\ Read(j) /\ status[j] \in Active
    /\ status' = [status EXCEPT ![j] = "interrupted"]
    /\ UNCHANGED <<events, cancel_requested, request_id, phase, closed, queue,
                   thread, outcome, history>>
Recover_SkipsCancelling(j) ==
    /\ Read(j) /\ status[j] \in Active
    /\ IF status[j] = "cancelling" THEN UNCHANGED <<status, events>>
                                   ELSE Record(j, "interrupted")
    /\ UNCHANGED <<cancel_requested, request_id, phase, closed, queue, thread,
                   outcome, history>>

Recover(j) ==
    /\ Read(j) /\ status[j] \in Active
    /\ Record(j, "interrupted")
    /\ UNCHANGED <<cancel_requested, request_id, phase, closed, queue, thread,
                   outcome, history>>

Skip(j) ==
    /\ Read(j) /\ status[j] \notin Active
    /\ UNCHANGED <<durable, phase, closed, queue, thread, outcome, history>>

\* Mutant of Constructed: the loop ends before the last record.
Constructed_Early ==
    /\ phase = "starting"
    /\ phase' = "up"
    /\ UNCHANGED <<durable, unread, closed, queue, thread, outcome, history>>

Constructed ==
    /\ phase = "starting" /\ unread = {}
    /\ phase' = "up"
    /\ UNCHANGED <<durable, unread, closed, queue, thread, outcome, history>>

-----------------------------------------------------------------------------
Begin(j) == Start(j) \/ StartCancelled(j) \/ StartUnsaved(j)
Work(j) == \/ Checkpoint(j) \/ CheckpointCancelled(j) \/ Emit(j)
           \/ WorkerReturns(j) \/ WorkerRaises(j)
Settle(j) == Salvage(j) \/ NoSalvage(j) \/ Finish(j) \/ FinishUnsaved(j)
Caller == \/ \E j \in Jobs, r \in Requests \cup {NoRequest} : Submit(j, r)
          \/ \E j \in Jobs : Cancel(j)
          \/ Shutdown
Restart == Construct \/ Constructed \/ \E j \in Jobs : Recover(j) \/ Skip(j)

Next == \/ Caller \/ Crash \/ Restart
        \/ \E j \in Jobs : Begin(j) \/ Work(j) \/ Settle(j)

Spec == Init /\ [][Next]_vars

\* The executor hands a queued job to an idle thread; a pool thread that runs is
\* scheduled again; a constructor that has begun goes on.  Nobody is obliged to
\* submit, to cancel, to shut down or to restart the program.
Fairness ==
    /\ \A j \in Jobs : WF_vars(Begin(j)) /\ WF_vars(Work(j)) /\ WF_vars(Settle(j))
    /\ \A j \in Jobs : WF_vars(Recover(j))

FairSpec == Spec /\ Fairness

-----------------------------------------------------------------------------
TypeOK ==
    /\ status \in [Jobs -> Active \cup Terminal \cup {"absent"}]
    /\ cancel_requested \in [Jobs -> BOOLEAN]
    /\ events \in [Jobs -> Seq(EventTypes)]
    /\ request_id \in [Jobs -> Requests \cup {NoRequest}]
    /\ phase \in {"up", "down", "starting"} /\ unread \subseteq Jobs
    /\ closed \in BOOLEAN
    /\ queue \in Seq(Jobs)
    /\ thread \in [Jobs -> Threads]
    /\ outcome \in [Jobs -> Outcomes \cup {"none"}]
    /\ ran \subseteq Jobs /\ salvaged \subseteq Jobs /\ inherited \subseteq Jobs
    /\ crashes \in Nat /\ faults \in Nat

\* Every record that wait() and the workbench still take for active has a pool
\* thread that will end it, unless the save of its end failed (wait raises "The
\* active job has no worker in this manager" otherwise): the restart loop, the
\* executor's hand-over and cancel leave no record behind.
ActiveHasWorker ==
    \A j \in Jobs :
        phase = "up" /\ status[j] \in Active =>
            \/ thread[j] \in LiveThreads
            \/ thread[j] = "exited" /\ faults > 0

\* Once the constructor has returned, every record that the last process left -
\* queued, running, cancelling, or active because the save of its end failed -
\* has its final answer, and no pool thread takes it up again.
RestartSettles ==
    phase = "up" => \A j \in inherited : status[j] \in Terminal /\ thread[j] = "none"

\* A request id executes its worker for one record only, whatever the client
\* repeats and however often the process restarts in between.
RequestBoundOnce ==
    \A j, k \in Jobs :
        Known(j) /\ Known(k) /\ request_id[j] = request_id[k] /\ request_id[j] # NoRequest
            => j = k

\* The log that a client follows with events(after_sequence) tells the record's
\* status: its last entry that is not progress is the status, and a terminal
\* entry is the log's last.
LogTellsStatus ==
    \A j \in Jobs : Known(j) =>
        \E i \in DOMAIN events[j] :
            /\ events[j][i] = status[j]
            /\ \A k \in DOMAIN events[j] :
                  /\ i < k => events[j][k] = "progress"
                  /\ events[j][k] \in Terminal => k = Len(events[j])

\* The comment in JobContext.emit calls live events the cancellation boundary:
\* once "cancelling" is logged the worker gets at most the one event out that
\* was already past its checkpoint, and it is not called any more.
CancelBoundary ==
    \A j \in Jobs : \A i, k \in DOMAIN events[j] :
        events[j][i] = "cancelling" /\ i < k =>
            /\ events[j][k] # "running"
            /\ events[j][k] = "progress" =>
                  \A l \in DOMAIN events[j] : k < l => events[j][l] # "progress"

\* A diagnostic version that a rejected generation left in the project is never
\* orphaned by a job that claims to have been cancelled or to have failed: the
\* record says completed, or the process died before it could say so (or the
\* save of its end failed).
SalvageReported ==
    \A j \in salvaged : status[j] \in Active \cup {"completed", "interrupted"}

\* No step changes a finished record: neither a late cancel, nor a worker that
\* outlived the verdict, nor the restart loop.
FinishedIsFinal ==
    [][\A j \in Jobs : status[j] \in Terminal =>
          status'[j] = status[j] /\ events'[j] = events[j]
          /\ cancel_requested'[j] = cancel_requested[j]]_vars

\* Every accepted job reaches a verdict - also when it was cancelled while it
\* waited for a thread, and also after shutdown - unless the process ends or the
\* disk refuses the verdict.
JobSettles ==
    \A j \in Jobs :
        (status[j] \in Active) ~> \/ status[j] \notin Active
                                  \/ phase = "down"
                                  \/ thread[j] = "exited" /\ faults > 0

-----------------------------------------------------------------------------
(* The promise of JobLifecycle, read off the records.                      *)

Lifecycle == INSTANCE JobLifecycle WITH
    stage <- [j \in Jobs |-> IF status[j] = "absent" THEN "absent"
                             ELSE IF status[j] \in Active THEN "pending" ELSE "done"],
    verdict <- [j \in Jobs |-> IF status[j] \in Terminal THEN status[j] ELSE "none"],
    executed <- ran,
    cancelAsked <- {j \in Jobs : cancel_requested[j]}

\* One accepted job, one call of its worker that no cancellation preceded, one
\* verdict that the job's history justifies.
ImplementsLifecycle == Lifecycle!Spec
=============================================================================
