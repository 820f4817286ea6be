--------------------------- MODULE JobManagerProofs ---------------------------
(* Safety of the job queue for every set of jobs, requests and bounds.     *)
EXTENDS JobManager, TLAPS

\* How a job's pool thread, its record and its history agree.  TypeOK alone is
\* not enough for ActiveHasWorker or the refinement: Finish must know that the
\* record it overwrites is still active, and that the outcome it writes was
\* earned.
ThreadAgrees(j) ==
    /\ thread[j] \in LiveThreads => status[j] \in Active
    /\ thread[j] # "none" => phase = "up"
    /\ thread[j] = "pooled" => j \notin ran /\ status[j] \in {"queued", "cancelling"}
    /\ thread[j] \in {"working", "emitting"} => j \in ran
    /\ (thread[j] = "finishing") <=> (outcome[j] # "none")
    /\ outcome[j] = "completed" => j \in ran
    /\ outcome[j] = "cancelled" => cancel_requested[j]
    /\ status[j] = "absent" => ~cancel_requested[j] /\ j \notin ran /\ j \notin salvaged
    /\ j \in salvaged /\ thread[j] \in LiveThreads => outcome[j] = "completed"

\* What the constructor's loop still owes: an active record is one that it has
\* not read yet, and what the last process left is on disk.
LoopCovers ==
    /\ phase = "starting" => \A j \in Jobs : status[j] \in Active => j \in unread
    /\ \A j \in inherited : Known(j)

IInv == /\ TypeOK
        /\ \A j \in Jobs : ThreadAgrees(j)
        /\ LoopCovers
        /\ ActiveHasWorker
        /\ RestartSettles
        /\ SalvageReported

\* The job queue starts without records.
LEMMA InitIInv == Init => IInv
<1> SUFFICES ASSUME Init PROVE IInv
  OBVIOUS
<1>1. TypeOK
  <2>1. <<>> \in Seq(Jobs) /\ <<>> \in Seq(EventTypes)
    OBVIOUS
  <2>2. events \in [Jobs -> Seq(EventTypes)] /\ queue \in Seq(Jobs)
    BY <2>1 DEF Init
  <2>3. QED
    BY <2>2 DEF Init, TypeOK, Threads
<1>2. \A j \in Jobs : ThreadAgrees(j)
  BY DEF Init, ThreadAgrees, LiveThreads
<1>3. LoopCovers /\ ActiveHasWorker /\ RestartSettles /\ SalvageReported
  BY DEF Init, LoopCovers, ActiveHasWorker, RestartSettles, SalvageReported, Active
<1>4. QED
  BY <1>1, <1>2, <1>3 DEF IInv

\* Every step keeps the types; Finish needs to know that it has an outcome.
LEMMA TypeStep == IInv /\ [Next]_vars => TypeOK'
<1> SUFFICES ASSUME TypeOK, \A j \in Jobs : ThreadAgrees(j), [Next]_vars PROVE TypeOK'
  BY DEF IInv
<1> USE DEF TypeOK, durable, process, history, Threads, LiveThreads
<1>1. ASSUME NEW j \in Jobs, NEW r \in Requests \cup {NoRequest}, Submit(j, r)
      PROVE TypeOK'
  BY <1>1 DEF Submit, Record, Active, Terminal, Outcomes, EventTypes
<1>2. ASSUME NEW j \in Jobs, Cancel(j) PROVE TypeOK'
  BY <1>2 DEF Cancel, Record, Active, Terminal, Outcomes, EventTypes
<1>3. CASE Shutdown
  BY <1>3 DEF Shutdown
<1>4. CASE Crash
  <2>1. queue' \in Seq(Jobs)
    <3>1. <<>> \in Seq(Jobs)
      OBVIOUS
    <3>2. QED
      BY <1>4, <3>1, Zenon DEF Crash
  <2>2. thread' \in [Jobs -> Threads] /\ outcome' \in [Jobs -> Outcomes \cup {"none"}]
    BY <1>4 DEF Crash
  <2>3. /\ UNCHANGED durable /\ UNCHANGED <<ran, salvaged, faults>>
        /\ phase' = "down" /\ unread' = {} /\ closed' = FALSE /\ crashes' = crashes + 1
        /\ inherited' = {j \in Jobs : Known(j)}
    BY <1>4 DEF Crash
  <2>4. phase' \in {"up", "down", "starting"} /\ closed' \in BOOLEAN /\ unread' \subseteq Jobs
    BY <2>3, Zenon
  <2>5. /\ crashes' \in Nat /\ ran' \subseteq Jobs /\ salvaged' \subseteq Jobs
        /\ inherited' \subseteq Jobs /\ faults' \in Nat
    BY <2>3
  <2>6. /\ status' \in [Jobs -> Active \cup Terminal \cup {"absent"}]
        /\ cancel_requested' \in [Jobs -> BOOLEAN]
        /\ events' \in [Jobs -> Seq(EventTypes)]
        /\ request_id' \in [Jobs -> Requests \cup {NoRequest}]
    BY <2>3
  <2>7. QED
    BY <2>1, <2>2, <2>4, <2>5, <2>6, Zenon
<1>5. CASE Construct \/ Constructed
  BY <1>5 DEF Construct, Constructed
<1>6. ASSUME NEW j \in Jobs, Recover(j) \/ Skip(j) PROVE TypeOK'
  <2>1. unread' \subseteq Jobs
    BY <1>6 DEF Recover, Skip, Read
  <2>2. CASE Recover(j)
    BY <2>1, <2>2 DEF Recover, Record, Active, Terminal, Outcomes, EventTypes
  <2>3. CASE Skip(j)
    BY <2>1, <2>3 DEF Skip
  <2>4. QED
    BY <1>6, <2>2, <2>3
<1>7. ASSUME NEW j \in Jobs, Begin(j) PROVE TypeOK'
  <2>1. ASSUME Take(j) PROVE queue' \in Seq(Jobs)
    BY <2>1 DEF Take
  <2>2. CASE Start(j)
    BY <2>1, <2>2 DEF Start, Take, Step, Record, Active, Terminal, Outcomes, EventTypes
  <2>3. CASE StartCancelled(j)
    BY <2>1, <2>3 DEF StartCancelled, Take, Step, End, Outcomes
  <2>4. CASE StartUnsaved(j)
    BY <2>1, <2>4 DEF StartUnsaved, Take, Step
  <2>5. QED
    BY <1>7, <2>2, <2>3, <2>4 DEF Begin
<1>8. ASSUME NEW j \in Jobs, Work(j) PROVE TypeOK'
  <2>1. CASE Emit(j)
    BY <2>1 DEF Emit, Step, EventTypes
  <2>2. CASE Checkpoint(j) \/ WorkerRaises(j)
    BY <2>2 DEF Checkpoint, WorkerRaises, Step
  <2>3. CASE CheckpointCancelled(j) \/ WorkerReturns(j)
    BY <2>3 DEF CheckpointCancelled, WorkerReturns, End, Step, Outcomes
  <2>4. QED
    BY <1>8, <2>1, <2>2, <2>3 DEF Work
<1>9. ASSUME NEW j \in Jobs, Settle(j) PROVE TypeOK'
  <2>1. CASE Salvage(j) \/ NoSalvage(j)
    BY <2>1 DEF Salvage, NoSalvage, End, Step, Outcomes
  <2>2. CASE Finish(j)
    <3>1. outcome[j] \in Outcomes
      BY <2>2 DEF Finish, Step, ThreadAgrees
    <3>2. QED
      BY <2>2, <3>1 DEF Finish, Step, Record, Terminal, EventTypes
  <2>3. CASE FinishUnsaved(j)
    BY <2>3 DEF FinishUnsaved, Step
  <2>4. QED
    BY <1>9, <2>1, <2>2, <2>3 DEF Settle
<1>10. CASE UNCHANGED vars
  BY <1>10 DEF vars
<1>11. QED
  BY <1>1, <1>2, <1>3, <1>4, <1>5, <1>6, <1>7, <1>8, <1>9, <1>10
     DEF Next, Caller, Restart

\* Every step keeps each job's thread, record and history in agreement.
LEMMA AgreeStep == IInv /\ [Next]_vars => \A j \in Jobs : ThreadAgrees(j)'
<1> SUFFICES ASSUME TypeOK, \A k \in Jobs : ThreadAgrees(k), [Next]_vars, NEW j \in Jobs
             PROVE ThreadAgrees(j)'
  BY DEF IInv
<1> USE DEF TypeOK, ThreadAgrees, durable, process, history, LiveThreads, Active
<1>1. ASSUME NEW k \in Jobs, NEW r \in Requests \cup {NoRequest}, Submit(k, r)
      PROVE ThreadAgrees(j)'
  BY <1>1 DEF Submit, Known, Record
<1>2. ASSUME NEW k \in Jobs, Cancel(k) PROVE ThreadAgrees(j)'
  BY <1>2 DEF Cancel, Record
<1>3. CASE Shutdown
  BY <1>3 DEF Shutdown
<1>4. CASE Crash
  BY <1>4 DEF Crash
<1>5. CASE Construct \/ Constructed
  BY <1>5 DEF Construct, Constructed
<1>6. ASSUME NEW k \in Jobs, Recover(k) \/ Skip(k) PROVE ThreadAgrees(j)'
  BY <1>6 DEF Recover, Skip, Read, Record
<1>7. ASSUME NEW k \in Jobs, Begin(k) PROVE ThreadAgrees(j)'
  <2>1. CASE Start(k)
    BY <2>1 DEF Start, Take, Step, Record
  <2>2. CASE StartCancelled(k)
    BY <2>2 DEF StartCancelled, Take, Step, End
  <2>3. CASE StartUnsaved(k)
    BY <2>3 DEF StartUnsaved, Take, Step
  <2>4. QED
    BY <1>7, <2>1, <2>2, <2>3 DEF Begin
<1>8. ASSUME NEW k \in Jobs, Work(k) PROVE ThreadAgrees(j)'
  <2>1. CASE Emit(k)
    BY <2>1 DEF Emit, Step
  <2>2. CASE Checkpoint(k) \/ WorkerRaises(k)
    BY <2>2 DEF Checkpoint, WorkerRaises, Step
  <2>3. CASE CheckpointCancelled(k)
    BY <2>3 DEF CheckpointCancelled, End, Step
  <2>4. CASE WorkerReturns(k)
    BY <2>4 DEF WorkerReturns, End, Step
  <2>5. QED
    BY <1>8, <2>1, <2>2, <2>3, <2>4 DEF Work
<1>9. ASSUME NEW k \in Jobs, Settle(k) PROVE ThreadAgrees(j)'
  <2>1. CASE Salvage(k)
    BY <2>1 DEF Salvage, End, Step
  <2>2. CASE NoSalvage(k)
    BY <2>2 DEF NoSalvage, End, Step
  <2>3. CASE Finish(k)
    BY <2>3 DEF Finish, Step, Record, Outcomes
  <2>4. CASE FinishUnsaved(k)
    BY <2>4 DEF FinishUnsaved, Step
  <2>5. QED
    BY <1>9, <2>1, <2>2, <2>3, <2>4 DEF Settle
<1>10. CASE UNCHANGED vars
  BY <1>10 DEF vars
<1>11. QED
  BY <1>1, <1>2, <1>3, <1>4, <1>5, <1>6, <1>7, <1>8, <1>9, <1>10
     DEF Next, Caller, Restart

\* Every active record has a thread or the constructor's loop before it, what
\* was there before the restart is settled, and a salvaged job says so.
Covered == LoopCovers /\ ActiveHasWorker /\ RestartSettles /\ SalvageReported

\* No step loses a record.
LEMMA WorkerStep ==
    IInv /\ [Next]_vars => Covered'
<1> SUFFICES ASSUME IInv, [Next]_vars
             PROVE Covered'
  OBVIOUS
<1>0. /\ TypeOK /\ Covered
      /\ \A j \in Jobs : ThreadAgrees(j)
  BY DEF IInv, Covered
<1> USE <1>0 DEF TypeOK, ThreadAgrees, Covered, LoopCovers, ActiveHasWorker, RestartSettles,
        SalvageReported, Known, durable, process, history, LiveThreads, Active, Terminal, Outcomes
<1>1. ASSUME NEW k \in Jobs, NEW r \in Requests \cup {NoRequest}, Submit(k, r)
      PROVE Covered'
  BY <1>1 DEF Submit, Known, Record
<1>2. ASSUME NEW k \in Jobs, Cancel(k) PROVE Covered'
  BY <1>2 DEF Cancel, Record
<1>3. CASE Shutdown
  BY <1>3 DEF Shutdown
<1>4. CASE Crash
  BY <1>4 DEF Crash
<1>5. CASE Construct \/ Constructed
  BY <1>5 DEF Construct, Constructed
<1>6. ASSUME NEW k \in Jobs, Recover(k) \/ Skip(k) PROVE Covered'
  BY <1>6 DEF Recover, Skip, Read, Record
<1>7. ASSUME NEW k \in Jobs, Begin(k) PROVE Covered'
  <2>1. CASE Start(k)
    BY <2>1 DEF Start, Take, Step, Record
  <2>2. CASE StartCancelled(k)
    BY <2>2 DEF StartCancelled, Take, Step, End
  <2>3. CASE StartUnsaved(k)
    BY <2>3 DEF StartUnsaved, Take, Step
  <2>4. QED
    BY <1>7, <2>1, <2>2, <2>3 DEF Begin
<1>8. ASSUME NEW k \in Jobs, Work(k) PROVE Covered'
  <2>1. CASE Emit(k)
    BY <2>1 DEF Emit, Step
  <2>2. CASE Checkpoint(k) \/ WorkerRaises(k)
    BY <2>2 DEF Checkpoint, WorkerRaises, Step
  <2>3. CASE CheckpointCancelled(k) \/ WorkerReturns(k)
    BY <2>3 DEF CheckpointCancelled, WorkerReturns, End, Step
  <2>4. QED
    BY <1>8, <2>1, <2>2, <2>3 DEF Work
<1>9. ASSUME NEW k \in Jobs, Settle(k) PROVE Covered'
  <2>1. CASE Salvage(k) \/ NoSalvage(k)
    BY <2>1 DEF Salvage, NoSalvage, End, Step
  <2>2. CASE Finish(k)
    BY <2>2 DEF Finish, Step, Record
  <2>3. CASE FinishUnsaved(k)
    BY <2>3 DEF FinishUnsaved, Step
  <2>4. QED
    BY <1>9, <2>1, <2>2, <2>3 DEF Settle
<1>10. CASE UNCHANGED vars
  BY <1>10 DEF vars
<1>11. QED
  BY <1>1, <1>2, <1>3, <1>4, <1>5, <1>6, <1>7, <1>8, <1>9, <1>10
     DEF Next, Caller, Restart

\* The invariant the theorems below share.
THEOREM Invariance == Spec => []IInv
<1>1. IInv /\ [Next]_vars => IInv'
  BY TypeStep, AgreeStep, WorkerStep DEF IInv, Covered
<1>2. QED
  BY InitIInv, <1>1, PTL DEF Spec

\* The job records, the executor and the pool threads keep their types.
THEOREM TypeCorrect == Spec => []TypeOK
<1>1. IInv => TypeOK
  BY DEF IInv
<1>2. QED
  BY Invariance, <1>1, PTL

\* No active record is without a pool thread, whatever was cancelled, shut down
\* or restarted, unless the save of its end failed.
THEOREM WorkersCoverRecords == Spec => []ActiveHasWorker
<1>1. IInv => ActiveHasWorker
  BY DEF IInv
<1>2. QED
  BY Invariance, <1>1, PTL

\* Once the constructor has returned, what an earlier process left is finished
\* and stays off the threads, however often it was cut short before.
THEOREM RestartsSettle == Spec => []RestartSettles
<1>1. IInv => RestartSettles
  BY DEF IInv
<1>2. QED
  BY Invariance, <1>1, PTL

\* A version that a rejected generation left behind belongs to a job that says so.
THEOREM SalvageIsReported == Spec => []SalvageReported
<1>1. IInv => SalvageReported
  BY DEF IInv
<1>2. QED
  BY Invariance, <1>1, PTL

\* A request id is bound to one record, over retries and restarts.
THEOREM RequestsBoundOnce == Spec => []RequestBoundOnce
<1>1. Init => RequestBoundOnce
  BY DEF Init, RequestBoundOnce, Known
<1>2. IInv /\ RequestBoundOnce /\ [Next]_vars => RequestBoundOnce'
  <2> SUFFICES ASSUME IInv, RequestBoundOnce, [Next]_vars PROVE RequestBoundOnce'
    OBVIOUS
  <2>1. TypeOK /\ \A j \in Jobs : ThreadAgrees(j)
    BY DEF IInv
  <2> USE <2>1 DEF TypeOK, Known
  <2>2. ASSUME NEW k \in Jobs, NEW r \in Requests \cup {NoRequest}, Submit(k, r)
        PROVE RequestBoundOnce'
    BY <2>2 DEF Submit, Claimed, Record, RequestBoundOnce
  <2>3. ASSUME ~ \E k \in Jobs, r \in Requests \cup {NoRequest} : Submit(k, r)
        PROVE request_id' = request_id /\ \A j \in Jobs : Known(j)' => Known(j)
    <3> USE DEF durable, Record, Step, End, Take, Active, ThreadAgrees, LiveThreads
    <3>1. CASE UNCHANGED vars \/ Shutdown \/ Crash \/ Construct \/ Constructed
      BY <3>1 DEF vars, Shutdown, Crash, Construct, Constructed
    <3>2. ASSUME NEW k \in Jobs, Cancel(k) \/ Recover(k) \/ Skip(k)
          PROVE request_id' = request_id /\ \A j \in Jobs : Known(j)' => Known(j)
      BY <3>2 DEF Cancel, Recover, Skip
    <3>3. ASSUME NEW k \in Jobs, Begin(k)
          PROVE request_id' = request_id /\ \A j \in Jobs : Known(j)' => Known(j)
      BY <3>3 DEF Begin, Start, StartCancelled, StartUnsaved
    <3>4. ASSUME NEW k \in Jobs, Work(k)
          PROVE request_id' = request_id /\ \A j \in Jobs : Known(j)' => Known(j)
      BY <3>4 DEF Work, Checkpoint, CheckpointCancelled, Emit, WorkerReturns, WorkerRaises
    <3>5. ASSUME NEW k \in Jobs, Settle(k)
          PROVE request_id' = request_id /\ \A j \in Jobs : Known(j)' => Known(j)
      BY <3>5 DEF Settle, Salvage, NoSalvage, Finish, FinishUnsaved
    <3>6. QED
      BY <2>3, <3>1, <3>2, <3>3, <3>4, <3>5 DEF Next, Caller, Restart
  <2>4. QED
    BY <2>2, <2>3 DEF RequestBoundOnce
<1>3. QED
  BY <1>1, <1>2, Invariance, PTL DEF Spec

\* A finished record is never written again: not by a late cancel, not by the
\* pool thread, not by the restart loop.
THEOREM FinishedRecordsAreFinal == Spec => FinishedIsFinal
<1> DEFINE Final == \A j \in Jobs : status[j] \in Terminal =>
                        status'[j] = status[j] /\ events'[j] = events[j]
                        /\ cancel_requested'[j] = cancel_requested[j]
<1>1. IInv /\ [Next]_vars => [Final]_vars
  <2> SUFFICES ASSUME IInv, [Next]_vars, NEW j \in Jobs, status[j] \in Terminal
               PROVE status'[j] = status[j] /\ events'[j] = events[j]
                     /\ cancel_requested'[j] = cancel_requested[j]
    BY DEF Final
  <2>1. TypeOK /\ \A k \in Jobs : ThreadAgrees(k)
    BY DEF IInv
  <2> DEFINE Same == status'[j] = status[j] /\ events'[j] = events[j]
                     /\ cancel_requested'[j] = cancel_requested[j]
  <2> USE <2>1 DEF TypeOK, ThreadAgrees, Terminal, Outcomes, Active, LiveThreads,
                   durable, Record, Step, End, Take, Known
  <2>2. CASE UNCHANGED vars \/ Shutdown \/ Crash \/ Construct \/ Constructed
    BY <2>2 DEF vars, Shutdown, Crash, Construct, Constructed
  <2>3. ASSUME NEW k \in Jobs, NEW r \in Requests \cup {NoRequest}, Submit(k, r)
        PROVE Same
    BY <2>3 DEF Submit
  <2>4. ASSUME NEW k \in Jobs, Cancel(k) \/ Recover(k) \/ Skip(k) PROVE Same
    BY <2>4 DEF Cancel, Recover, Skip
  <2>5. ASSUME NEW k \in Jobs, Begin(k) PROVE Same
    BY <2>5 DEF Begin, Start, StartCancelled, StartUnsaved
  <2>6. ASSUME NEW k \in Jobs, Work(k) PROVE Same
    BY <2>6 DEF Work, Checkpoint, CheckpointCancelled, Emit, WorkerReturns, WorkerRaises
  <2>7. ASSUME NEW k \in Jobs, Settle(k) PROVE Same
    BY <2>7 DEF Settle, Salvage, NoSalvage, Finish, FinishUnsaved
  <2>8. QED
    BY <2>2, <2>3, <2>4, <2>5, <2>6, <2>7 DEF Next, Caller, Restart
<1>2. QED
  BY <1>1, Invariance, PTL DEF Spec, FinishedIsFinal, Final

\* The records implement the one-line promise of JobLifecycle: acceptance once,
\* execution at most once and not after a cancellation, one earned verdict.
THEOREM RecordsImplementLifecycle == Spec => ImplementsLifecycle
<1> DEFINE Stage == [j \in Jobs |-> IF status[j] = "absent" THEN "absent"
                              ELSE IF status[j] \in Active THEN "pending" ELSE "done"]
           Verdict == [j \in Jobs |-> IF status[j] \in Terminal THEN status[j] ELSE "none"]
           Asked == {j \in Jobs : cancel_requested[j]}
<1>1. Init => Lifecycle!Init
  BY DEF Init, Lifecycle!Init, Terminal, Outcomes
<1>2. IInv /\ [Next]_vars => [Lifecycle!Next]_(Lifecycle!avars)
  <2> SUFFICES ASSUME IInv, [Next]_vars
               PROVE Lifecycle!Next \/ UNCHANGED Lifecycle!avars
    BY DEF Lifecycle!avars
  <2>1. TypeOK /\ \A k \in Jobs : ThreadAgrees(k)
    BY DEF IInv
  <2> USE <2>1 DEF TypeOK, ThreadAgrees, Terminal, Outcomes, Active, LiveThreads,
                   durable, process, history, Record, Step, End, Take
  <2>2. ASSUME UNCHANGED <<status, cancel_requested, ran>>
        PROVE UNCHANGED Lifecycle!avars
    BY <2>2 DEF Lifecycle!avars
  <2>3. CASE UNCHANGED vars \/ Shutdown \/ Crash \/ Construct \/ Constructed
    BY <2>2, <2>3 DEF vars, Shutdown, Crash, Construct, Constructed
  <2>4. ASSUME NEW k \in Jobs, NEW r \in Requests \cup {NoRequest}, Submit(k, r)
        PROVE Lifecycle!Next
    <3>1. Lifecycle!Accept(k)
      BY <2>4 DEF Submit, Known, Lifecycle!Accept
    <3>2. QED
      BY <3>1 DEF Lifecycle!Next
  <2>5. ASSUME NEW k \in Jobs, Cancel(k) PROVE Lifecycle!Next
    <3>1. Lifecycle!AskCancel(k)
      BY <2>5 DEF Cancel, Lifecycle!AskCancel
    <3>2. QED
      BY <3>1 DEF Lifecycle!Next
  <2>6. ASSUME NEW k \in Jobs, Recover(k) PROVE Lifecycle!Next
    <3>1. Lifecycle!Decide(k, "interrupted")
      BY <2>6 DEF Recover, Lifecycle!Decide
    <3>2. QED
      BY <3>1 DEF Lifecycle!Next, Lifecycle!Verdicts
  <2>7. ASSUME NEW k \in Jobs, Start(k) PROVE Lifecycle!Next
    <3>1. Lifecycle!Execute(k)
      BY <2>7 DEF Start, Lifecycle!Execute
    <3>2. QED
      BY <3>1 DEF Lifecycle!Next
  <2>8. ASSUME NEW k \in Jobs, Finish(k) PROVE Lifecycle!Next
    <3>1. outcome[k] \in {"completed", "cancelled", "failed"}
      BY <2>8 DEF Finish
    <3>2. PICK v \in Lifecycle!Verdicts : v = outcome[k]
      BY <3>1 DEF Lifecycle!Verdicts
    <3>3. Lifecycle!Decide(k, v)
      BY <2>8, <3>1, <3>2 DEF Finish, Lifecycle!Decide
    <3>4. QED
      BY <3>3, Zenon DEF Lifecycle!Next
  <2>9. ASSUME NEW k \in Jobs, Work(k) \/ StartCancelled(k) \/ StartUnsaved(k)
                               \/ Salvage(k) \/ NoSalvage(k) \/ FinishUnsaved(k) \/ Skip(k)
        PROVE UNCHANGED Lifecycle!avars
    BY <2>2, <2>9 DEF Work, Checkpoint, CheckpointCancelled, Emit, WorkerReturns,
        WorkerRaises, StartCancelled, StartUnsaved, Salvage, NoSalvage, FinishUnsaved, Skip
  <2>10. QED
    BY <2>3, <2>4, <2>5, <2>6, <2>7, <2>8, <2>9 DEF Next, Caller, Restart, Begin, Settle
<1>3. QED
  BY <1>1, <1>2, Invariance, PTL DEF Spec, ImplementsLifecycle, Lifecycle!Spec
-----------------------------------------------------------------------------
(* The event log.  The two properties of the log are not inductive: what   *)
(* they lack is that a job with "cancelling" in its log has had its         *)
(* cancellation recorded, and that the one progress event a worker may      *)
(* still get out is the one it was already emitting.                        *)

LogSound(j) ==
    /\ ~Known(j) => events[j] = <<>>
    /\ Known(j) =>
          \E i \in DOMAIN events[j] :
              /\ events[j][i] = status[j]
              /\ \A k \in DOMAIN events[j] :
                    /\ i < k => events[j][k] = "progress"
                    /\ events[j][k] \in Terminal => k = Len(events[j])
    /\ \A i \in DOMAIN events[j] : events[j][i] = "cancelling" =>
          /\ cancel_requested[j]
          /\ \A k \in DOMAIN events[j] : i < k =>
                /\ events[j][k] # "running"
                /\ events[j][k] = "progress" =>
                      /\ thread[j] # "emitting"
                      /\ \A l \in DOMAIN events[j] : k < l => events[j][l] # "progress"

\* What appending does to a log.
LEMMA AppendLog ==
    ASSUME NEW e \in Seq(EventTypes), NEW t
    PROVE  /\ Len(e) \in Nat /\ DOMAIN e = 1 .. Len(e)
           /\ DOMAIN Append(e, t) = 1 .. (Len(e) + 1) /\ Len(Append(e, t)) = Len(e) + 1
           /\ Append(e, t)[Len(e) + 1] = t
           /\ \A k \in 1 .. Len(e) : Append(e, t)[k] = e[k]
  OBVIOUS

\* A step leaves the log and the status of a job alone, ...
Quiet(j) ==
    /\ events'[j] = events[j] /\ status'[j] = status[j]
    /\ cancel_requested'[j] = cancel_requested[j]
    /\ thread'[j] = "emitting" => thread[j] = "emitting" \/ ~cancel_requested[j]

\* ... announces a new status in the log, ...
Announces(j) ==
    /\ status[j] \in Active \cup {"absent"} /\ status'[j] \in Active \cup Terminal
    /\ events'[j] = Append(events[j], status'[j])
    /\ cancel_requested[j] => cancel_requested'[j]
    /\ status'[j] = "cancelling" => cancel_requested'[j]
    /\ status'[j] = "running" => ~cancel_requested[j]
    /\ thread'[j] = "emitting" => thread[j] = "emitting"

\* ... or appends the progress its worker was emitting.
Progresses(j) ==
    /\ status[j] \in Active /\ status'[j] = status[j]
    /\ events'[j] = Append(events[j], "progress")
    /\ cancel_requested'[j] = cancel_requested[j]
    /\ thread[j] = "emitting" /\ thread'[j] # "emitting"

\* Every step leaves the record of a job alone, announces a status, or appends
\* progress.
LEMMA LogSteps ==
    ASSUME IInv, [Next]_vars, NEW j \in Jobs
    PROVE  Quiet(j) \/ Announces(j) \/ Progresses(j)
<1> DEFINE Goal == Quiet(j) \/ Announces(j) \/ Progresses(j)
<1>1. TypeOK /\ \A k \in Jobs : ThreadAgrees(k)
  BY DEF IInv
<1> USE <1>1 DEF TypeOK, ThreadAgrees, durable, process, history, LiveThreads, Active
<1>2. ASSUME NEW k \in Jobs, NEW r \in Requests \cup {NoRequest}, Submit(k, r) PROVE Goal
  BY <1>2 DEF Submit, Known, Record, Quiet, Announces
<1>3. ASSUME NEW k \in Jobs, Cancel(k) PROVE Goal
  BY <1>3 DEF Cancel, Record, Quiet, Announces
<1>4. CASE UNCHANGED vars \/ Shutdown \/ Crash \/ Construct \/ Constructed
  BY <1>4 DEF vars, Shutdown, Crash, Construct, Constructed, Quiet
<1>5. ASSUME NEW k \in Jobs, Recover(k) \/ Skip(k) PROVE Goal
  BY <1>5 DEF Recover, Skip, Read, Record, Quiet, Announces, Terminal
<1>6. ASSUME NEW k \in Jobs, Begin(k) PROVE Goal
  <2>1. CASE Start(k)
    BY <2>1 DEF Start, Take, Step, Record, Quiet, Announces
  <2>2. CASE StartCancelled(k) \/ StartUnsaved(k)
    BY <2>2 DEF StartCancelled, StartUnsaved, Take, Step, End, Quiet
  <2>3. QED
    BY <1>6, <2>1, <2>2 DEF Begin
<1>7. ASSUME NEW k \in Jobs, Work(k) PROVE Goal
  <2>1. CASE Emit(k)
    BY <2>1 DEF Emit, Step, Quiet, Progresses
  <2>2. CASE Checkpoint(k) \/ WorkerRaises(k)
    BY <2>2 DEF Checkpoint, WorkerRaises, Step, Quiet
  <2>3. CASE CheckpointCancelled(k) \/ WorkerReturns(k)
    BY <2>3 DEF CheckpointCancelled, WorkerReturns, End, Step, Quiet
  <2>4. QED
    BY <1>7, <2>1, <2>2, <2>3 DEF Work
<1>8. ASSUME NEW k \in Jobs, Settle(k) PROVE Goal
  <2>1. CASE Salvage(k) \/ NoSalvage(k) \/ FinishUnsaved(k)
    BY <2>1 DEF Salvage, NoSalvage, FinishUnsaved, End, Step, Quiet
  <2>2. CASE Finish(k)
    BY <2>2 DEF Finish, Step, Record, Quiet, Announces, Terminal, Outcomes
  <2>3. QED
    BY <1>8, <2>1, <2>2 DEF Settle
<1>9. QED
  BY <1>2, <1>3, <1>4, <1>5, <1>6, <1>7, <1>8 DEF Next, Caller, Restart

\* Each of the three keeps the log in agreement with the record.
LEMMA LogStep ==
    ASSUME IInv, IInv', [Next]_vars, NEW j \in Jobs, LogSound(j)
    PROVE  LogSound(j)'
<1> DEFINE e == events[j]
           n == Len(e)
           t == events'[j][n + 1]
<1>1. e \in Seq(EventTypes) /\ status[j] \in Active \cup Terminal \cup {"absent"}
  BY DEF IInv, TypeOK
<1>2. CASE Quiet(j)
  BY <1>2 DEF LogSound, Quiet, Known
<1>3. CASE Announces(j)
  <2> USE <1>1, <1>3 DEF Announces
  <2>1. /\ n \in Nat /\ DOMAIN e = 1 .. n /\ DOMAIN events'[j] = 1 .. (n + 1)
        /\ Len(events'[j]) = n + 1 /\ t = status'[j]
        /\ \A k \in 1 .. n : events'[j][k] = e[k]
    BY AppendLog
  <2>2. \A k \in 1 .. n : e[k] \notin Terminal
    <3>1. CASE ~Known(j)
      <4>1. e = <<>>
        BY <3>1 DEF LogSound
      <4>2. QED
        BY <4>1
    <3>2. CASE Known(j)
      <4>1. PICK i \in 1 .. n : /\ e[i] = status[j]
                                /\ \A k \in 1 .. n : /\ i < k => e[k] = "progress"
                                                     /\ e[k] \in Terminal => k = n
        BY <2>1, <3>2 DEF LogSound
      <4>2. e[i] \notin Terminal
        BY <3>2, <4>1 DEF Known, Active, Terminal, Outcomes
      <4>3. e[n] \notin Terminal
        BY <2>1, <4>1, <4>2 DEF Terminal, Outcomes
      <4>4. QED
        BY <2>1, <4>1, <4>3
    <3>3. QED
      BY <3>1, <3>2
  <2>3. Known(j)' /\ t \notin {"progress"}
    BY <2>1 DEF Known, Active, Terminal, Outcomes
  <2>4. \E i \in DOMAIN events'[j] :
              /\ events'[j][i] = status'[j]
              /\ \A k \in DOMAIN events'[j] :
                    /\ i < k => events'[j][k] = "progress"
                    /\ events'[j][k] \in Terminal => k = Len(events'[j])
    <3>1. n + 1 \in DOMAIN events'[j] /\ \A k \in DOMAIN events'[j] : k \in 1 .. n \/ k = n + 1
      BY <2>1
    <3>2. \A k \in DOMAIN events'[j] : ~(n + 1 < k)
      BY <2>1
    <3>3. QED
      BY <2>1, <2>2, <3>1, <3>2
  <2>5. ASSUME NEW i \in DOMAIN events'[j], events'[j][i] = "cancelling"
        PROVE  /\ cancel_requested'[j]
               /\ \A k \in DOMAIN events'[j] : i < k =>
                     /\ events'[j][k] # "running"
                     /\ events'[j][k] = "progress" =>
                           /\ thread'[j] # "emitting"
                           /\ \A l \in DOMAIN events'[j] : k < l => events'[j][l] # "progress"
    <3>1. CASE i = n + 1
      BY <2>1, <2>5, <3>1
    <3>2. CASE i \in 1 .. n
      <4>1. /\ cancel_requested[j]
            /\ \A k \in 1 .. n : i < k =>
                  /\ e[k] # "running"
                  /\ e[k] = "progress" =>
                        /\ thread[j] # "emitting"
                        /\ \A l \in 1 .. n : k < l => e[l] # "progress"
        BY <2>1, <2>5, <3>2 DEF LogSound
      <4>2. t # "running"
        BY <2>1, <4>1
      <4>3. QED
        BY <2>1, <2>3, <4>1, <4>2
    <3>3. QED
      BY <2>1, <3>1, <3>2
  <2>6. QED
    BY <2>3, <2>4, <2>5 DEF LogSound
<1>4. CASE Progresses(j)
  <2> USE <1>1, <1>4 DEF Progresses
  <2>1. /\ n \in Nat /\ DOMAIN e = 1 .. n /\ DOMAIN events'[j] = 1 .. (n + 1)
        /\ Len(events'[j]) = n + 1 /\ t = "progress"
        /\ \A k \in 1 .. n : events'[j][k] = e[k]
    BY AppendLog
  <2>2. Known(j) /\ Known(j)'
    BY DEF Known, Active
  <2>3. PICK i \in 1 .. n : /\ e[i] = status[j]
                            /\ \A k \in 1 .. n : /\ i < k => e[k] = "progress"
                                                 /\ e[k] \in Terminal => k = n
    BY <2>1, <2>2 DEF LogSound
  <2>4. \A k \in 1 .. n : e[k] \notin Terminal
    <3>1. e[i] \notin Terminal
      BY <2>3 DEF Active, Terminal, Outcomes
    <3>2. e[n] \notin Terminal
      BY <2>1, <2>3, <3>1 DEF Terminal, Outcomes
    <3>3. QED
      BY <2>3, <3>2
  <2>5. t \notin Terminal
    BY <2>1 DEF Terminal, Outcomes
  <2>6. \E m \in DOMAIN events'[j] :
              /\ events'[j][m] = status'[j]
              /\ \A k \in DOMAIN events'[j] :
                    /\ m < k => events'[j][k] = "progress"
                    /\ events'[j][k] \in Terminal => k = Len(events'[j])
    BY <2>1, <2>3, <2>4, <2>5
  <2>7. ASSUME NEW m \in DOMAIN events'[j], events'[j][m] = "cancelling"
        PROVE  /\ cancel_requested'[j]
               /\ \A k \in DOMAIN events'[j] : m < k =>
                     /\ events'[j][k] # "running"
                     /\ events'[j][k] = "progress" =>
                           /\ thread'[j] # "emitting"
                           /\ \A l \in DOMAIN events'[j] : k < l => events'[j][l] # "progress"
    <3>1. m \in 1 .. n
      BY <2>1, <2>7
    <3>2. cancel_requested[j] /\ \A k \in 1 .. n : m < k => e[k] # "running" /\ e[k] # "progress"
      BY <2>1, <2>7, <3>1 DEF LogSound
    <3>3. QED
      BY <2>1, <3>1, <3>2
  <2>8. QED
    BY <2>2, <2>6, <2>7 DEF LogSound
<1>5. QED
  BY <1>2, <1>3, <1>4, LogSteps

\* The log of every job, in every reachable state.
THEOREM LogInvariance == Spec => [](\A j \in Jobs : LogSound(j))
<1> DEFINE Logs == \A j \in Jobs : LogSound(j)
<1>1. Init => Logs
  BY DEF Init, LogSound, Known
<1>2. IInv /\ IInv' /\ Logs /\ [Next]_vars => Logs'
  BY LogStep
<1> HIDE DEF Logs
<1>3. Spec => []Logs
  BY <1>1, <1>2, Invariance, PTL DEF Spec
<1>4. QED
  BY <1>3 DEF Logs

\* A client that follows events(after_sequence) learns the record's status from
\* the last entry that is no progress, and finds a verdict only at the end.
THEOREM LogsTellStatus == Spec => []LogTellsStatus
<1>1. (\A j \in Jobs : LogSound(j)) => LogTellsStatus
  BY DEF LogSound, LogTellsStatus
<1>2. QED
  BY <1>1, LogInvariance, PTL

\* Once "cancelling" is logged the worker is not called any more and gets one
\* event out at most (JobContext.emit, cancel).
THEOREM CancelIsABoundary == Spec => []CancelBoundary
<1>1. (\A j \in Jobs : LogSound(j)) => CancelBoundary
  BY DEF LogSound, CancelBoundary
<1>2. QED
  BY <1>1, LogInvariance, PTL
=============================================================================
