------------------------ MODULE ProposalExecutionProofs ------------------------
(***************************************************************************)
(* What ProposalExecution promises for any set of proposals and for any    *)
(* number of versions, policy revisions, cancellations and restarts.       *)
(*                                                                         *)
(* The core of the argument is the workspace's lock: from the checks of a  *)
(* decision to its verdict one thread is inside, an executing proposal is  *)
(* the one it is inside for - or one whose verdict could not be saved -    *)
(* and the desktop works for that thread only.                             *)
(***************************************************************************)
EXTENDS ProposalExecution, TLAPS

\* One thread at a time is inside the lock.
Exclusive ==
    /\ \A d, e \in Decisions : job[d] \in Locked /\ job[e] \in Locked => d = e
    /\ \A d \in Decisions : job[d] \in Locked =>
          creating = {} /\ \A p \in Proposals : local[p] = "idle"
    /\ \A p, q \in Proposals : local[p] # "idle" /\ local[q] # "idle" => p = q
    /\ \A p \in Proposals : local[p] # "idle" => creating = {}

\* An executing proposal is the one that a thread is inside for, or one whose
\* verdict could not be saved; after a crash there is no thread.
Owned ==
    /\ \A d \in Decisions : job[d] \in Locked => proposal[d[1]] = "executing"
    /\ \A p \in Proposals : local[p] # "idle" => proposal[p] = "executing"
    /\ up => \A p \in Proposals : proposal[p] = "executing" =>
          \/ local[p] # "idle" \/ p \in unsaved
          \/ \E d \in Decisions : d[1] = p /\ job[d] \in Locked
    /\ up => \A p \in unsaved :
          /\ proposal[p] = "executing" /\ local[p] = "idle"
          /\ \A d \in Decisions : d[1] = p => job[d] \notin Locked

\* The desktop works, or has answered, for a decision that waits.
DesktopServes ==
    /\ desktop # "idle" \/ future # "none" => up /\ \E d \in Decisions : job[d] = "waiting"
    /\ desktop # "idle" => future = "none"
    /\ ~up => creating = {} /\ \A p \in Proposals : local[p] = "idle"

\* The desktop has not acted for the decision that waits.
NotActed == desktop = "working" \/ (desktop = "idle" /\ future = "none")

\* What was checked on entering the lock still holds inside it.
Consent(d) ==
    d[2].by = "policy" => policy.revision = d[2].revision /\ Allows(policy.mode, d[1])
Checked ==
    up => \A d \in Decisions : job[d] \in Locked =>
        /\ Consent(d)
        /\ job[d] = "granted" \/ (job[d] = "waiting" /\ NotActed) => BindingHolds(d[1])

\* What has not happened yet at each place inside the lock.
Unspent ==
    up =>
        /\ \A d \in Decisions : job[d] = "granted" => effects[d[1]] = 0 /\ commits[d[1]] = 0
        /\ \A d \in Decisions : job[d] = "waiting" =>
              /\ \/ commits[d[1]] = 0
                 \/ /\ Action[d[1]] = "debug"
                    /\ desktop = "activated" \/ future \in {"passed", "error"}
              /\ NotActed => effects[d[1]] = 0
        /\ \A p \in Proposals : local[p] = "granted" => commits[p] = 0

IInv ==
    /\ TypeOK
    /\ Exclusive /\ Owned /\ DesktopServes /\ Checked /\ Unspent
    /\ ExecutedOnce /\ EffectIsAnswered

-----------------------------------------------------------------------------
(* Facts about decisions and the lock *)

LEMMA DecisionOf == \A d \in Decisions : d[1] \in Proposals /\ d[2] \in Keys
BY DEF Decisions

LEMMA KeyOf ==
    ASSUME TypeOK, NEW p \in Proposals
    PROVE  /\ <<p, [by |-> "policy", revision |-> policy.revision]>> \in Decisions
           /\ <<p, [by |-> "user", revision |-> 0]>> \in Decisions
BY DEF TypeOK, Decisions, Keys

\* No project, no policy, one process.
LEMMA InitIInv == Init => IInv
<1> SUFFICES ASSUME Init PROVE IInv
  OBVIOUS
<1>1. TypeOK
  BY ProposalAssumption DEF Init, TypeOK, BindingType, Modes
<1>2. /\ \A d \in Decisions : job[d] = "none"
      /\ \A p \in Proposals : local[p] = "idle" /\ proposal[p] = "absent"
                              /\ effects[p] = 0 /\ commits[p] = 0
      /\ desktop = "idle" /\ future = "none" /\ up = TRUE /\ unsaved = {}
  BY DEF Init
<1> QED
  BY <1>1, <1>2 DEF IInv, Exclusive, Owned, DesktopServes, Checked, Unspent, NotActed,
                    ExecutedOnce, EffectIsAnswered, Locked

\* What a thread finds when it takes the lock.
LEMMA FreeSays ==
    ASSUME IInv, Free
    PROVE  /\ up /\ creating = {} /\ desktop = "idle" /\ future = "none"
           /\ \A d \in Decisions : job[d] \notin Locked
           /\ \A p \in Proposals : local[p] = "idle" /\ (proposal[p] = "executing" => p \in unsaved)
BY DEF Free, IInv, Owned, DesktopServes, Locked

\* What the thread of decision d finds while it is inside.
LEMMA InsideSays ==
    ASSUME IInv, NEW d \in Decisions, job[d] \in Locked
    PROVE  /\ creating = {} /\ \A p \in Proposals : local[p] = "idle"
           /\ \A e \in Decisions : job[e] \in Locked => e = d
           /\ d[1] \in Proposals /\ proposal[d[1]] = "executing"
           /\ up => /\ d[1] \notin unsaved
                    /\ \A p \in Proposals : proposal[p] = "executing" => p = d[1] \/ p \in unsaved
BY DecisionOf DEF IInv, Exclusive, Owned

\* What the thread that accepts the local candidate p finds.
LEMMA LocalSays ==
    ASSUME IInv, NEW p \in Proposals, local[p] # "idle"
    PROVE  /\ creating = {} /\ proposal[p] = "executing"
           /\ \A q \in Proposals : local[q] # "idle" => q = p
           /\ \A d \in Decisions : job[d] \notin Locked
           /\ desktop = "idle" /\ future = "none"
           /\ up /\ p \notin unsaved
           /\ \A q \in Proposals : proposal[q] = "executing" => q = p \/ q \in unsaved
<1>1. \A d \in Decisions : job[d] \notin Locked
  BY DEF IInv, Exclusive
<1> QED
  BY <1>1 DEF IInv, Exclusive, Owned, DesktopServes, Locked

-----------------------------------------------------------------------------
(* Steps outside the lock, and those inside that only refuse *)

\* A step that nobody inside the lock can see, or that is made with the lock in
\* hand and leaves nobody inside.
LEMMA OutsideKeeps ==
    ASSUME IInv, TypeOK',
           UNCHANGED <<up, local, desktop, future, effects, commits, unsaved>>,
           creating' \in {{}, creating} \/ Free,
           \A d \in Decisions : job[d] \in Locked \/ job'[d] \in Locked => job'[d] = job[d],
           \A p \in Proposals :
              /\ proposal[p] = "executing" \/ proposal'[p] = "executing"
                    => proposal'[p] = proposal[p]
              /\ proposal'[p] # proposal[p] => proposal[p] \in {"absent", "pending"},
           Free \/ (UNCHANGED <<policy, active, stamp, bound>>)
    PROVE  IInv'
<1>1. \A d \in Decisions : (job'[d] \in Locked <=> job[d] \in Locked)
                            /\ (job'[d] \in Locked => job'[d] = job[d])
  OBVIOUS
<1>2. Exclusive'
  BY <1>1, FreeSays DEF IInv, Exclusive
<1>3. Owned'
  <2>1. (\A d \in Decisions : job'[d] \in Locked => proposal'[d[1]] = "executing")
        /\ (\A p \in Proposals : local'[p] # "idle" => proposal'[p] = "executing")
    BY <1>1, DecisionOf DEF IInv, Owned
  <2>2. up' => \A p \in Proposals : proposal'[p] = "executing" =>
           \/ local'[p] # "idle" \/ p \in unsaved'
           \/ \E d \in Decisions : d[1] = p /\ job'[d] \in Locked
    BY <1>1 DEF IInv, Owned
  <2>3. up' => \A p \in unsaved' :
           /\ proposal'[p] = "executing" /\ local'[p] = "idle"
           /\ \A d \in Decisions : d[1] = p => job'[d] \notin Locked
    BY <1>1 DEF IInv, Owned, TypeOK
  <2> QED
    BY <2>1, <2>2, <2>3 DEF Owned
<1>4. DesktopServes'
  BY <1>1, FreeSays DEF IInv, DesktopServes, Locked
<1>5. Checked'
  <2>1. CASE Free
    <3>1. \A d \in Decisions : job'[d] \notin Locked
      BY <1>1, <2>1, FreeSays
    <3> QED
      BY <3>1 DEF Checked, Locked
  <2>2. CASE UNCHANGED <<policy, active, stamp, bound>>
    <3>1. \A d \in Decisions : job'[d] \in {"granted", "waiting"} => job[d] = job'[d]
      BY <1>1 DEF Locked
    <3>2. NotActed' <=> NotActed
      BY DEF NotActed
    <3>3. \A d \in Decisions : BindingHolds(d[1]) => BindingHolds(d[1])'
      BY <2>2 DEF BindingHolds
    <3>4. \A d \in Decisions : Consent(d) => Consent(d)'
      BY <2>2 DEF Consent, Allows
    <3>5. up => \A d \in Decisions : job'[d] \in Locked =>
             Consent(d) /\ (job'[d] = "granted" \/ (job'[d] = "waiting" /\ NotActed)
                               => BindingHolds(d[1]))
      BY <1>1 DEF IInv, Checked
    <3> QED
      BY <3>2, <3>3, <3>4, <3>5 DEF Checked
  <2> QED
    BY <2>1, <2>2
<1>6. Unspent'
  BY <1>1 DEF IInv, Unspent, NotActed, Locked
<1>7. ExecutedOnce' /\ EffectIsAnswered'
  BY DEF IInv, ExecutedOnce, EffectIsAnswered
<1> QED
  BY <1>2, <1>3, <1>4, <1>5, <1>6, <1>7 DEF IInv

\* The state of jobs and proposals after one of them has changed.
LEMMA JobToType ==
    ASSUME TypeOK, NEW d \in Decisions, NEW s \in {"none"} \cup JobActive \cup JobEnds, JobTo(d, s)
    PROVE  /\ job' \in [Decisions -> {"none"} \cup JobActive \cup JobEnds]
           /\ job'[d] = s /\ \A e \in Decisions : e # d => job'[e] = job[e]
BY DEF TypeOK, JobTo

LEMMA SettleType ==
    ASSUME TypeOK, NEW p \in Proposals, NEW v \in {"absent", "pending", "executing"} \cup Verdicts,
           Settle(p, v)
    PROVE  /\ proposal' \in [Proposals -> {"absent", "pending", "executing"} \cup Verdicts]
           /\ proposal'[p] = v /\ \A q \in Proposals : q # p => proposal'[q] = proposal[q]
BY DEF TypeOK, Settle

LEMMA UsersKeep ==
    ASSUME IInv, Rebind \/ \E m \in Modes : UpdatePolicy(m)
    PROVE  IInv'
<1>1. CASE Rebind
  <2>1. /\ versions' \in 0 .. MaxVersions /\ active' \in 0 .. versions' /\ stamp' \in 0 .. MaxStamp
        /\ versions <= versions'
    <3>1. versions \in 0 .. MaxVersions /\ active \in 0 .. versions
      BY DEF IInv, TypeOK
    <3> QED
      BY <1>1, <3>1, ProposalAssumption DEF Rebind
  <2>2. TypeOK'
    <3>1. UNCHANGED <<policy, records, work, memory, thread, history, spent>> /\ TypeOK
      BY <1>1 DEF Rebind, IInv
    <3>2. \A p \in Proposals : bound'[p].base <= versions'
      <4>1. \A p \in Proposals : bound[p].base \in Nat /\ bound[p].base <= versions
        BY <3>1, ProposalAssumption DEF TypeOK, BindingType
      <4> QED
        BY <2>1, <3>1, <4>1, ProposalAssumption DEF records, TypeOK
    <3> QED
      BY <2>1, <3>1, <3>2 DEF TypeOK, records, work, memory, thread, history, spent
  <2> QED
    BY <1>1, <2>2, OutsideKeeps DEF Rebind, records, work, memory, thread, history, spent
<1>2. CASE \E m \in Modes : UpdatePolicy(m)
  <2>1. policy' \in [mode : Modes, revision : 0 .. MaxRevision]
    <3>1. policy.revision \in 0 .. MaxRevision
      BY DEF IInv, TypeOK
    <3> QED
      BY <1>2, <3>1, ProposalAssumption DEF UpdatePolicy
  <2>2. TypeOK'
    BY <1>2, <2>1
    DEF UpdatePolicy, IInv, TypeOK, project, records, work, memory, thread, history, spent
  <2> QED
    BY <1>2, <2>2, OutsideKeeps
    DEF UpdatePolicy, project, records, work, memory, thread, history, spent
<1> QED
  BY <1>1, <1>2

LEMMA CreateKeeps ==
    ASSUME IInv, NEW p \in Proposals,
           (\E v \in 0 .. versions : Create(p, v)) \/ Replay(p) \/ ApplyPolicy(p) \/ Reject(p)
    PROVE  IInv'
<1>0. TypeOK
  BY DEF IInv
<1>1. CASE \E v \in 0 .. versions : Create(p, v)
  <2>1. PICK v \in 0 .. versions : Create(p, v)
    BY <1>1
  <2>2. /\ proposal' \in [Proposals -> {"absent", "pending", "executing"} \cup Verdicts]
        /\ proposal'[p] = "pending" /\ \A q \in Proposals : q # p => proposal'[q] = proposal[q]
    BY <1>0, <2>1, SettleType DEF Create
  <2>3. bound' \in [Proposals -> BindingType] /\ \A q \in Proposals : bound'[q].base <= versions
    <3> DEFINE b == [base |-> v, active |-> active, stamp |-> stamp]
    <3>1. b \in BindingType /\ b.base <= versions
      BY <1>0, ProposalAssumption DEF TypeOK, BindingType
    <3>2. bound' = [bound EXCEPT ![p] = b]
      BY <2>1 DEF Create
    <3> HIDE DEF b
    <3> QED
      BY <1>0, <3>1, <3>2 DEF TypeOK
  <2>4. TypeOK'
    BY <1>0, <2>1, <2>2, <2>3 DEF Create, TypeOK, project, work, thread, history, spent
  <2> QED
    BY <2>1, <2>2, <2>4, OutsideKeeps DEF Create, project, work, thread, history, spent
<1>2. CASE ApplyPolicy(p)
  <2> DEFINE d == <<p, [by |-> "policy", revision |-> policy.revision]>>
  <2>1. d \in Decisions
    BY <1>0, KeyOf
  <2>2. \A e \in Decisions : job[e] \notin Locked
    BY <1>2 DEF ApplyPolicy, IInv, Exclusive
  <2>3. /\ job' \in [Decisions -> {"none"} \cup JobActive \cup JobEnds]
        /\ \A e \in Decisions : job'[e] \notin Locked
    <3>1. CASE job' = job
      BY <1>0, <2>2, <3>1 DEF TypeOK
    <3>2. CASE JobTo(d, "queued")
      BY <1>0, <2>1, <2>2, <3>2, JobToType DEF JobActive, Locked
    <3> QED
      BY <1>2, <3>1, <3>2 DEF ApplyPolicy, PolicyJob
  <2>4. UNCHANGED <<project, policy, records, cancelled, up, local, thread, history, spent>>
        /\ creating' = {}
    BY <1>2 DEF ApplyPolicy
  <2>5. TypeOK'
    BY <1>0, <2>3, <2>4 DEF TypeOK, project, records, thread, history, spent
  <2> QED
    BY <2>2, <2>3, <2>4, <2>5, OutsideKeeps DEF project, records, thread, history, spent
<1>3. CASE Reject(p)
  <2>2. /\ proposal' \in [Proposals -> {"absent", "pending", "executing"} \cup Verdicts]
        /\ proposal'[p] = "rejected" /\ \A q \in Proposals : q # p => proposal'[q] = proposal[q]
    BY <1>0, <1>3, SettleType DEF Reject, Verdicts
  <2>3. TypeOK'
    BY <1>0, <1>3, <2>2 DEF Reject, TypeOK, project, work, memory, thread, history, spent
  <2> QED
    BY <1>3, <2>2, <2>3, OutsideKeeps DEF Reject, project, work, memory, thread, history, spent
<1>4. CASE Replay(p)
  <2>1. /\ Free /\ creating' = {p} /\ faults' = faults + 1
        /\ UNCHANGED <<project, policy, records, work, up, local, thread, history, cancels, crashes>>
    BY <1>4 DEF Replay
  <2>2. TypeOK'
    BY <1>0, <2>1 DEF TypeOK, project, records, work, thread, history
  <2> QED
    BY <2>1, <2>2, OutsideKeeps DEF project, records, work, thread, history
<1> QED
  BY <1>1, <1>2, <1>3, <1>4

\* The steps of a job before the lock, or with it when nothing is granted.
LEMMA WaitingJobKeeps ==
    ASSUME IInv, NEW d \in Decisions,
           RunJob(d) \/ Checkpoint(d) \/ Refuse(d) \/ OpenUnsaved(d) \/ Cancel(d)
    PROVE  IInv'
<1>0. TypeOK /\ d[1] \in Proposals
  BY DecisionOf DEF IInv
<1>1. CASE RunJob(d) \/ Checkpoint(d)
  <2>1. PICK s \in {"running", "cancelled"} : JobTo(d, s)
    BY <1>1 DEF RunJob, Checkpoint
  <2>2. job[d] \notin Locked /\ s \notin Locked /\ s \in JobActive \cup JobEnds
    BY <1>1 DEF RunJob, Checkpoint, Locked, JobActive, JobEnds
  <2>3. UNCHANGED <<project, policy, records, cancelled, memory, thread, history, spent>>
    BY <1>1 DEF RunJob, Checkpoint
  <2>4. /\ job' \in [Decisions -> {"none"} \cup JobActive \cup JobEnds]
        /\ \A e \in Decisions : job[e] \in Locked \/ job'[e] \in Locked => job'[e] = job[e]
    BY <1>0, <2>1, <2>2, JobToType
  <2>5. TypeOK'
    BY <1>0, <2>3, <2>4 DEF TypeOK, project, records, memory, thread, history, spent
  <2> QED
    BY <2>3, <2>4, <2>5, OutsideKeeps DEF project, records, memory, thread, history, spent
<1>2. CASE Refuse(d)
  <2>1. PICK s \in {"completed", "failed"} : JobTo(d, s)
    BY <1>2 DEF Refuse
  <2>2. job[d] \notin Locked /\ s \notin Locked /\ s \in JobEnds
    BY <1>2 DEF Refuse, Locked, JobEnds
  <2>3. UNCHANGED <<project, policy, bound, cancelled, memory, thread, history, spent>>
    BY <1>2 DEF Refuse
  <2>4. /\ job' \in [Decisions -> {"none"} \cup JobActive \cup JobEnds]
        /\ \A e \in Decisions : job[e] \in Locked \/ job'[e] \in Locked => job'[e] = job[e]
    BY <1>0, <2>1, <2>2, JobToType
  <2>5. /\ proposal' \in [Proposals -> {"absent", "pending", "executing"} \cup Verdicts]
        /\ \A q \in Proposals : proposal'[q] = proposal[q]
                                \/ (proposal[q] = "pending" /\ proposal'[q] = "conflict")
    <3>1. CASE UNCHANGED proposal
      BY <1>0, <3>1 DEF TypeOK
    <3>2. CASE proposal[d[1]] = "pending" /\ Settle(d[1], "conflict")
      BY <1>0, <3>2, SettleType DEF Verdicts
    <3> QED
      BY <1>2, <3>1, <3>2 DEF Refuse
  <2>6. TypeOK'
    BY <1>0, <2>3, <2>4, <2>5 DEF TypeOK, project, memory, thread, history, spent
  <2> QED
    BY <2>3, <2>4, <2>5, <2>6, OutsideKeeps DEF project, memory, thread, history, spent
<1>3. CASE Cancel(d)
  <2>1. TypeOK'
    BY <1>0, <1>3 DEF Cancel, TypeOK, project, records, memory, thread, history
  <2> QED
    BY <1>3, <2>1, OutsideKeeps DEF Cancel, project, records, memory, thread, history
<1>4. CASE OpenUnsaved(d)
  <2>1. job[d] = "running" /\ JobTo(d, "failed") /\ faults' = faults + 1
        /\ UNCHANGED <<project, policy, records, cancelled, memory, thread, history, cancels, crashes>>
    BY <1>4 DEF OpenUnsaved
  <2>2. /\ job' \in [Decisions -> {"none"} \cup JobActive \cup JobEnds]
        /\ \A e \in Decisions : job[e] \in Locked \/ job'[e] \in Locked => job'[e] = job[e]
    BY <1>0, <2>1, JobToType DEF JobEnds, Locked
  <2>3. TypeOK'
    BY <1>0, <2>1, <2>2 DEF TypeOK, project, records, memory, thread, history
  <2> QED
    BY <2>1, <2>2, <2>3, OutsideKeeps DEF project, records, memory, thread, history
<1> QED
  BY <1>1, <1>2, <1>3, <1>4

LEMMA ApproveKeeps ==
    ASSUME IInv, NEW p \in Proposals, Approve(p)
    PROVE  IInv'
<1> DEFINE d == <<p, [by |-> "user", revision |-> 0]>>
<1>1. d \in Decisions /\ TypeOK
  BY KeyOf DEF IInv
<1>2. JobTo(d, "queued") /\ job[d] = "none"
      /\ UNCHANGED <<project, policy, records, cancelled, memory, thread, history, spent>>
  BY DEF Approve
<1> HIDE DEF d
<1>3. /\ job' \in [Decisions -> {"none"} \cup JobActive \cup JobEnds]
      /\ \A e \in Decisions : job[e] \in Locked \/ job'[e] \in Locked => job'[e] = job[e]
  BY <1>1, <1>2, JobToType DEF JobActive, Locked
<1>4. TypeOK'
  BY <1>1, <1>2, <1>3 DEF TypeOK, project, records, memory, thread, history, spent
<1> QED
  BY <1>2, <1>3, <1>4, OutsideKeeps DEF project, records, memory, thread, history, spent

-----------------------------------------------------------------------------
(* A local candidate *)

\* Its acceptance, which is granted or refused.
LEMMA AcceptLocalKeeps ==
    ASSUME IInv, NEW p \in Proposals, AcceptLocal(p)
    PROVE  IInv'
<1>1. TypeOK /\ proposal[p] = "pending"
      /\ UNCHANGED <<project, policy, bound, work, up, creating, thread, history, spent>>
  BY DEF AcceptLocal, IInv
<1>2. CASE Settle(p, "conflict") /\ UNCHANGED local
  <2>1. /\ proposal' \in [Proposals -> {"absent", "pending", "executing"} \cup Verdicts]
        /\ proposal'[p] = "conflict" /\ \A q \in Proposals : q # p => proposal'[q] = proposal[q]
    BY <1>1, <1>2, SettleType DEF Verdicts
  <2>2. TypeOK'
    BY <1>1, <1>2, <2>1 DEF TypeOK, project, work, thread, history, spent
  <2> QED
    BY <1>1, <1>2, <2>1, <2>2, OutsideKeeps DEF project, work, thread, history, spent
<1>3. CASE Settle(p, "executing") /\ local' = [local EXCEPT ![p] = "granted"]
  <2>1. /\ proposal' \in [Proposals -> {"absent", "pending", "executing"} \cup Verdicts]
        /\ proposal'[p] = "executing" /\ \A q \in Proposals : q # p => proposal'[q] = proposal[q]
    BY <1>1, <1>3, SettleType
  <2>2. /\ local' \in [Proposals -> {"idle", "granted", "committed"}]
        /\ local'[p] = "granted" /\ \A q \in Proposals : q # p => local'[q] = local[q]
    BY <1>1, <1>3 DEF TypeOK
  <2>3. TypeOK'
    BY <1>1, <2>1, <2>2 DEF TypeOK, project, work, thread, history, spent
  <2>4. Free
    BY DEF AcceptLocal
  <2>5. /\ up /\ creating = {} /\ desktop = "idle" /\ future = "none"
        /\ \A d \in Decisions : job[d] \notin Locked
        /\ \A q \in Proposals : local[q] = "idle" /\ (proposal[q] = "executing" => q \in unsaved)
        /\ p \notin unsaved
    BY <1>1, <2>4, FreeSays DEF IInv, Owned
  <2>6. Exclusive' /\ DesktopServes'
    BY <1>1, <2>2, <2>5 DEF Exclusive, DesktopServes, work, thread
  <2>7. Owned'
    BY <1>1, <2>1, <2>2, <2>5 DEF IInv, Owned, TypeOK, work, history
  <2>8. Checked'
    BY <1>1, <2>5 DEF Checked, Locked, work
  <2>9. effects[p] = 0 /\ commits[p] = 0
    BY <1>1 DEF IInv, EffectIsAnswered, TypeOK
  <2>10. Unspent'
    BY <1>1, <2>2, <2>5, <2>9 DEF Unspent, Locked, work, history
  <2>11. ExecutedOnce' /\ EffectIsAnswered'
    BY <1>1, <2>1, <2>9 DEF IInv, ExecutedOnce, EffectIsAnswered, history
  <2> QED
    BY <2>3, <2>6, <2>7, <2>8, <2>10, <2>11 DEF IInv
<1> QED
  BY <1>2, <1>3 DEF AcceptLocal

\* What a commit does to the project.
LEMMA CommitSays ==
    ASSUME TypeOK, NEW p \in Proposals, CommitVersion(p)
    PROVE  /\ versions' \in 0 .. MaxVersions /\ active' \in 0 .. versions' /\ stamp' = stamp
           /\ commits' \in [Proposals -> Nat] /\ commits'[p] = commits[p] + 1
           /\ \A q \in Proposals : q # p => commits'[q] = commits[q]
           /\ \A q \in Proposals : bound[q].base <= versions'
<1>1. versions \in 0 .. MaxVersions /\ active \in 0 .. versions /\ commits \in [Proposals -> Nat]
  BY DEF TypeOK
<1>2. \A q \in Proposals : bound[q].base \in Nat /\ bound[q].base <= versions
  BY ProposalAssumption DEF TypeOK, BindingType
<1>3. versions' = versions + 1
  BY DEF CommitVersion
<1>4. \A q \in Proposals : bound[q].base <= versions'
  BY <1>1, <1>2, <1>3, ProposalAssumption
<1> QED
  BY <1>1, <1>4, ProposalAssumption DEF CommitVersion

LEMMA LocalCommitKeeps ==
    ASSUME IInv, NEW p \in Proposals, LocalCommit(p)
    PROVE  IInv'
<1>1. TypeOK /\ local[p] = "granted" /\ CommitVersion(p)
      /\ UNCHANGED <<policy, records, work, up, creating, thread, effects, unsaved, spent>>
  BY DEF LocalCommit, IInv
<1>2. /\ versions' \in 0 .. MaxVersions /\ active' \in 0 .. versions' /\ stamp' = stamp
      /\ commits' \in [Proposals -> Nat] /\ commits'[p] = commits[p] + 1
      /\ \A q \in Proposals : q # p => commits'[q] = commits[q]
      /\ \A q \in Proposals : bound[q].base <= versions'
  BY <1>1, CommitSays
<1>3. /\ local' \in [Proposals -> {"idle", "granted", "committed"}]
      /\ local'[p] = "committed" /\ \A q \in Proposals : q # p => local'[q] = local[q]
  BY <1>1 DEF TypeOK, LocalCommit
<1>4. TypeOK'
  BY <1>1, <1>2, <1>3 DEF TypeOK, records, work, thread, spent
<1>5. /\ creating = {} /\ proposal[p] = "executing" /\ up /\ p \notin unsaved
      /\ \A q \in Proposals : local[q] # "idle" => q = p
      /\ \A d \in Decisions : job[d] \notin Locked
      /\ desktop = "idle" /\ future = "none"
  BY <1>1, LocalSays
<1>6. Exclusive' /\ DesktopServes'
  BY <1>1, <1>3, <1>5 DEF Exclusive, DesktopServes, work, thread
<1>7. Owned'
  BY <1>1, <1>3, <1>5 DEF IInv, Owned, TypeOK, work, records
<1>8. Checked'
  BY <1>1, <1>5 DEF Checked, Locked, work
<1>9. commits[p] = 0
  BY <1>1, <1>5 DEF IInv, Unspent
<1>10. Unspent'
  BY <1>1, <1>3, <1>5 DEF Unspent, Locked, work
<1>11. ExecutedOnce' /\ EffectIsAnswered'
  BY <1>1, <1>2, <1>5, <1>9 DEF IInv, ExecutedOnce, EffectIsAnswered, records
<1> QED
  BY <1>4, <1>6, <1>7, <1>8, <1>10, <1>11 DEF IInv

\* The verdict cannot be saved: nobody is inside any more, and the proposal is one
\* that only a restart settles.
LEMMA LocalUnsavedKeeps ==
    ASSUME IInv, NEW p \in Proposals, LocalUnsaved(p)
    PROVE  IInv'
<1>1. TypeOK /\ local[p] # "idle" /\ unsaved' = unsaved \cup {p} /\ faults' = faults + 1
      /\ UNCHANGED <<project, policy, records, work, up, creating, thread, effects, commits,
                     cancels, crashes>>
  BY DEF LocalUnsaved, IInv
<1>2. /\ local' \in [Proposals -> {"idle", "granted", "committed"}]
      /\ local'[p] = "idle" /\ \A q \in Proposals : q # p => local'[q] = local[q]
  BY <1>1 DEF TypeOK, LocalUnsaved
<1>3. TypeOK'
  BY <1>1, <1>2 DEF TypeOK, project, records, work, thread
<1>4. /\ creating = {} /\ proposal[p] = "executing" /\ up
      /\ \A q \in Proposals : local[q] # "idle" => q = p
      /\ \A q \in Proposals : proposal[q] = "executing" => q = p \/ q \in unsaved
      /\ \A d \in Decisions : job[d] \notin Locked
      /\ desktop = "idle" /\ future = "none"
  BY <1>1, LocalSays
<1>5. Exclusive' /\ DesktopServes'
  BY <1>1, <1>2, <1>4 DEF Exclusive, DesktopServes, work, thread
<1>6. Owned'
  BY <1>1, <1>2, <1>4 DEF IInv, Owned, TypeOK, work, records
<1>7. Checked'
  BY <1>1, <1>4 DEF Checked, Locked, work
<1>8. Unspent'
  BY <1>1, <1>2, <1>4 DEF IInv, Unspent, Locked, work
<1>9. ExecutedOnce' /\ EffectIsAnswered'
  BY <1>1 DEF IInv, ExecutedOnce, EffectIsAnswered, records
<1> QED
  BY <1>3, <1>5, <1>6, <1>7, <1>8, <1>9 DEF IInv

LEMMA LocalDoneKeeps ==
    ASSUME IInv, NEW p \in Proposals, NEW v \in Verdicts, LocalDone(p, v)
    PROVE  IInv'
<1>1. TypeOK /\ local[p] # "idle" /\ v \in {"accepted", "interrupted"}
      /\ UNCHANGED <<project, policy, bound, work, up, creating, thread, history, spent>>
  BY DEF LocalDone, IInv
<1>2. /\ proposal' \in [Proposals -> {"absent", "pending", "executing"} \cup Verdicts]
      /\ proposal'[p] = v /\ \A q \in Proposals : q # p => proposal'[q] = proposal[q]
  BY <1>1, SettleType DEF LocalDone
<1>3. /\ local' \in [Proposals -> {"idle", "granted", "committed"}]
      /\ local'[p] = "idle" /\ \A q \in Proposals : q # p => local'[q] = local[q]
  BY <1>1 DEF TypeOK, LocalDone
<1>4. TypeOK'
  BY <1>1, <1>2, <1>3 DEF TypeOK, project, work, thread, history, spent
<1>5. /\ creating = {} /\ proposal[p] = "executing" /\ up /\ p \notin unsaved
      /\ \A q \in Proposals : local[q] # "idle" => q = p
      /\ \A q \in Proposals : proposal[q] = "executing" => q = p \/ q \in unsaved
      /\ \A d \in Decisions : job[d] \notin Locked
      /\ desktop = "idle" /\ future = "none"
  BY <1>1, LocalSays
<1>6. Exclusive' /\ DesktopServes'
  BY <1>1, <1>3, <1>5 DEF Exclusive, DesktopServes, work, thread
<1>7. Owned'
  BY <1>1, <1>2, <1>3, <1>5 DEF IInv, Owned, TypeOK, work, history
<1>8. Checked'
  BY <1>1, <1>5 DEF Checked, Locked, work
<1>9. Unspent'
  BY <1>1, <1>3, <1>5 DEF IInv, Unspent, Locked, work, history
<1>10. ExecutedOnce' /\ EffectIsAnswered'
  BY <1>1, <1>2, <1>5 DEF IInv, ExecutedOnce, EffectIsAnswered, history
<1> QED
  BY <1>4, <1>6, <1>7, <1>8, <1>9, <1>10 DEF IInv

-----------------------------------------------------------------------------
(* A decision inside the lock *)

\* The checks pass: the proposal is executing, and the job is inside for it.
LEMMA GrantKeeps ==
    ASSUME IInv, NEW d \in Decisions, Grant(d)
    PROVE  IInv'
<1>1. TypeOK /\ Free /\ d[1] \in Proposals /\ d[2] \in Keys /\ proposal[d[1]] = "pending"
      /\ ~ConsentGone(d) /\ BindingHolds(d[1])
      /\ UNCHANGED <<project, policy, bound, cancelled, memory, thread, history, spent>>
  BY DecisionOf DEF Grant, IInv
<1>2. /\ proposal' \in [Proposals -> {"absent", "pending", "executing"} \cup Verdicts]
      /\ proposal'[d[1]] = "executing"
      /\ \A q \in Proposals : q # d[1] => proposal'[q] = proposal[q]
  BY <1>1, SettleType DEF Grant
<1>3. /\ job' \in [Decisions -> {"none"} \cup JobActive \cup JobEnds]
      /\ job'[d] = "granted" /\ \A e \in Decisions : e # d => job'[e] = job[e]
  BY <1>1, JobToType DEF Grant, JobActive, Locked
<1>4. TypeOK'
  BY <1>1, <1>2, <1>3 DEF TypeOK, project, memory, thread, history, spent
<1>5. /\ up /\ creating = {} /\ desktop = "idle" /\ future = "none"
      /\ \A e \in Decisions : job[e] \notin Locked
      /\ \A q \in Proposals : local[q] = "idle" /\ (proposal[q] = "executing" => q \in unsaved)
      /\ d[1] \notin unsaved
  BY <1>1, FreeSays DEF IInv, Owned
<1>6. Exclusive' /\ DesktopServes'
  BY <1>1, <1>3, <1>5 DEF Exclusive, DesktopServes, memory, thread
<1>7. Owned'
  <2>1. \A e \in Decisions : job'[e] \in Locked <=> e = d
    BY <1>3, <1>5 DEF Locked
  <2> QED
    BY <1>1, <1>2, <1>5, <2>1 DEF IInv, Owned, TypeOK, memory, history
<1>8. Checked'
  <2>1. \A e \in Decisions : job'[e] \in Locked => e = d
    BY <1>3, <1>5
  <2>2. Consent(d) /\ BindingHolds(d[1])
    BY <1>1 DEF ConsentGone, Consent
  <2>3. Consent(d)' /\ BindingHolds(d[1])'
    BY <1>1, <2>2 DEF project, BindingHolds, Consent, Allows
  <2> QED
    BY <2>1, <2>3 DEF Checked
<1>9. effects[d[1]] = 0 /\ commits[d[1]] = 0
  BY <1>1 DEF IInv, EffectIsAnswered, TypeOK
<1>10. Unspent'
  BY <1>1, <1>3, <1>5, <1>9 DEF Unspent, Locked, memory, history
<1>11. ExecutedOnce' /\ EffectIsAnswered'
  BY <1>1, <1>2, <1>9 DEF IInv, ExecutedOnce, EffectIsAnswered, history
<1> QED
  BY <1>4, <1>6, <1>7, <1>8, <1>10, <1>11 DEF IInv

\* The job of d moves on inside the lock.
LEMMA MoveKeeps ==
    ASSUME IInv, NEW d \in Decisions, job[d] \in Locked, TypeOK', up,
           job'[d] \in {"waiting", "committed"},
           \A e \in Decisions : e # d => job'[e] = job[e],
           job'[d] = "waiting" /\ NotActed' =>
              /\ UNCHANGED <<active, stamp>>
              /\ job[d] = "granted" \/ (job[d] = "waiting" /\ NotActed),
           UNCHANGED <<policy, proposal, bound, up, creating, local, unsaved>>,
           \A p \in Proposals : p # d[1] => effects'[p] = effects[p] /\ commits'[p] = commits[p],
           effects'[d[1]] <= 1, commits'[d[1]] <= 1,
           desktop' # "idle" \/ future' # "none" => job'[d] = "waiting",
           desktop' # "idle" => future' = "none",
           job'[d] = "waiting" =>
              \/ commits'[d[1]] = 0
              \/ /\ Action[d[1]] = "debug"
                 /\ desktop' = "activated" \/ future' \in {"passed", "error"},
           job'[d] = "waiting" /\ NotActed' => effects'[d[1]] = 0
    PROVE  IInv'
<1>1. /\ creating = {} /\ \A p \in Proposals : local[p] = "idle"
      /\ \A e \in Decisions : job[e] \in Locked => e = d
      /\ d[1] \in Proposals /\ proposal[d[1]] = "executing" /\ d[1] \notin unsaved
      /\ \A p \in Proposals : proposal[p] = "executing" => p = d[1] \/ p \in unsaved
  BY InsideSays
<1>2. \A e \in Decisions : job'[e] \in Locked <=> e = d
  BY <1>1 DEF Locked
<1>3. Exclusive' /\ DesktopServes'
  BY <1>1, <1>2 DEF Exclusive, DesktopServes
<1>4. Owned'
  BY <1>1, <1>2 DEF IInv, Owned, TypeOK
<1>5. Checked'
  <2>1. Consent(d) /\ (job[d] = "granted" \/ (job[d] = "waiting" /\ NotActed)
                           => BindingHolds(d[1]))
    BY DEF IInv, Checked
  <2>2. Consent(d)'
    BY <2>1 DEF Consent, Allows
  <2>3. job'[d] = "waiting" /\ NotActed' => BindingHolds(d[1])'
    BY <2>1 DEF BindingHolds
  <2>4. job'[d] # "granted"
    OBVIOUS
  <2> QED
    BY <1>2, <2>2, <2>3, <2>4 DEF Checked
<1>6. Unspent'
  BY <1>1, <1>2 DEF Unspent, Locked
<1>7. ExecutedOnce' /\ EffectIsAnswered'
  BY <1>1 DEF IInv, ExecutedOnce, EffectIsAnswered
<1> QED
  BY <1>3, <1>4, <1>5, <1>6, <1>7 DEF IInv

LEMMA SubmitKeeps ==
    ASSUME IInv, NEW d \in Decisions, SubmitApproved(d)
    PROVE  IInv'
<1>1. TypeOK /\ up /\ job[d] = "granted" /\ job[d] \in Locked
      /\ UNCHANGED <<project, policy, records, cancelled, memory, thread, history, spent>>
  BY DEF SubmitApproved, IInv, Locked
<1>2. /\ job' \in [Decisions -> {"none"} \cup JobActive \cup JobEnds]
      /\ job'[d] = "waiting" /\ \A e \in Decisions : e # d => job'[e] = job[e]
  BY <1>1, JobToType DEF SubmitApproved, JobActive, Locked
<1>3. TypeOK'
  BY <1>1, <1>2 DEF TypeOK, project, records, memory, thread, history, spent
<1>4. effects[d[1]] = 0 /\ commits[d[1]] = 0 /\ desktop = "idle" /\ future = "none"
  <2>1. \A e \in Decisions : job[e] # "waiting"
    BY <1>1, InsideSays DEF Locked
  <2> QED
    BY <1>1, <2>1 DEF IInv, Unspent, DesktopServes
<1> QED
  BY <1>1, <1>2, <1>3, <1>4, MoveKeeps
  DEF project, records, memory, thread, history

\* The steps of the desktop thread.
LEMMA DesktopKeeps ==
    ASSUME IInv, NEW d \in Decisions,
           \/ Begin(d) \/ Stale(d) \/ Effect(d) \/ ProgressCancelled(d)
           \/ \E o \in Outcomes : Return(d, o)
    PROVE  IInv'
<1>1. TypeOK /\ up /\ job[d] = "waiting" /\ job[d] \in Locked /\ d[1] \in Proposals
      /\ UNCHANGED <<project, policy, records, work, memory, commits, unsaved, spent>>
  BY DecisionOf DEF IInv, Begin, Stale, Effect, ProgressCancelled, Return, Locked, history
<1>2. /\ commits[d[1]] \in Nat /\ commits[d[1]] <= 1
      /\ effects[d[1]] \in Nat /\ effects[d[1]] <= 1
      /\ (NotActed => effects[d[1]] = 0)
      /\ (desktop # "idle" => future = "none")
      /\ (desktop # "activated" /\ future = "none" => commits[d[1]] = 0)
      /\ (desktop = "activated" /\ commits[d[1]] # 0 => Action[d[1]] = "debug")
  BY <1>1 DEF IInv, Unspent, TypeOK, ExecutedOnce, DesktopServes
<1>3. CASE Begin(d)
  <2>1. TypeOK'
    BY <1>1, <1>3 DEF Begin, TypeOK, project, records, work, memory, history, spent
  <2> QED
    BY <1>1, <1>2, <1>3, <2>1, MoveKeeps DEF Begin, NotActed, project, records, work, memory, history
<1>4. CASE Stale(d)
  <2>1. TypeOK'
    BY <1>1, <1>4 DEF Stale, TypeOK, Outcomes, project, records, work, memory, history, spent
  <2> QED
    BY <1>1, <1>2, <1>4, <2>1, MoveKeeps DEF Stale, NotActed, project, records, work, memory, history
<1>5. CASE Effect(d)
  <2>1. /\ effects' \in [Proposals -> Nat] /\ effects'[d[1]] = effects[d[1]] + 1
        /\ \A p \in Proposals : p # d[1] => effects'[p] = effects[p]
    BY <1>1, <1>5 DEF Effect, TypeOK
  <2>2. TypeOK'
    BY <1>1, <1>5, <2>1 DEF Effect, TypeOK, project, records, work, memory, spent
  <2>3. effects[d[1]] = 0 /\ future = "none" /\ commits[d[1]] = 0
    BY <1>2, <1>5 DEF Effect, NotActed
  <2> QED
    BY <1>1, <1>2, <1>5, <2>1, <2>2, <2>3, MoveKeeps
    DEF Effect, NotActed, project, records, work, memory
<1>6. CASE ProgressCancelled(d)
  <2>1. TypeOK'
    BY <1>1, <1>6 DEF ProgressCancelled, TypeOK, project, records, work, memory, history, spent
  <2> QED
    BY <1>1, <1>2, <1>6, <2>1, MoveKeeps
    DEF ProgressCancelled, NotActed, project, records, work, memory, history
<1>7. CASE \E o \in Outcomes : Return(d, o)
  <2>1. PICK o \in Outcomes : Return(d, o)
    BY <1>7
  <2>2. TypeOK'
    BY <1>1, <2>1 DEF Return, TypeOK, project, records, work, memory, history, spent
  <2>3. o # "none" /\ desktop' = "idle" /\ future' = o /\ UNCHANGED effects /\ desktop # "idle"
        /\ (desktop = "activated" => o \in {"passed", "error"})
    BY <2>1 DEF Return, Outcomes, history
  <2>4. ~NotActed'
    BY <2>3 DEF NotActed
  <2>5. commits[d[1]] = 0 \/ (Action[d[1]] = "debug" /\ future' \in {"passed", "error"})
    BY <1>2, <2>3
  <2> QED
    BY <1>1, <1>2, <2>2, <2>3, <2>4, <2>5, MoveKeeps DEF project, records, work, memory
<1> QED
  BY <1>3, <1>4, <1>5, <1>6, <1>7

\* The versions of a debugging plan, made and unmade by the desktop thread.
LEMMA DebugKeeps ==
    ASSUME IInv, NEW d \in Decisions, DebugCandidate(d) \/ DebugReverts(d)
    PROVE  IInv'
<1>1. TypeOK /\ up /\ job[d] = "waiting" /\ job[d] \in Locked /\ d[1] \in Proposals
      /\ desktop \in {"acted", "activated"} /\ future = "none"
      /\ UNCHANGED <<stamp, policy, records, work, memory, effects, unsaved, spent>>
  BY DecisionOf
  DEF IInv, DebugCandidate, DebugReverts, DesktopServes, Locked, history
<1>2. /\ commits[d[1]] \in Nat /\ commits[d[1]] <= 1 /\ effects[d[1]] <= 1
      /\ (desktop = "acted" => commits[d[1]] = 0)
      /\ (commits[d[1]] # 0 => Action[d[1]] = "debug")
  BY <1>1 DEF IInv, Unspent, TypeOK, ExecutedOnce
<1>3. /\ versions \in 0 .. MaxVersions /\ active \in 0 .. versions
      /\ \A q \in Proposals : bound[q].base \in Nat /\ bound[q].base <= versions
  BY <1>1, ProposalAssumption DEF TypeOK, BindingType
<1>4. CASE DebugCandidate(d)
  <2>1. /\ versions' \in 0 .. MaxVersions /\ active' \in 0 .. versions'
        /\ \A q \in Proposals : bound[q].base <= versions'
    BY <1>3, <1>4, ProposalAssumption DEF DebugCandidate
  <2>2. /\ commits' \in [Proposals -> Nat] /\ commits'[d[1]] \in 0 .. 1
        /\ \A q \in Proposals : q # d[1] => commits'[q] = commits[q]
        /\ desktop' \in {"activated", "refused"} /\ future' = future
        /\ (desktop' = "refused" => commits'[d[1]] = 0) /\ Action[d[1]] = "debug"
    BY <1>1, <1>2, <1>4 DEF DebugCandidate, TypeOK
  <2>3. TypeOK'
    BY <1>1, <2>1, <2>2 DEF TypeOK, records, work, memory, spent
  <2>4. ~NotActed'
    BY <2>2 DEF NotActed
  <2> QED
    BY <1>1, <1>2, <2>2, <2>3, <2>4, MoveKeeps DEF records, work, memory
<1>5. CASE DebugReverts(d)
  <2>1. active' \in 0 .. versions /\ versions' = versions /\ commits' = commits
        /\ desktop' = "idle" /\ future' = "error" /\ desktop = "activated"
    BY <1>1, <1>3, <1>5, ProposalAssumption DEF DebugReverts, history
  <2>2. TypeOK'
    BY <1>1, <2>1 DEF TypeOK, Outcomes, records, work, memory, spent
  <2>3. ~NotActed'
    BY <2>1 DEF NotActed
  <2> QED
    BY <1>1, <1>2, <2>1, <2>2, <2>3, MoveKeeps DEF records, work, memory
<1> QED
  BY <1>4, <1>5

LEMMA NativeCommitKeeps ==
    ASSUME IInv, NEW d \in Decisions, NativeCommit(d)
    PROVE  IInv'
<1>1. TypeOK /\ up /\ job[d] = "waiting" /\ job[d] \in Locked /\ d[1] \in Proposals
      /\ CommitVersion(d[1]) /\ future = "passed" /\ future' = "none" /\ desktop' = desktop
      /\ UNCHANGED <<policy, records, cancelled, memory, effects, unsaved, spent>>
      /\ Action[d[1]] # "debug"
  BY DecisionOf DEF IInv, NativeCommit, Locked
<1>2. /\ job' \in [Decisions -> {"none"} \cup JobActive \cup JobEnds]
      /\ job'[d] = "committed" /\ \A e \in Decisions : e # d => job'[e] = job[e]
  BY <1>1, JobToType DEF NativeCommit, JobActive, Locked
<1>3. /\ versions' \in 0 .. MaxVersions /\ active' \in 0 .. versions' /\ stamp' = stamp
      /\ commits' \in [Proposals -> Nat] /\ commits'[d[1]] = commits[d[1]] + 1
      /\ \A q \in Proposals : q # d[1] => commits'[q] = commits[q]
      /\ \A q \in Proposals : bound[q].base <= versions'
  BY <1>1, CommitSays
<1>4. TypeOK'
  BY <1>1, <1>2, <1>3 DEF TypeOK, records, memory, spent
<1>5. commits[d[1]] = 0 /\ effects[d[1]] <= 1 /\ desktop = "idle"
  BY <1>1 DEF IInv, Unspent, ExecutedOnce, DesktopServes
<1> QED
  BY <1>1, <1>2, <1>3, <1>4, <1>5, MoveKeeps DEF Locked, records, memory

\* The thread of d leaves the lock with a verdict.
LEMMA LeaveKeeps ==
    ASSUME IInv, NEW d \in Decisions, job[d] \in Locked, up,
           NEW s \in JobEnds, JobTo(d, s),
           NEW v \in {"accepted", "failed", "interrupted"}, Settle(d[1], v),
           v = "failed" => commits[d[1]] = 0,
           desktop = "idle", future' = "none",
           UNCHANGED <<project, policy, bound, cancelled, memory, desktop, history, spent>>
    PROVE  IInv'
<1>1. /\ creating = {} /\ \A p \in Proposals : local[p] = "idle"
      /\ \A e \in Decisions : job[e] \in Locked => e = d
      /\ d[1] \in Proposals /\ proposal[d[1]] = "executing" /\ TypeOK
      /\ d[1] \notin unsaved
      /\ \A p \in Proposals : proposal[p] = "executing" => p = d[1] \/ p \in unsaved
  BY InsideSays DEF IInv
<1>2. /\ job' \in [Decisions -> {"none"} \cup JobActive \cup JobEnds]
      /\ job'[d] = s /\ \A e \in Decisions : e # d => job'[e] = job[e]
  BY <1>1, JobToType
<1>3. /\ proposal' \in [Proposals -> {"absent", "pending", "executing"} \cup Verdicts]
      /\ proposal'[d[1]] = v /\ \A q \in Proposals : q # d[1] => proposal'[q] = proposal[q]
  BY <1>1, SettleType DEF Verdicts
<1>4. TypeOK'
  BY <1>1, <1>2, <1>3 DEF TypeOK, project, memory, history, spent
<1>5. \A e \in Decisions : job'[e] \notin Locked
  BY <1>1, <1>2 DEF JobEnds, Locked
<1>6. Exclusive' /\ DesktopServes'
  BY <1>1, <1>5 DEF Exclusive, DesktopServes, memory
<1>7. Owned'
  BY <1>1, <1>3, <1>5 DEF IInv, Owned, TypeOK, memory, history
<1>8. Checked' /\ Unspent'
  BY <1>1, <1>5 DEF Checked, Unspent, Locked, memory
<1>9. ExecutedOnce' /\ EffectIsAnswered'
  BY <1>1, <1>3 DEF IInv, ExecutedOnce, EffectIsAnswered, TypeOK, history
<1> QED
  BY <1>4, <1>6, <1>7, <1>8, <1>9 DEF IInv

\* The thread of d leaves the lock with a verdict that it cannot save.
LEMMA VerdictUnsavedKeeps ==
    ASSUME IInv, NEW d \in Decisions, VerdictUnsaved(d), desktop = "idle"
    PROVE  IInv'
<1>1. job[d] \in Locked /\ up /\ JobTo(d, "failed") /\ future' = "none"
      /\ unsaved' = unsaved \cup {d[1]} /\ faults' = faults + 1
      /\ UNCHANGED <<project, policy, records, cancelled, memory, desktop, effects, commits,
                     cancels, crashes>>
  BY DEF VerdictUnsaved, Locked
<1>2. /\ creating = {} /\ \A p \in Proposals : local[p] = "idle"
      /\ \A e \in Decisions : job[e] \in Locked => e = d
      /\ d[1] \in Proposals /\ proposal[d[1]] = "executing" /\ TypeOK
      /\ \A p \in Proposals : proposal[p] = "executing" => p = d[1] \/ p \in unsaved
  BY <1>1, InsideSays DEF IInv
<1>3. /\ job' \in [Decisions -> {"none"} \cup JobActive \cup JobEnds]
      /\ job'[d] = "failed" /\ \A e \in Decisions : e # d => job'[e] = job[e]
  BY <1>1, <1>2, JobToType DEF JobEnds
<1>4. TypeOK'
  BY <1>1, <1>2, <1>3 DEF TypeOK, project, records, memory
<1>5. \A e \in Decisions : job'[e] \notin Locked
  BY <1>2, <1>3 DEF Locked
<1>6. Exclusive' /\ DesktopServes'
  BY <1>1, <1>2, <1>5 DEF Exclusive, DesktopServes, memory
<1>7. Owned'
  BY <1>1, <1>2, <1>5 DEF IInv, Owned, TypeOK, memory, records
<1>8. Checked' /\ Unspent'
  BY <1>1, <1>2, <1>5 DEF Checked, Unspent, Locked, memory
<1>9. ExecutedOnce' /\ EffectIsAnswered'
  BY <1>1 DEF IInv, ExecutedOnce, EffectIsAnswered, records
<1> QED
  BY <1>4, <1>6, <1>7, <1>8, <1>9 DEF IInv

LEMMA RecordKeeps ==
    ASSUME IInv, NEW d \in Decisions,
           Record(d) \/ NativeRecord(d) \/ NativeRaises(d) \/ VerdictUnsaved(d)
    PROVE  IInv'
<1>1. up /\ job[d] \in Locked
      /\ (job[d] \in {"granted", "committed"} \/ (job[d] = "waiting" /\ future # "none")) /\ TypeOK
  BY DEF Record, NativeRecord, NativeRaises, VerdictUnsaved, Locked, IInv
<1>2. desktop = "idle"
  <2>1. CASE job[d] \in {"granted", "committed"}
    <3>1. \A e \in Decisions : job[e] # "waiting"
      BY <1>1, <2>1, InsideSays DEF Locked
    <3> QED
      BY <3>1 DEF IInv, DesktopServes
  <2>2. CASE future # "none"
    BY <2>2 DEF IInv, DesktopServes
  <2> QED
    BY <1>1, <2>1, <2>2
<1>3. CASE Record(d)
  <2>1. future \in Outcomes /\ job[d] = "waiting"
    BY <1>1, <1>3 DEF Record, TypeOK
  <2>2. VerdictOf(future) \in {"accepted", "failed", "interrupted"}
    BY <2>1 DEF VerdictOf, Outcomes
  <2>3. VerdictOf(future) = "failed" => commits[d[1]] = 0
    BY <1>1, <1>2, <2>1 DEF IInv, Unspent, VerdictOf, Outcomes
  <2> QED
    BY <1>1, <1>2, <1>3, <2>2, <2>3, LeaveKeeps DEF Record, JobEnds
<1>4. CASE NativeRecord(d)
  BY <1>1, <1>2, <1>4, LeaveKeeps DEF NativeRecord, JobEnds
<1>5. CASE NativeRaises(d)
  BY <1>1, <1>2, <1>5, LeaveKeeps DEF NativeRaises, JobEnds
<1>6. CASE VerdictUnsaved(d)
  BY <1>2, <1>6, VerdictUnsavedKeeps
<1> QED
  BY <1>3, <1>4, <1>5, <1>6

-----------------------------------------------------------------------------
(* The process *)

LEMMA CrashKeeps ==
    ASSUME IInv, Crash
    PROVE  IInv'
<1>0. local' \in [Proposals -> {"idle", "granted", "committed"}] /\ crashes' \in Nat
  BY DEF Crash, IInv, TypeOK
<1>1. TypeOK'
  BY <1>0 DEF Crash, IInv, TypeOK, project, records, work, history
<1>2. up' = FALSE /\ creating' = {} /\ desktop' = "idle" /\ future' = "none"
      /\ \A p \in Proposals : local'[p] = "idle"
  BY DEF Crash
<1>3. UNCHANGED <<project, policy, records, work, history>>
  BY DEF Crash
<1>4. Exclusive' /\ Owned' /\ DesktopServes' /\ Checked' /\ Unspent'
  BY <1>2, <1>3 DEF IInv, Exclusive, Owned, DesktopServes, Checked, Unspent, records, work
<1>5. ExecutedOnce' /\ EffectIsAnswered'
  BY <1>3 DEF IInv, ExecutedOnce, EffectIsAnswered, records, history
<1> QED
  BY <1>1, <1>4, <1>5 DEF IInv

LEMMA RestartKeeps ==
    ASSUME IInv, Restart
    PROVE  IInv'
<1>1. TypeOK /\ ~up /\ up' = TRUE
      /\ unsaved' = {}
      /\ UNCHANGED <<project, policy, bound, cancelled, creating, local, thread,
                     effects, commits, spent>>
  BY DEF Restart, IInv
<1>2. /\ job' \in [Decisions -> {"none"} \cup JobActive \cup JobEnds]
      /\ \A d \in Decisions : job'[d] \notin Locked
  BY <1>1 DEF Restart, TypeOK, JobActive, JobEnds, Locked
<1>3. /\ proposal' \in [Proposals -> {"absent", "pending", "executing"} \cup Verdicts]
      /\ \A p \in Proposals :
            \/ proposal[p] = "executing" /\ proposal'[p] = "interrupted"
            \/ proposal[p] # "executing" /\ proposal'[p] = proposal[p]
  BY <1>1 DEF Restart, TypeOK, Verdicts
<1>4. TypeOK'
  BY <1>1, <1>2, <1>3 DEF TypeOK, project, thread, spent
<1>5. creating = {} /\ desktop = "idle" /\ future = "none"
      /\ \A p \in Proposals : local[p] = "idle"
  BY <1>1 DEF IInv, DesktopServes
<1>6. Exclusive' /\ Owned' /\ DesktopServes' /\ Checked' /\ Unspent'
  BY <1>1, <1>2, <1>3, <1>5
  DEF Exclusive, Owned, DesktopServes, Checked, Unspent, Locked, thread
<1>7. ExecutedOnce' /\ EffectIsAnswered'
  BY <1>1, <1>3 DEF IInv, ExecutedOnce, EffectIsAnswered
<1> QED
  BY <1>4, <1>6, <1>7 DEF IInv

-----------------------------------------------------------------------------
(* The theorems *)

LEMMA StepKeeps == IInv /\ [Next]_vars => IInv'
<1> SUFFICES ASSUME IInv, [Next]_vars PROVE IInv'
  OBVIOUS
<1>1. CASE Users
  BY <1>1, UsersKeep, CreateKeeps, ApproveKeeps, AcceptLocalKeeps, WaitingJobKeeps DEF Users
<1>2. CASE \E p \in Proposals : InLock(p)
  BY <1>2, CreateKeeps, LocalCommitKeeps, LocalDoneKeeps, LocalUnsavedKeeps DEF InLock
<1>3. CASE \E d \in Decisions : Worker(d)
  BY <1>3, WaitingJobKeeps, GrantKeeps, SubmitKeeps, RecordKeeps, NativeCommitKeeps DEF Worker
<1>4. CASE \E d \in Decisions : Desktop(d)
  BY <1>4, DesktopKeeps, DebugKeeps DEF Desktop
<1>5. CASE Crash \/ Restart
  BY <1>5, CrashKeeps, RestartKeeps
<1>6. CASE UNCHANGED vars
  BY <1>6 DEF vars, project, records, work, memory, thread, history, spent, IInv, TypeOK,
              Exclusive, Owned, DesktopServes, Checked, Consent, BindingHolds, Allows, NotActed,
              Unspent, ExecutedOnce, EffectIsAnswered
<1> QED
  BY <1>1, <1>2, <1>3, <1>4, <1>5, <1>6 DEF Next

LEMMA Inductive == Spec => []IInv
BY InitIInv, StepKeeps, PTL DEF Spec

\* Everything recorded keeps its type, and a version that is active exists.
THEOREM TypeCorrect == Spec => []TypeOK
<1>1. IInv => TypeOK
  BY DEF IInv
<1> QED
  BY <1>1, Inductive, PTL

\* An approved proposal acts at most once and becomes at most one version, for
\* any number of approvals, policy revisions, cancellations and restarts
\* (ProposalService.accept, "Never retry it automatically").
THEOREM ActsOnce == Spec => []ExecutedOnce
<1>1. IInv => ExecutedOnce
  BY DEF IInv
<1> QED
  BY <1>1, Inductive, PTL

\* What acted is never recorded as not having acted: the verdicts of accept and
\* the recovery of ProposalService keep failed apart from interrupted.
THEOREM EffectsAreAnswered == Spec => []EffectIsAnswered
<1>1. IInv => EffectIsAnswered
  BY DEF IInv
<1> QED
  BY <1>1, Inductive, PTL

\* In a running process an executing proposal has one thread that settles it,
\* unless the save of its verdict has failed (the _save of accept behind the try).
THEOREM ExecutingHasOwner == Spec => []ExecutingIsOwned
<1>1. IInv => ExecutingIsOwned
  BY DecisionOf DEF IInv, ExecutingIsOwned, Holders, Exclusive, Owned
<1> QED
  BY <1>1, Inductive, PTL

\* The policy that started a job stands while the desktop works for it: it can
\* be changed under the lock only, which the job holds (proposal_workflow.py).
THEOREM ConsentStandsAlways == Spec => []ConsentStands
<1>1. IInv => ConsentStands
  BY DEF IInv, ConsentStands, Checked, Consent, Locked
<1> QED
  BY <1>1, Inductive, PTL

\* One thread at a time is inside the workspace's lock, and the desktop works for
\* the decision that waits inside it and for no other.
THEOREM OneInside == Spec => [](Exclusive /\ DesktopServes)
<1>1. IInv => Exclusive /\ DesktopServes
  BY DEF IInv
<1> QED
  BY <1>1, Inductive, PTL

\* A step changes the effects of a proposal only when it is the effect of a
\* decision that waits, whose checks still hold.
LEMMA EffectStep ==
    ASSUME IInv, [Next]_vars, NEW p \in Proposals, effects'[p] # effects[p]
    PROVE  proposal[p] = "executing" /\ BindingHolds(p) /\ bound[p].base = active
<1>1. PICK d \in Decisions : Effect(d)
  <2>1. ~(UNCHANGED effects)
    OBVIOUS
  <2>2. ~Users
    BY <2>1 DEF Users, Rebind, UpdatePolicy, Create, Replay, Reject, Approve, AcceptLocal, Cancel,
                history
  <2>3. \A q \in Proposals : ~InLock(q)
    BY <2>1 DEF InLock, ApplyPolicy, LocalCommit, LocalUnsaved, LocalDone, history
  <2>4. \A d \in Decisions : ~Worker(d)
    BY <2>1 DEF Worker, RunJob, Checkpoint, Refuse, Grant, SubmitApproved, Record, NativeCommit,
                NativeRecord, NativeRaises, OpenUnsaved, VerdictUnsaved, history
  <2>5. ~Crash /\ ~Restart /\ ~(UNCHANGED vars)
    BY <2>1 DEF Crash, Restart, vars, history
  <2>6. \E d \in Decisions : Desktop(d)
    BY <2>2, <2>3, <2>4, <2>5 DEF Next
  <2> QED
    BY <2>1, <2>6
    DEF Desktop, Begin, Stale, ProgressCancelled, DebugCandidate, DebugReverts, Return, history
<1>2. d[1] = p
  BY <1>1, DecisionOf DEF Effect, IInv, TypeOK
<1>3. up /\ job[d] = "waiting" /\ bound[p].base = active /\ NotActed
  BY <1>1, <1>2 DEF Effect, NotActed
<1> QED
  BY <1>2, <1>3 DEF IInv, Owned, Checked, Locked

\* The desktop acts for an executing proposal whose binding still holds, however
\* long ago and on whatever thread it was checked.
THEOREM EffectsAreBound == Spec => EffectIsBound
<1>1. IInv /\ [Next]_vars =>
        [\A p \in Proposals : effects'[p] # effects[p] =>
            /\ proposal[p] = "executing"
            /\ BindingHolds(p) /\ bound[p].base = active]_vars
  BY EffectStep
<1> QED
  BY <1>1, Inductive, PTL DEF Spec, EffectIsBound

\* A decided proposal is not executing, so no thread is inside for it.
LEMMA VerdictStep ==
    ASSUME IInv, [Next]_vars, NEW p \in Proposals, proposal[p] \in Verdicts
    PROVE  proposal'[p] = proposal[p] /\ effects'[p] = effects[p] /\ commits'[p] = commits[p]
<1>1. /\ proposal[p] \notin {"absent", "pending", "executing"} /\ TypeOK
      /\ local[p] = "idle" /\ \A d \in Decisions : job[d] \in Locked => d[1] # p
  BY DEF Verdicts, IInv, Owned
<1>2. CASE Users
  <2>1. UNCHANGED <<effects, commits>>
    BY <1>2 DEF Users, Rebind, UpdatePolicy, Create, Replay, Reject, Approve, AcceptLocal, Cancel,
                history
  <2>2. \A q \in Proposals, v \in 0 .. versions :
           Create(q, v) \/ Reject(q) \/ AcceptLocal(q) => proposal'[p] = proposal[p]
    BY <1>1 DEF Create, Reject, AcceptLocal, Settle, TypeOK
  <2>3. \A q \in Proposals : Reject(q) \/ AcceptLocal(q) => proposal'[p] = proposal[p]
    BY <1>1 DEF Reject, AcceptLocal, Settle, TypeOK
  <2>4. Rebind \/ (\E m \in Modes : UpdatePolicy(m)) \/ (\E d \in Decisions : Cancel(d))
          \/ (\E q \in Proposals : Approve(q) \/ Replay(q)) => UNCHANGED proposal
    BY DEF Rebind, UpdatePolicy, Approve, Replay, Cancel, records
  <2> QED
    BY <1>2, <2>1, <2>2, <2>3, <2>4 DEF Users
<1>3. CASE \E q \in Proposals : InLock(q)
  <2>1. PICK q \in Proposals : InLock(q)
    BY <1>3
  <2>2. CASE ApplyPolicy(q)
    BY <2>2 DEF ApplyPolicy, records, history
  <2>3. CASE LocalCommit(q) \/ LocalUnsaved(q)
    BY <1>1, <2>3 DEF LocalCommit, LocalUnsaved, CommitVersion, records, TypeOK
  <2>4. CASE \E v \in Verdicts : LocalDone(q, v)
    BY <1>1, <2>4 DEF LocalDone, Settle, history, TypeOK
  <2> QED
    BY <2>1, <2>2, <2>3, <2>4 DEF InLock
<1>4. CASE \E d \in Decisions : Worker(d)
  <2>1. PICK d \in Decisions : Worker(d)
    BY <1>4
  <2>2. d[1] \in Proposals /\ (job[d] \in Locked => d[1] # p)
    BY <1>1, DecisionOf
  <2>3. CASE RunJob(d) \/ Checkpoint(d) \/ SubmitApproved(d) \/ OpenUnsaved(d) \/ VerdictUnsaved(d)
    BY <2>3 DEF RunJob, Checkpoint, SubmitApproved, OpenUnsaved, VerdictUnsaved, records, history
  <2>4. CASE Refuse(d) \/ Grant(d)
    BY <1>1, <2>2, <2>4 DEF Refuse, Grant, Settle, history, TypeOK
  <2>5. CASE Record(d) \/ NativeRecord(d) \/ NativeRaises(d)
    BY <1>1, <2>2, <2>5 DEF Record, NativeRecord, NativeRaises, Locked, Settle, history, TypeOK
  <2>6. CASE NativeCommit(d)
    BY <1>1, <2>2, <2>6 DEF NativeCommit, CommitVersion, Locked, records, TypeOK
  <2> QED
    BY <2>1, <2>3, <2>4, <2>5, <2>6 DEF Worker
<1>5. CASE \E d \in Decisions : Desktop(d)
  <2>1. PICK d \in Decisions : Desktop(d)
    BY <1>5
  <2>2. CASE Effect(d)
    BY <1>1, <2>2, DecisionOf DEF Effect, Locked, records, TypeOK
  <2>3. CASE \/ Begin(d) \/ Stale(d) \/ ProgressCancelled(d) \/ DebugReverts(d)
             \/ \E o \in Outcomes : Return(d, o)
    BY <2>3 DEF Begin, Stale, ProgressCancelled, DebugReverts, Return, records, history
  <2>4. CASE DebugCandidate(d)
    BY <1>1, <2>4, DecisionOf DEF DebugCandidate, Locked, records, TypeOK
  <2> QED
    BY <2>1, <2>2, <2>3, <2>4 DEF Desktop
<1>6. CASE Crash
  BY <1>6 DEF Crash, records, history
<1>7. CASE Restart
  BY <1>1, <1>7 DEF Restart, history
<1>8. CASE UNCHANGED vars
  BY <1>8 DEF vars, records, history
<1> QED
  BY <1>2, <1>3, <1>4, <1>5, <1>6, <1>7, <1>8 DEF Next

\* A verdict is final, whoever approves, cancels or restarts afterwards.
THEOREM VerdictsAreFinal == Spec => VerdictIsFinal
<1>1. IInv /\ [Next]_vars =>
        [\A p \in Proposals : proposal[p] \in Verdicts =>
            /\ proposal'[p] = proposal[p]
            /\ effects'[p] = effects[p] /\ commits'[p] = commits[p]]_vars
  BY VerdictStep
<1> QED
  BY <1>1, Inductive, PTL DEF Spec, VerdictIsFinal
=============================================================================
