---------------------------- MODULE HardwareLease ----------------------------
(***************************************************************************)
(* Read-only permissions for a PLC (application/hardware.py): an operator  *)
(* proposes a permission for the addresses of one program version,         *)
(* approves it for a short time and reads with it.  The records are on     *)
(* disk, their deadlines only in memory.  Operations hold the workspace    *)
(* lock, so one runs at a time, but time passes, the service closes or     *)
(* dies and files change between its steps.                                *)
(*                                                                         *)
(* Every operation works on a copy of its record: what is not saved is     *)
(* lost, except for a deadline it has set.                                 *)
(***************************************************************************)
EXTENDS Naturals, Sequences, FiniteSets

CONSTANTS
  None,        \* absent value
  Sessions,    \* identities of permissions
  Requests,    \* request ids a reader may use
  PendingTtl,  \* time to approve a request (300 s)
  Ttl,         \* time an approved permission lasts
  ReadLimit,   \* reads of one permission (30)
  MaxClock,    \* bound on the time of a behaviour
  MaxFaults,   \* bound on failing saves
  MaxBoots,    \* bound on the starts of the service
  MaxVersion   \* bound on changes of the bound program version

ASSUME LeaseConstants ==
  /\ {PendingTtl, Ttl, ReadLimit, MaxClock, MaxFaults, MaxVersion} \subseteq Nat
  /\ MaxBoots \in Nat \ {0}
  /\ IsFiniteSet(Requests)

-----------------------------------------------------------------------------
(* Records and operations *)

Record ==
  [status : {"pending", "active", "revoked"}, boot : 1..MaxBoots, version : 0..MaxVersion,
   reads : [Requests -> {"none", "requested", "failed", "read"}]]

Steps == {"saving", "granting", "requesting", "requested", "contacting"}
Operation ==
  [step : Steps, session : Sessions, request : Requests \cup {None}, rec : Record, since : Nat]

ASSUME LeaseNone == None \notin Record /\ None \notin Operation

-----------------------------------------------------------------------------
VARIABLES
  disk,      \* the record of each permission, or None
  leases,    \* deadlines in memory, by permission; 0 when there is none
  op,        \* the operation that holds the lock, or None
  boot,      \* the service instance; 0 while none runs
  boots,     \* instances so far
  clock,     \* the monotonic clock
  version,   \* the content of the bound version
  granted,   \* the end of each approved permission
  contacts,  \* how often the device was contacted, by permission and request
  answered,  \* when the accepted values of a request came
  faults     \* failed saves so far

vars == <<disk, leases, op, boot, boots, clock, version, granted, contacts, answered, faults>>
world == <<clock, version>>
ghosts == <<granted, contacts, answered>>

Keys == Sessions \X Requests

NoLeases == [s \in Sessions |-> 0]

Init ==
  /\ disk = [s \in Sessions |-> None] /\ leases = NoLeases /\ op = None
  /\ boot = 1 /\ boots = 1 /\ clock = 1 /\ version = 0
  /\ granted = NoLeases /\ contacts = [k \in Keys |-> 0] /\ answered = [k \in Keys |-> 0]
  /\ faults = 0

\* _status: what the record and the deadline say together.
Status(rec, s) ==
  IF rec.status \in {"pending", "active"}
  THEN IF rec.boot # boot THEN "revoked" ELSE IF clock >= leases[s] THEN "expired" ELSE rec.status
  ELSE rec.status

\* An operation takes the lock: its first step leaves a record to be saved.
Takes(step, s, q, rec) ==
  op' = [step |-> step, session |-> s, request |-> q, rec |-> rec, since |-> 0]

Free(s) == op = None /\ boot # 0 /\ disk[s] # None

-----------------------------------------------------------------------------
(* Requesting, approving and revoking a permission *)

Propose(s) ==
  /\ op = None /\ boot # 0 /\ disk[s] = None
  /\ leases' = [leases EXCEPT ![s] = clock + PendingTtl]
  /\ Takes("saving", s, None, [status |-> "pending", boot |-> boot, version |-> version,
                               reads |-> [q \in Requests |-> "none"]])
  /\ UNCHANGED <<disk, boot, boots, world, ghosts, faults>>

\* Mutant of ApproveCheck: only the record of an active permission is refused.
ApproveCheck_Any(s) ==
  /\ Free(s)
  /\ disk[s].status # "active" /\ disk[s].version = version
  /\ Takes("granting", s, None, disk[s])
  /\ UNCHANGED <<disk, leases, boot, boots, world, ghosts, faults>>

\* The files of the version are hashed after the status was read, ...
ApproveCheck(s) ==
  /\ Free(s)
  /\ Status(disk[s], s) = "pending" /\ disk[s].version = version
  /\ Takes("granting", s, None, disk[s])
  /\ UNCHANGED <<disk, leases, boot, boots, world, ghosts, faults>>

\* ... and the deadline is set before the record is saved.
ApproveGrant ==
  /\ op # None /\ op.step = "granting"
  /\ leases' = [leases EXCEPT ![op.session] = clock + Ttl]
  /\ granted' = [granted EXCEPT ![op.session] = clock + Ttl]
  /\ op' = [op EXCEPT !.step = "saving", !.rec.status = "active"]
  /\ UNCHANGED <<disk, boot, boots, world, contacts, answered, faults>>

Revoke(s) ==
  /\ Free(s) /\ disk[s].status # "revoked"
  /\ leases' = [leases EXCEPT ![s] = 0]
  /\ Takes("saving", s, None, [disk[s] EXCEPT !.status = "revoked"])
  /\ UNCHANGED <<disk, boot, boots, world, ghosts, faults>>

-----------------------------------------------------------------------------
(* Reading.  A request id that is already known is replayed or refused, and a *)
(* read without a permission only adds a denial to the audit: neither changes  *)
(* the state.                                                                  *)

\* Mutant of Used: failed reads do not count.
Used_Accepted(rec) == {q \in Requests : rec.reads[q] = "read"}

Used(rec) == {q \in Requests : rec.reads[q] # "none"}

\* Mutant of Read: a read that failed may be tried again.
Read_Retries(s, q) ==
  /\ Free(s) /\ disk[s].reads[q] \in {"none", "failed"}
  /\ Status(disk[s], s) = "active" /\ disk[s].version = version
  /\ Cardinality(Used(disk[s])) < ReadLimit
  /\ Takes("requesting", s, q, [disk[s] EXCEPT !.reads[q] = "requested"])
  /\ UNCHANGED <<disk, leases, boot, boots, world, ghosts, faults>>

Read(s, q) ==
  /\ Free(s) /\ disk[s].reads[q] = "none"
  /\ Status(disk[s], s) = "active" /\ disk[s].version = version
  /\ Cardinality(Used(disk[s])) < ReadLimit
  /\ Takes("requesting", s, q, [disk[s] EXCEPT !.reads[q] = "requested"])
  /\ UNCHANGED <<disk, leases, boot, boots, world, ghosts, faults>>

Key == <<op.session, op.request>>

\* Mutant of Contact: the permission is not looked at again.
Contact_Unchecked ==
  /\ op # None /\ op.step = "requested"
  /\ op' = [op EXCEPT !.step = "contacting", !.since = clock]
  /\ contacts' = [contacts EXCEPT ![Key] = @ + 1]
  /\ UNCHANGED <<disk, leases, boot, boots, world, granted, answered, faults>>

\* The permission is looked at again once the request is on disk.
Contact ==
  /\ op # None /\ op.step = "requested"
  /\ Status(op.rec, op.session) = "active"
  /\ op' = [op EXCEPT !.step = "contacting", !.since = clock]
  /\ contacts' = [contacts EXCEPT ![Key] = @ + 1]
  /\ UNCHANGED <<disk, leases, boot, boots, world, granted, answered, faults>>

Failing == op' = [op EXCEPT !.step = "saving", !.rec.reads[op.request] = "failed"]

Expired ==
  /\ op # None /\ op.step = "requested"
  /\ Status(op.rec, op.session) # "active"
  /\ Failing
  /\ UNCHANGED <<disk, leases, boot, boots, world, ghosts, faults>>

\* Mutant of Answer: late values are accepted.
Answer_Late ==
  /\ op # None /\ op.step = "contacting"
  /\ op' = [op EXCEPT !.step = "saving", !.rec.reads[op.request] = "read"]
  /\ answered' = [answered EXCEPT ![Key] = clock]
  /\ UNCHANGED <<disk, leases, boot, boots, world, granted, contacts, faults>>

\* Values that come at the deadline or later, or after the deadlines were
\* dropped, are not accepted.
Answer ==
  /\ op # None /\ op.step = "contacting" /\ clock < leases[op.session]
  /\ op' = [op EXCEPT !.step = "saving", !.rec.reads[op.request] = "read"]
  /\ answered' = [answered EXCEPT ![Key] = clock]
  /\ UNCHANGED <<disk, leases, boot, boots, world, granted, contacts, faults>>

\* The adapter fails, times out or answers late.
NoAnswer ==
  /\ op # None /\ op.step = "contacting"
  /\ Failing
  /\ UNCHANGED <<disk, leases, boot, boots, world, ghosts, faults>>

-----------------------------------------------------------------------------
(* Saving a record, which may take its time or fail *)

Unsaved == op # None /\ op.step \in {"saving", "requesting"}

Saved ==
  /\ Unsaved
  /\ disk' = [disk EXCEPT ![op.session] = op.rec]
  /\ op' = IF op.step = "requesting" THEN [op EXCEPT !.step = "requested"] ELSE None
  /\ UNCHANGED <<leases, boot, boots, world, ghosts, faults>>

SaveFails ==
  /\ Unsaved /\ faults < MaxFaults
  /\ op' = None /\ faults' = faults + 1
  /\ UNCHANGED <<disk, leases, boot, boots, world, ghosts>>

-----------------------------------------------------------------------------
(* The service and the world around it *)

\* close drops all deadlines without the lock, whatever operation is under way.
Close ==
  /\ boot # 0 /\ leases # NoLeases
  /\ leases' = NoLeases
  /\ UNCHANGED <<disk, op, boot, boots, world, ghosts, faults>>

\* Mutant of Crash: the deadlines survive in memory.
Crash_KeepsLeases ==
  /\ boot # 0
  /\ boot' = 0 /\ op' = None
  /\ UNCHANGED <<disk, leases, boots, world, ghosts, faults>>

Crash ==
  /\ boot # 0
  /\ boot' = 0 /\ leases' = NoLeases /\ op' = None
  /\ UNCHANGED <<disk, boots, world, ghosts, faults>>

Restart ==
  /\ boot = 0 /\ boots < MaxBoots
  /\ boots' = boots + 1 /\ boot' = boots'
  /\ UNCHANGED <<disk, leases, op, world, ghosts, faults>>

Tick ==
  /\ clock < MaxClock
  /\ clock' = clock + 1
  /\ UNCHANGED <<disk, leases, op, boot, boots, version, ghosts, faults>>

ChangeVersion ==
  /\ version < MaxVersion
  /\ version' = version + 1
  /\ UNCHANGED <<disk, leases, op, boot, boots, clock, ghosts, faults>>

Next ==
  \/ \E s \in Sessions : Propose(s) \/ ApproveCheck(s) \/ Revoke(s) \/ \E q \in Requests : Read(s, q)
  \/ ApproveGrant \/ Contact \/ Expired \/ Answer \/ NoAnswer \/ Saved \/ SaveFails
  \/ Close \/ Crash \/ Restart \/ Tick \/ ChangeVersion

Spec == Init /\ [][Next]_vars

-----------------------------------------------------------------------------
(* What the permissions promise *)

\* Records, deadlines and the operation under way keep their types, only an
\* instance that runs has deadlines or an operation, and only a read names a request.
TypeOK ==
  /\ disk \in [Sessions -> Record \cup {None}]
  /\ leases \in [Sessions -> Nat] /\ granted \in [Sessions -> Nat]
  /\ op \in Operation \cup {None}
  /\ op # None /\ op.step \in {"requesting", "requested", "contacting"} => op.request \in Requests
  /\ boot \in 0..boots /\ boots \in 1..MaxBoots /\ clock \in Nat /\ version \in 0..MaxVersion
  /\ contacts \in [Keys -> Nat] /\ answered \in [Keys -> Nat] /\ faults \in 0..MaxFaults
  /\ boot = 0 => op = None /\ leases = NoLeases

\* The device is contacted at most once for a request id: a read that failed, was
\* interrupted or lost its answer is never repeated.
ContactedOnce == \A k \in Keys : contacts[k] <= 1

\* While the device is contacted, the request is on disk, for a permission that was
\* approved in this run of the service, not revoked, and still valid when the
\* contact began, however long its audit took to save.
ContactPermitted ==
  op # None /\ op.step = "contacting" =>
    LET rec == disk[op.session]
    IN /\ rec # None /\ rec.status = "active" /\ rec.boot = boot
       /\ rec.reads[op.request] = "requested"
       /\ op.since < granted[op.session]

\* Values in the record came from the device before the permission ended, and are
\* those of its only contact.
ValuesInTime ==
  \A s \in Sessions, q \in Requests :
    disk[s] # None /\ disk[s].reads[q] = "read" =>
      /\ contacts[<<s, q>>] = 1
      /\ answered[<<s, q>>] > 0 /\ answered[<<s, q>>] < granted[s]

\* A permission is good for no more than ReadLimit contacts, failed ones included.
ReadsBounded ==
  \A s \in Sessions : Cardinality({q \in Requests : contacts[<<s, q>>] > 0}) <= ReadLimit

\* A permission that was revoked, or belonged to an earlier instance of the
\* service, is never usable again.
Revoked(s) == boot # 0 /\ disk[s] # None /\ Status(disk[s], s) = "revoked"
RevokedStays == [][\A s \in Sessions : Revoked(s) /\ boot' # 0 => Revoked(s)']_vars

=============================================================================
