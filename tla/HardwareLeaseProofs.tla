------------------------- MODULE HardwareLeaseProofs -------------------------
(***************************************************************************)
(* Read permissions for every number of permissions and requests, every    *)
(* deadline and every limit: the device is contacted once per request id,  *)
(* under a valid permission, and what was revoked stays revoked.           *)
(*                                                                         *)
(* The invariants of HardwareLease speak of the records on disk.  They are *)
(* not inductive: an operation saves the copy it took earlier.  What makes *)
(* them inductive is how that copy relates to the record it will replace.  *)
(***************************************************************************)
EXTENDS HardwareLease, FiniteSetTheorems, TLAPS

\* What the operation under way will save, and when.
CopyFollows ==
  op # None /\ disk[op.session] # None =>
    /\ op.rec.boot = disk[op.session].boot
    /\ disk[op.session].status = "revoked" => op.rec.status = "revoked"
    /\ \A q \in Requests : disk[op.session].reads[q] # "none" => op.rec.reads[q] # "none"

GrantFollowsCheck ==
  op # None /\ op.step = "granting" =>
    disk[op.session] # None /\ disk[op.session].status # "revoked"

\* A read between its two looks at the permission.
ReadOnDisk ==
  /\ op # None /\ op.step = "requesting" =>
       /\ disk[op.session] # None /\ disk[op.session].reads[op.request] = "none"
       /\ op.rec.status = "active" /\ op.rec.boot = boot
       /\ op.rec.reads[op.request] = "requested"
  /\ op # None /\ op.step \in {"requested", "contacting"} =>
       /\ disk[op.session] = op.rec
       /\ op.rec.status = "active" /\ op.rec.boot = boot
       /\ op.rec.reads[op.request] = "requested"
  /\ op # None /\ op.step = "requested" => contacts[<<op.session, op.request>>] = 0
  /\ op # None /\ op.step = "contacting" =>
       contacts[<<op.session, op.request>>] = 1 /\ op.since < granted[op.session]

\* Only recorded requests were sent, each once.
ContactsKnown ==
  \A s \in Sessions, q \in Requests :
    contacts[<<s, q>>] # 0 => contacts[<<s, q>>] = 1 /\ disk[s] # None /\ disk[s].reads[q] # "none"

\* The deadline of an active permission is the one it was approved for.
DeadlineGranted ==
  /\ clock > 0
  /\ \A s \in Sessions :
       /\ granted[s] <= clock + Ttl
       /\ disk[s] # None /\ disk[s].status = "active" => leases[s] <= granted[s]
  /\ op # None /\ op.rec.status = "active" => leases[op.session] <= granted[op.session]

InTime(s, rec) ==
  \A q \in Requests : rec.reads[q] = "read" =>
    contacts[<<s, q>>] = 1 /\ answered[<<s, q>>] > 0 /\ answered[<<s, q>>] < granted[s]

AcceptedInTime ==
  /\ \A s \in Sessions : disk[s] # None => InTime(s, disk[s])
  /\ op # None => InTime(op.session, op.rec)

WithinLimit ==
  /\ \A s \in Sessions : disk[s] # None => Cardinality(Used(disk[s])) <= ReadLimit
  /\ op # None => Cardinality(Used(op.rec)) <= ReadLimit

IInv ==
  /\ TypeOK /\ CopyFollows /\ GrantFollowsCheck /\ ReadOnDisk /\ ContactsKnown
  /\ DeadlineGranted /\ AcceptedInTime /\ WithinLimit

-----------------------------------------------------------------------------
\* The parts of records and operations that the actions look at.
LEMMA Parts ==
  ASSUME TypeOK
  PROVE  /\ \A s \in Sessions : disk[s] # None => disk[s] \in Record
         /\ op # None => /\ op \in Operation /\ op.session \in Sessions /\ op.rec \in Record
                         /\ op.step \in Steps /\ op.since \in Nat
BY DEF TypeOK, Operation

\* The types of HardwareLease hold in every behaviour.
LEMMA InitType == Init => TypeOK
BY LeaseConstants, LeaseNone DEF Init, TypeOK, NoLeases, Keys, Record, Operation

LEMMA StepType ==
  ASSUME TypeOK, [Next]_vars
  PROVE  TypeOK'
<1> USE LeaseConstants, LeaseNone DEF TypeOK
<1>a. /\ \A s \in Sessions : disk[s] # None => disk[s] \in Record
      /\ op # None => /\ op \in Operation /\ op.session \in Sessions /\ op.rec \in Record
                      /\ op.step \in Steps /\ op.since \in Nat
  BY Parts
<1>b. ASSUME NEW st \in Steps, NEW s \in Sessions, NEW q \in Requests \cup {None}, NEW r \in Record,
             Takes(st, s, q, r)
      PROVE  op' \in Operation /\ op'.step = st /\ op'.request = q
  BY <1>b DEF Takes, Operation
<1>1. ASSUME NEW s \in Sessions, Propose(s) PROVE TypeOK'
  <2>1. [status |-> "pending", boot |-> boot, version |-> version,
         reads |-> [q \in Requests |-> "none"]] \in Record
    BY <1>1 DEF Propose, Record
  <2>2. op' \in Operation /\ op'.step = "saving"
    BY <1>1, <1>b, <2>1 DEF Propose, Steps
  <2> QED BY <1>1, <2>2 DEF Propose, world, ghosts
<1>2. ASSUME NEW s \in Sessions, ApproveCheck(s) PROVE TypeOK'
  <2>1. op' \in Operation /\ op'.step = "granting"
    BY <1>2, <1>a, <1>b DEF ApproveCheck, Free, Steps
  <2> QED BY <1>2, <2>1 DEF ApproveCheck, Free, world, ghosts
<1>3. CASE ApproveGrant
  <2>1. op' \in Operation /\ op'.step = "saving"
    BY <1>3, <1>a DEF ApproveGrant, Operation, Record, Steps
  <2> QED BY <1>3, <1>a, <2>1 DEF ApproveGrant, world
<1>4. ASSUME NEW s \in Sessions, Revoke(s) PROVE TypeOK'
  <2>1. [disk[s] EXCEPT !.status = "revoked"] \in Record
    BY <1>4, <1>a DEF Revoke, Free, Record
  <2>2. op' \in Operation /\ op'.step = "saving"
    BY <1>4, <1>b, <2>1 DEF Revoke, Steps
  <2> QED BY <1>4, <2>2 DEF Revoke, Free, world, ghosts
<1>5. ASSUME NEW s \in Sessions, NEW q \in Requests, Read(s, q) PROVE TypeOK'
  <2>1. [disk[s] EXCEPT !.reads[q] = "requested"] \in Record
    BY <1>5, <1>a DEF Read, Free, Record
  <2>2. op' \in Operation /\ op'.step = "requesting" /\ op'.request = q
    BY <1>5, <1>b, <2>1 DEF Read, Steps
  <2> QED BY <1>5, <2>2 DEF Read, Free, world, ghosts
<1>f. ASSUME op # None, op.request \in Requests, Failing PROVE op' \in Operation /\ op'.step = "saving"
  BY <1>f, <1>a DEF Failing, Operation, Record, Steps
<1>6. CASE Contact
  <2>1. op' \in Operation /\ op'.step = "contacting" /\ op'.request = op.request
    BY <1>6, <1>a DEF Contact, Operation, Steps
  <2>2. Key \in Keys
    BY <1>6, <1>a DEF Contact, Keys, Key
  <2>3. contacts' \in [Keys -> Nat]
    BY <1>6, <2>2 DEF Contact
  <2> QED BY <1>6, <2>1, <2>3 DEF Contact, world
<1>7. CASE Expired
  BY <1>7, <1>f DEF Expired, world, ghosts
<1>8. CASE Answer
  <2>1. op' \in Operation /\ op'.step = "saving"
    BY <1>8, <1>a DEF Answer, Operation, Record, Steps
  <2>2. answered' \in [Keys -> Nat]
    BY <1>8 DEF Answer, Keys, Key
  <2> QED BY <1>8, <2>1, <2>2 DEF Answer, world
<1>9. CASE NoAnswer
  BY <1>9, <1>f DEF NoAnswer, world, ghosts
<1>10. CASE Saved
  <2>1. disk' \in [Sessions -> Record \cup {None}]
    BY <1>10, <1>a DEF Saved, Unsaved
  <2>2. op' \in Operation \cup {None} /\ (op' # None => op'.step = "requested" /\ op.step = "requesting" /\ op'.request = op.request)
    BY <1>10, <1>a DEF Saved, Unsaved, Operation, Steps
  <2> QED BY <1>10, <2>1, <2>2 DEF Saved, Unsaved, world, ghosts
<1>11. CASE SaveFails
  BY <1>11 DEF SaveFails, Unsaved, world, ghosts
<1>12. CASE Close
  BY <1>12 DEF Close, world, ghosts, NoLeases
<1>13. CASE Crash
  BY <1>13 DEF Crash, world, ghosts, NoLeases
<1>14. CASE Restart
  BY <1>14 DEF Restart, world, ghosts
<1>15. CASE Tick
  BY <1>15 DEF Tick, ghosts
<1>16. CASE ChangeVersion
  BY <1>16 DEF ChangeVersion, ghosts
<1>17. CASE UNCHANGED vars
  BY <1>17 DEF vars
<1> QED
  BY <1>1, <1>2, <1>3, <1>4, <1>5, <1>6, <1>7, <1>8, <1>9, <1>10, <1>11, <1>12, <1>13, <1>14,
     <1>15, <1>16, <1>17 DEF Next

-----------------------------------------------------------------------------
\* What an operation that takes the lock starts with.
LEMMA TakesParts ==
  ASSUME NEW st, NEW s, NEW q, NEW r, Takes(st, s, q, r)
  PROVE  /\ op'.step = st /\ op'.session = s /\ op'.request = q /\ op'.rec = r
BY DEF Takes

\* The steps of a record kept while an operation goes on.
LEMMA FailingParts ==
  ASSUME TypeOK, op # None, op.request \in Requests, Failing
  PROVE  /\ op' # None /\ op'.step = "saving" /\ op'.session = op.session
         /\ op'.rec = [op.rec EXCEPT !.reads[op.request] = "failed"]
<1>1. op \in Operation /\ op.rec \in Record
  BY Parts
<1>2. op' \in Operation
  BY <1>1 DEF Failing, Operation, Record, Steps
<1>3. /\ op'.step = "saving" /\ op'.session = op.session
      /\ op'.rec = [op.rec EXCEPT !.reads[op.request] = "failed"]
  BY <1>1 DEF Failing, Operation
<1> QED BY <1>2, <1>3, LeaseNone

LEMMA CopyStep ==
  ASSUME IInv, [Next]_vars
  PROVE  CopyFollows' /\ GrantFollowsCheck'
<1> USE DEF CopyFollows, GrantFollowsCheck
<1>a. TypeOK /\ CopyFollows /\ GrantFollowsCheck
  BY DEF IInv
<1>b. /\ \A s \in Sessions : disk[s] # None => disk[s] \in Record
      /\ op # None => /\ op \in Operation /\ op.session \in Sessions /\ op.rec \in Record
  BY <1>a, Parts
<1>1. ASSUME NEW s \in Sessions, Propose(s) PROVE CopyFollows' /\ GrantFollowsCheck'
  BY <1>1, TakesParts DEF Propose
<1>2. ASSUME NEW s \in Sessions, ApproveCheck(s) PROVE CopyFollows' /\ GrantFollowsCheck'
  BY <1>2, TakesParts DEF ApproveCheck, Free, Status
<1>3. CASE ApproveGrant
  BY <1>3, <1>a, <1>b DEF ApproveGrant, Operation, Record
<1>4. ASSUME NEW s \in Sessions, Revoke(s) PROVE CopyFollows' /\ GrantFollowsCheck'
  <2>1. op'.rec = [disk[s] EXCEPT !.status = "revoked"] /\ op'.session = s /\ op'.step = "saving"
    BY <1>4, TakesParts DEF Revoke
  <2> QED BY <1>4, <1>b, <2>1 DEF Revoke, Free, Record
<1>5. ASSUME NEW s \in Sessions, NEW q \in Requests, Read(s, q)
      PROVE  CopyFollows' /\ GrantFollowsCheck'
  <2>1. /\ op'.rec = [disk[s] EXCEPT !.reads[q] = "requested"]
        /\ op'.session = s /\ op'.step = "requesting"
    BY <1>5, TakesParts DEF Read
  <2> QED BY <1>5, <1>b, <2>1 DEF Read, Free, Record
<1>6. CASE Contact
  BY <1>6, <1>a, <1>b DEF Contact, Operation
<1>7. CASE Expired \/ NoAnswer
  <2>1. /\ op # None /\ op.request \in Requests /\ Failing /\ disk' = disk
    BY <1>7, <1>a DEF Expired, NoAnswer, TypeOK
  <2>2. /\ op' # None /\ op'.step = "saving" /\ op'.session = op.session
        /\ op'.rec = [op.rec EXCEPT !.reads[op.request] = "failed"]
    BY <1>a, <2>1, FailingParts
  <2> QED BY <1>a, <1>b, <2>1, <2>2 DEF Record
<1>8. CASE Answer
  BY <1>8, <1>a, <1>b DEF Answer, Operation, Record
<1>10. CASE Saved
  BY <1>10, <1>a, <1>b DEF Saved, Unsaved, Operation, TypeOK
<1>11. CASE SaveFails \/ Crash
  BY <1>11 DEF SaveFails, Crash
<1>12. CASE Close \/ Restart \/ Tick \/ ChangeVersion \/ UNCHANGED vars
  BY <1>12, <1>a DEF Close, Restart, Tick, ChangeVersion, vars
<1> QED
  BY <1>1, <1>2, <1>3, <1>4, <1>5, <1>6, <1>7, <1>8, <1>10, <1>11, <1>12 DEF Next

LEMMA ReadStep ==
  ASSUME IInv, [Next]_vars
  PROVE  ReadOnDisk'
<1> USE DEF ReadOnDisk
<1>a. TypeOK /\ ReadOnDisk /\ ContactsKnown /\ DeadlineGranted
  BY DEF IInv
<1>b. /\ \A s \in Sessions : disk[s] # None => disk[s] \in Record
      /\ op # None => /\ op \in Operation /\ op.session \in Sessions /\ op.rec \in Record
  BY <1>a, Parts
<1>1. ASSUME NEW s \in Sessions, Propose(s) \/ ApproveCheck(s) \/ Revoke(s) PROVE ReadOnDisk'
  <2>1. op'.step \in {"saving", "granting"}
    BY <1>1, TakesParts DEF Propose, ApproveCheck, Revoke
  <2> QED BY <2>1
<1>3. CASE ApproveGrant
  <2>1. op'.step = "saving"
    BY <1>3, <1>b DEF ApproveGrant, Operation
  <2> QED BY <2>1
<1>5. ASSUME NEW s \in Sessions, NEW q \in Requests, Read(s, q) PROVE ReadOnDisk'
  <2>1. /\ op'.rec = [disk[s] EXCEPT !.reads[q] = "requested"]
        /\ op'.session = s /\ op'.request = q /\ op'.step = "requesting"
    BY <1>5, TakesParts DEF Read
  <2>2. disk[s].status = "active" /\ disk[s].boot = boot
    BY <1>5 DEF Read, Status
  <2> QED BY <1>5, <1>b, <2>1, <2>2 DEF Read, Free, Record
<1>6. CASE Contact
  <2>1. /\ op'.step = "contacting" /\ op'.session = op.session /\ op'.request = op.request
        /\ op'.rec = op.rec /\ op'.since = clock
    BY <1>6, <1>b DEF Contact, Operation
  <2>2. <<op.session, op.request>> \in Keys /\ contacts[<<op.session, op.request>>] = 0
    BY <1>6, <1>a, <1>b DEF Contact, Keys, TypeOK
  <2>3. contacts'[<<op.session, op.request>>] = 1
    BY <1>6, <1>a, <2>2 DEF Contact, Key, TypeOK
  <2>4. clock < leases[op.session]
    BY <1>6, <1>a, <1>b DEF Contact, Status, TypeOK
  <2>5. clock < granted[op.session]
    BY <1>6, <1>a, <1>b, <2>4 DEF Contact, DeadlineGranted, TypeOK
  <2> QED BY <1>6, <1>a, <2>1, <2>3, <2>5 DEF Contact
<1>7. CASE Expired \/ NoAnswer
  <2>1. op # None /\ op.request \in Requests /\ Failing
    BY <1>7, <1>a DEF Expired, NoAnswer, TypeOK
  <2>2. op'.step = "saving"
    BY <1>a, <2>1, FailingParts
  <2> QED BY <2>2
<1>8. CASE Answer
  <2>1. op'.step = "saving"
    BY <1>8, <1>b DEF Answer, Operation
  <2> QED BY <2>1
<1>10. CASE Saved
  <2>1. CASE op.step = "saving"
    BY <1>10, <2>1 DEF Saved, Unsaved
  <2>2. CASE op.step = "requesting"
    <3>1. /\ op'.step = "requested" /\ op'.session = op.session /\ op'.request = op.request
          /\ op'.rec = op.rec /\ disk'[op.session] = op.rec
      BY <1>10, <1>a, <1>b, <2>2 DEF Saved, Unsaved, Operation, TypeOK
    <3>2. <<op.session, op.request>> \in Keys /\ contacts[<<op.session, op.request>>] = 0
      BY <1>10, <1>a, <1>b, <2>2 DEF Saved, Unsaved, Keys, ContactsKnown, TypeOK
    <3> QED BY <1>10, <1>a, <2>2, <3>1, <3>2 DEF Saved, Unsaved, ghosts
  <2> QED BY <1>10, <2>1, <2>2 DEF Saved, Unsaved
<1>11. CASE SaveFails \/ Crash
  BY <1>11 DEF SaveFails, Crash
<1>12. CASE Close \/ Tick \/ ChangeVersion \/ UNCHANGED vars
  BY <1>12, <1>a DEF Close, Tick, ChangeVersion, vars, ghosts
<1>13. CASE Restart
  BY <1>13, <1>a DEF Restart, TypeOK
<1> QED
  BY <1>1, <1>3, <1>5, <1>6, <1>7, <1>8, <1>10, <1>11, <1>12, <1>13 DEF Next

LEMMA ContactsStep ==
  ASSUME IInv, [Next]_vars
  PROVE  ContactsKnown'
<1> USE DEF ContactsKnown
<1>a. TypeOK /\ ReadOnDisk /\ ContactsKnown /\ CopyFollows
  BY DEF IInv
<1>1. CASE Contact
  <2>1. <<op.session, op.request>> \in Keys /\ contacts[<<op.session, op.request>>] = 0
    BY <1>1, <1>a, Parts DEF Contact, Keys, ReadOnDisk, TypeOK
  <2>2. contacts'[<<op.session, op.request>>] = 1
    BY <1>1, <1>a, <2>1 DEF Contact, Key, TypeOK
  <2>3. \A k \in Keys : k # <<op.session, op.request>> => contacts'[k] = contacts[k]
    BY <1>1, <1>a, <2>1 DEF Contact, Key, TypeOK
  <2>4. disk[op.session] # None /\ disk[op.session].reads[op.request] # "none"
    BY <1>1, <1>a, LeaseNone, Parts DEF Contact, ReadOnDisk
  <2>5. disk' = disk
    BY <1>1 DEF Contact
  <2>6. SUFFICES ASSUME NEW s \in Sessions, NEW q \in Requests, contacts'[<<s, q>>] # 0
                 PROVE  contacts'[<<s, q>>] = 1 /\ disk[s] # None /\ disk[s].reads[q] # "none"
    BY <2>5
  <2>7. CASE <<s, q>> = <<op.session, op.request>>
    BY <2>2, <2>4, <2>7
  <2>8. CASE <<s, q>> # <<op.session, op.request>>
    BY <1>a, <2>3, <2>6, <2>8 DEF Keys
  <2> QED BY <2>7, <2>8
<1>2. CASE Saved
  <2>1. op # None /\ op.session \in Sessions /\ op.rec \in Record /\ contacts' = contacts
    BY <1>2, <1>a, Parts DEF Saved, Unsaved, ghosts
  <2>2. \A s \in Sessions : disk'[s] = IF s = op.session THEN op.rec ELSE disk[s]
    BY <1>2, <1>a, <2>1 DEF Saved, TypeOK
  <2> QED BY <1>a, <2>1, <2>2, LeaseNone DEF CopyFollows
<1>3. CASE UNCHANGED <<disk, contacts>>
  BY <1>a, <1>3
<1> QED
  BY <1>1, <1>2, <1>3 DEF Next, Propose, ApproveCheck, ApproveGrant, Revoke, Read, Expired, Answer,
     NoAnswer, SaveFails, Close, Crash, Restart, Tick, ChangeVersion, ghosts, vars

LEMMA DeadlineStep ==
  ASSUME IInv, [Next]_vars
  PROVE  DeadlineGranted'
<1> USE LeaseConstants DEF DeadlineGranted
<1>a. TypeOK /\ DeadlineGranted
  BY DEF IInv
<1>b. /\ \A s \in Sessions : disk[s] # None => disk[s] \in Record
      /\ op # None => /\ op \in Operation /\ op.session \in Sessions /\ op.rec \in Record
  BY <1>a, Parts
<1>1. ASSUME NEW s \in Sessions, Propose(s) PROVE DeadlineGranted'
  <2>1. op'.rec.status = "pending"
    BY <1>1, TakesParts DEF Propose
  <2> QED BY <1>1, <1>a, <2>1 DEF Propose, world, ghosts, TypeOK
<1>2. ASSUME NEW s \in Sessions, ApproveCheck(s) PROVE DeadlineGranted'
  BY <1>2, <1>a, TakesParts DEF ApproveCheck, Free, world, ghosts
<1>3. CASE ApproveGrant
  <2>1. op'.session = op.session
    BY <1>3, <1>b DEF ApproveGrant, Operation
  <2> QED BY <1>3, <1>a, <1>b, <2>1 DEF ApproveGrant, world, TypeOK
<1>4. ASSUME NEW s \in Sessions, Revoke(s) PROVE DeadlineGranted'
  <2>1. op'.rec.status = "revoked"
    BY <1>4, <1>b, TakesParts DEF Revoke, Free, Record
  <2> QED BY <1>4, <1>a, <2>1 DEF Revoke, world, ghosts, TypeOK
<1>5. ASSUME NEW s \in Sessions, NEW q \in Requests, Read(s, q) PROVE DeadlineGranted'
  <2>1. op'.rec.status = disk[s].status /\ op'.session = s
    BY <1>5, <1>b, TakesParts DEF Read, Free, Record
  <2> QED BY <1>5, <1>a, <2>1 DEF Read, Free, world, ghosts
<1>6. CASE Contact \/ Answer
  <2>0. op # None /\ op \in Operation /\ op.rec \in Record
    BY <1>6, <1>b DEF Contact, Answer
  <2>1. op'.rec.status = op.rec.status /\ op'.session = op.session /\ op # None
    <3>1. CASE Contact
      BY <2>0, <3>1 DEF Contact, Operation
    <3>2. CASE Answer
      BY <2>0, <3>2 DEF Answer, Operation, Record
    <3> QED BY <1>6, <3>1, <3>2
  <2> QED BY <1>6, <1>a, <2>1 DEF Contact, Answer, world
<1>7. CASE Expired \/ NoAnswer
  <2>1. op # None /\ op.request \in Requests /\ Failing
    BY <1>7, <1>a DEF Expired, NoAnswer, TypeOK
  <2>2. op'.rec.status = op.rec.status /\ op'.session = op.session
    BY <1>a, <1>b, <2>1, FailingParts DEF Record
  <2> QED BY <1>7, <1>a, <2>1, <2>2 DEF Expired, NoAnswer, world, ghosts
<1>8. CASE Saved
  <2>0. op # None /\ op \in Operation
    BY <1>8, <1>b DEF Saved, Unsaved
  <2>1. op # None /\ (op' = None \/ (op'.rec = op.rec /\ op'.session = op.session))
    <3>1. CASE op.step = "requesting"
      BY <1>8, <2>0, <3>1 DEF Saved, Operation
    <3>2. CASE op.step # "requesting"
      BY <1>8, <2>0, <3>2 DEF Saved
    <3> QED BY <3>1, <3>2
  <2>2. \A s \in Sessions : disk'[s] = IF s = op.session THEN op.rec ELSE disk[s]
    BY <1>8, <1>a, <1>b, <2>1 DEF Saved, TypeOK
  <2> QED BY <1>8, <1>a, <1>b, <2>1, <2>2 DEF Saved, world, ghosts
<1>9. CASE SaveFails
  BY <1>9, <1>a DEF SaveFails, world, ghosts
<1>10. CASE Close \/ Crash
  BY <1>10, <1>a, <1>b DEF Close, Crash, NoLeases, world, ghosts, TypeOK
<1>11. CASE Tick
  BY <1>11, <1>a DEF Tick, ghosts, TypeOK
<1>12. CASE Restart \/ ChangeVersion \/ UNCHANGED vars
  BY <1>12, <1>a DEF Restart, ChangeVersion, vars, world, ghosts
<1> QED
  BY <1>1, <1>2, <1>3, <1>4, <1>5, <1>6, <1>7, <1>8, <1>9, <1>10, <1>11, <1>12 DEF Next

LEMMA AcceptedStep ==
  ASSUME IInv, [Next]_vars
  PROVE  AcceptedInTime'
<1> USE DEF AcceptedInTime, InTime
<1>a. TypeOK /\ ReadOnDisk /\ DeadlineGranted /\ AcceptedInTime
  BY DEF IInv
<1>b. /\ \A s \in Sessions : disk[s] # None => disk[s] \in Record
      /\ op # None => /\ op \in Operation /\ op.session \in Sessions /\ op.rec \in Record
  BY <1>a, Parts
<1>1. ASSUME NEW s \in Sessions, Propose(s) PROVE AcceptedInTime'
  <2>1. op'.rec.reads = [q \in Requests |-> "none"]
    BY <1>1, TakesParts DEF Propose
  <2> QED BY <1>1, <1>a, <2>1 DEF Propose, ghosts
<1>2. ASSUME NEW s \in Sessions, ApproveCheck(s) \/ Revoke(s) PROVE AcceptedInTime'
  <2>1. op'.rec.reads = disk[s].reads /\ op'.session = s /\ disk[s] # None
    BY <1>2, <1>b, TakesParts DEF ApproveCheck, Revoke, Free, Record
  <2> QED BY <1>2, <1>a, <2>1 DEF ApproveCheck, Revoke, ghosts
<1>3. CASE ApproveGrant
  <2>1. op # None /\ op'.rec.reads = op.rec.reads /\ op'.session = op.session
    BY <1>3, <1>b DEF ApproveGrant, Operation, Record
  <2>2. \A s \in Sessions : granted'[s] \in Nat /\ granted[s] <= granted'[s]
    BY <1>3, <1>a, <1>b, LeaseConstants DEF ApproveGrant, DeadlineGranted, TypeOK
  <2>3. \A s \in Sessions, q \in Requests : answered[<<s, q>>] \in Nat /\ granted[s] \in Nat
    BY <1>a DEF TypeOK, Keys
  <2>4. \A s \in Sessions : disk[s] # None => InTime(s, disk[s])'
    BY <1>3, <1>a, <2>2, <2>3 DEF ApproveGrant
  <2>5. op' # None => InTime(op.session, op.rec)'
    BY <1>3, <1>a, <1>b, <2>1, <2>2, <2>3 DEF ApproveGrant
  <2> QED BY <1>3, <2>4, <2>5 DEF ApproveGrant
<1>5. ASSUME NEW s \in Sessions, NEW q \in Requests, Read(s, q) PROVE AcceptedInTime'
  <2>1. /\ op'.rec.reads = [disk[s].reads EXCEPT ![q] = "requested"]
        /\ op'.session = s /\ disk[s] # None
    BY <1>5, <1>b, TakesParts DEF Read, Free, Record
  <2> QED BY <1>5, <1>a, <1>b, <2>1 DEF Read, Record, ghosts
<1>6. CASE Contact
  <2>1. /\ op # None /\ op'.rec = op.rec /\ op'.session = op.session
        /\ disk[op.session] = op.rec /\ op.rec.reads[op.request] = "requested"
        /\ UNCHANGED <<disk, granted, answered>>
    BY <1>6, <1>a, <1>b DEF Contact, ReadOnDisk, Operation
  <2>2. \A k \in Keys : k # <<op.session, op.request>> => contacts'[k] = contacts[k]
    BY <1>6, <1>a DEF Contact, Key, TypeOK
  <2>3. \A s \in Sessions, q \in Requests :
          <<s, q>> = <<op.session, op.request>> \/ contacts'[<<s, q>>] = contacts[<<s, q>>]
    BY <2>2 DEF Keys
  <2> QED BY <1>a, <1>b, <2>1, <2>3
<1>7. CASE Expired \/ NoAnswer
  <2>1. op # None /\ op.request \in Requests /\ Failing /\ UNCHANGED <<disk, contacts, answered, granted>>
    BY <1>7, <1>a DEF Expired, NoAnswer, TypeOK, ghosts
  <2>2. op'.rec.reads = [op.rec.reads EXCEPT ![op.request] = "failed"] /\ op'.session = op.session
    BY <1>a, <1>b, <2>1, FailingParts DEF Record
  <2> QED BY <1>a, <1>b, <2>1, <2>2 DEF Record
<1>8. CASE Answer
  <2>0. op # None /\ op \in Operation /\ op.rec \in Record /\ op.request \in Requests
    BY <1>8, <1>a, <1>b DEF Answer, TypeOK
  <2>1. /\ op'.rec.reads = [op.rec.reads EXCEPT ![op.request] = "read"] /\ op'.session = op.session
        /\ disk[op.session] = op.rec /\ op.rec.reads[op.request] = "requested"
        /\ contacts[<<op.session, op.request>>] = 1
        /\ UNCHANGED <<disk, granted, contacts>>
    BY <1>8, <1>a, <2>0 DEF Answer, ReadOnDisk, Operation, Record
  <2>2. <<op.session, op.request>> \in Keys
    BY <1>8, <1>b, <2>0 DEF Keys
  <2>3. /\ answered'[<<op.session, op.request>>] = clock
        /\ \A k \in Keys : k # <<op.session, op.request>> => answered'[k] = answered[k]
    BY <1>8, <1>a, <2>2 DEF Answer, Key, TypeOK
  <2>4. clock > 0 /\ clock < granted[op.session]
    BY <1>8, <1>a, <1>b DEF Answer, DeadlineGranted, ReadOnDisk, TypeOK
  <2>5. \A s \in Sessions, q \in Requests :
          <<s, q>> = <<op.session, op.request>> \/ answered'[<<s, q>>] = answered[<<s, q>>]
    BY <2>3 DEF Keys
  <2>6. ASSUME NEW s \in Sessions, disk[s] # None PROVE InTime(s, disk[s])'
    BY <1>a, <1>b, <2>1, <2>5, <2>6
  <2>7. InTime(op.session, op.rec)'
    <3> SUFFICES ASSUME NEW q \in Requests, op'.rec.reads[q] = "read"
                 PROVE  /\ contacts'[<<op.session, q>>] = 1
                        /\ answered'[<<op.session, q>>] > 0
                        /\ answered'[<<op.session, q>>] < granted'[op.session]
      BY <2>1
    <3>1. CASE q = op.request
      BY <2>1, <2>3, <2>4, <3>1
    <3>2. CASE q # op.request
      BY <1>a, <1>b, <2>0, <2>1, <2>5, <3>2 DEF Record
    <3> QED BY <3>1, <3>2
  <2> QED BY <2>1, <2>6, <2>7
<1>9. CASE Saved
  <2>0. op # None /\ op \in Operation /\ UNCHANGED <<contacts, answered, granted>>
    BY <1>9, <1>b DEF Saved, Unsaved, ghosts
  <2>1. op' = None \/ (op'.rec = op.rec /\ op'.session = op.session)
    BY <1>9, <2>0 DEF Saved, Operation
  <2>2. \A s \in Sessions : disk'[s] = IF s = op.session THEN op.rec ELSE disk[s]
    BY <1>9, <1>a, <1>b, <2>0 DEF Saved, TypeOK
  <2> QED BY <1>a, <1>b, <2>0, <2>1, <2>2
<1>10. CASE SaveFails \/ Crash
  BY <1>10, <1>a DEF SaveFails, Crash, ghosts
<1>11. CASE Close \/ Tick \/ Restart \/ ChangeVersion \/ UNCHANGED vars
  BY <1>11, <1>a DEF Close, Tick, Restart, ChangeVersion, vars, ghosts
<1> QED
  BY <1>1, <1>2, <1>3, <1>5, <1>6, <1>7, <1>8, <1>9, <1>10, <1>11 DEF Next

\* One more read is counted once.
LEMMA OneMoreUsed ==
  ASSUME NEW r \in Record, NEW q \in Requests, NEW t \in Record,
         r.reads[q] = "none", t.reads = [r.reads EXCEPT ![q] = "requested"]
  PROVE  Cardinality(Used(t)) = Cardinality(Used(r)) + 1
<1>1. Used(t) = Used(r) \cup {q} /\ q \notin Used(r)
  BY DEF Used, Record
<1>2. IsFiniteSet(Used(r))
  BY LeaseConstants, FS_Subset DEF Used
<1> QED BY <1>1, <1>2, FS_AddElement

LEMMA LimitStep ==
  ASSUME IInv, [Next]_vars
  PROVE  WithinLimit'
<1> USE DEF WithinLimit
<1>a. TypeOK /\ ReadOnDisk /\ WithinLimit
  BY DEF IInv
<1>b. /\ \A s \in Sessions : disk[s] # None => disk[s] \in Record
      /\ op # None => /\ op \in Operation /\ op.session \in Sessions /\ op.rec \in Record
  BY <1>a, Parts
<1>c. \A r : IsFiniteSet(Used(r)) /\ Cardinality(Used(r)) \in Nat
  BY LeaseConstants, FS_Subset, FS_CardinalityType DEF Used
<1>1. ASSUME NEW s \in Sessions, Propose(s) PROVE WithinLimit'
  <2>1. op'.rec.reads = [q \in Requests |-> "none"]
    BY <1>1, TakesParts DEF Propose
  <2>2. Used(op'.rec) = {}
    BY <2>1 DEF Used
  <2> QED BY <1>1, <1>a, <2>2, FS_EmptySet, LeaseConstants DEF Propose
<1>2. ASSUME NEW s \in Sessions, ApproveCheck(s) \/ Revoke(s) PROVE WithinLimit'
  <2>1. op'.rec.reads = disk[s].reads /\ disk[s] # None
    BY <1>2, <1>b, TakesParts DEF ApproveCheck, Revoke, Free, Record
  <2>2. Used(op'.rec) = Used(disk[s])
    BY <2>1 DEF Used
  <2> QED BY <1>2, <1>a, <2>1, <2>2 DEF ApproveCheck, Revoke
<1>3. ASSUME NEW s \in Sessions, NEW q \in Requests, Read(s, q) PROVE WithinLimit'
  <2>1. /\ op'.rec = [disk[s] EXCEPT !.reads[q] = "requested"] /\ disk[s] # None
        /\ disk[s].reads[q] = "none" /\ disk' = disk
    BY <1>3, TakesParts DEF Read, Free
  <2>2. disk[s] \in Record /\ op'.rec \in Record
        /\ op'.rec.reads = [disk[s].reads EXCEPT ![q] = "requested"]
    BY <1>b, <2>1 DEF Record
  <2>3. Cardinality(Used(op'.rec)) = Cardinality(Used(disk[s])) + 1
    BY <2>1, <2>2, OneMoreUsed
  <2>4. Cardinality(Used(disk[s])) < ReadLimit
    BY <1>3 DEF Read
  <2> QED BY <1>a, <1>c, <2>1, <2>3, <2>4, LeaseConstants
<1>4. ASSUME op # None, disk' = disk, Used(op'.rec) = Used(op.rec) PROVE WithinLimit'
  BY <1>a, <1>4
<1>5. CASE ApproveGrant
  <2>1. op # None /\ disk' = disk /\ op'.rec.reads = op.rec.reads
    BY <1>5, <1>b DEF ApproveGrant, Operation, Record
  <2> QED BY <1>4, <2>1 DEF Used
<1>6. CASE Contact
  <2>1. op # None /\ disk' = disk /\ op'.rec = op.rec
    BY <1>6, <1>b DEF Contact, Operation
  <2> QED BY <1>4, <2>1
<1>7. CASE Expired \/ NoAnswer
  <2>1. /\ op # None /\ op.request \in Requests /\ Failing /\ disk' = disk
        /\ op.rec.reads[op.request] = "requested"
    BY <1>7, <1>a DEF Expired, NoAnswer, TypeOK, ReadOnDisk
  <2>2. op'.rec.reads = [op.rec.reads EXCEPT ![op.request] = "failed"]
    BY <1>a, <1>b, <2>1, FailingParts DEF Record
  <2>3. Used(op'.rec) = Used(op.rec)
    BY <1>b, <2>1, <2>2 DEF Used, Record
  <2> QED BY <1>4, <2>1, <2>3
<1>8. CASE Answer
  <2>0. op # None /\ op \in Operation /\ op.rec \in Record /\ op.request \in Requests
    BY <1>8, <1>a, <1>b DEF Answer, TypeOK
  <2>1. /\ disk' = disk /\ op.rec.reads[op.request] = "requested"
        /\ op'.rec.reads = [op.rec.reads EXCEPT ![op.request] = "read"]
    BY <1>8, <1>a, <2>0 DEF Answer, ReadOnDisk, Operation, Record
  <2>3. Used(op'.rec) = Used(op.rec)
    BY <2>0, <2>1 DEF Used, Record
  <2> QED BY <1>4, <2>0, <2>1, <2>3
<1>9. CASE Saved
  <2>0. op # None /\ op \in Operation
    BY <1>9, <1>b DEF Saved, Unsaved
  <2>1. op' = None \/ op'.rec = op.rec
    BY <1>9, <2>0 DEF Saved, Operation
  <2>2. \A s \in Sessions : disk'[s] = IF s = op.session THEN op.rec ELSE disk[s]
    BY <1>9, <1>a, <1>b, <2>0 DEF Saved, TypeOK
  <2> QED BY <1>a, <2>0, <2>1, <2>2
<1>10. CASE SaveFails \/ Crash
  BY <1>10, <1>a DEF SaveFails, Crash
<1>11. CASE Close \/ Tick \/ Restart \/ ChangeVersion \/ UNCHANGED vars
  BY <1>11, <1>a DEF Close, Tick, Restart, ChangeVersion, vars
<1> QED
  BY <1>1, <1>2, <1>3, <1>5, <1>6, <1>7, <1>8, <1>9, <1>10, <1>11 DEF Next

-----------------------------------------------------------------------------
\* The invariant holds in every behaviour.
THEOREM Invariance == Spec => []IInv
<1>1. Init => IInv
  <2> SUFFICES ASSUME Init PROVE IInv
    OBVIOUS
  <2>1. TypeOK
    BY InitType
  <2>2. \A k \in Keys : contacts[k] = 0
    BY DEF Init
  <2> QED
    BY <2>1, <2>2, LeaseConstants DEF Init, IInv, CopyFollows, GrantFollowsCheck, ReadOnDisk,
       ContactsKnown, DeadlineGranted, AcceptedInTime, WithinLimit, NoLeases, Keys
<1>2. IInv /\ [Next]_vars => IInv'
  <2> SUFFICES ASSUME IInv, [Next]_vars PROVE IInv'
    OBVIOUS
  <2>1. TypeOK'
    BY StepType DEF IInv
  <2> QED
    BY <2>1, CopyStep, ReadStep, ContactsStep, DeadlineStep, AcceptedStep, LimitStep DEF IInv
<1> QED
  BY <1>1, <1>2, PTL DEF Spec

\* Type correctness of HardwareLease.
THEOREM TypeCorrect == Spec => []TypeOK
BY Invariance, PTL DEF IInv

\* read(): one contact per request id, whatever failed, expired or restarted.
THEOREM OneContactPerRequest == Spec => []ContactedOnce
<1>1. IInv => ContactedOnce
  BY DEF IInv, TypeOK, ContactsKnown, ContactedOnce, Keys
<1> QED BY <1>1, Invariance, PTL

\* read(): the request is on disk, and the permission valid, when the device is
\* contacted.
THEOREM ContactsArePermitted == Spec => []ContactPermitted
<1>1. IInv => ContactPermitted
  BY LeaseNone, Parts DEF IInv, ReadOnDisk, ContactPermitted
<1> QED BY <1>1, Invariance, PTL

\* read(): recorded values are those of the only contact, from before the deadline.
THEOREM ValuesAreInTime == Spec => []ValuesInTime
<1>1. IInv => ValuesInTime
  BY DEF IInv, AcceptedInTime, InTime, ValuesInTime
<1> QED BY <1>1, Invariance, PTL

\* read(): the limit counts every contact.
THEOREM ContactsAreBounded == Spec => []ReadsBounded
<1>1. IInv => ReadsBounded
  <2> SUFFICES ASSUME IInv, NEW s \in Sessions
               PROVE  Cardinality({q \in Requests : contacts[<<s, q>>] > 0}) <= ReadLimit
    BY DEF ReadsBounded
  <2> DEFINE Sent == {q \in Requests : contacts[<<s, q>>] > 0}
  <2> SUFFICES Cardinality(Sent) <= ReadLimit
    OBVIOUS
  <2>1. CASE disk[s] = None
    <3>1. Sent = {}
      BY <2>1 DEF IInv, ContactsKnown
    <3>2. Cardinality({}) = 0
      BY FS_EmptySet
    <3>3. ReadLimit \in Nat
      BY LeaseConstants
    <3> HIDE DEF Sent
    <3> QED BY <3>1, <3>2, <3>3
  <2>2. CASE disk[s] # None
    <3>1. Sent \subseteq Used(disk[s])
      BY <2>2 DEF IInv, ContactsKnown, Used
    <3>2. IsFiniteSet(Used(disk[s])) /\ Cardinality(Used(disk[s])) \in Nat
      BY LeaseConstants, FS_Subset, FS_CardinalityType DEF Used
    <3>3. Cardinality(Sent) <= Cardinality(Used(disk[s])) /\ Cardinality(Sent) \in Nat
      BY <3>1, <3>2, FS_Subset, FS_CardinalityType
    <3>4. Cardinality(Used(disk[s])) <= ReadLimit
      BY <2>2 DEF IInv, WithinLimit
    <3> QED BY <3>2, <3>3, <3>4, LeaseConstants
  <2> QED BY <2>1, <2>2
<1> QED BY <1>1, Invariance, PTL

\* revoke() and a restart are final.
THEOREM RevocationIsFinal == Spec => RevokedStays
<1>1. ASSUME IInv, [Next]_vars, NEW s \in Sessions, Revoked(s), boot' # 0
      PROVE  Revoked(s)'
  <2> USE DEF Revoked, Status
  <2>a. TypeOK /\ CopyFollows /\ GrantFollowsCheck /\ boot # 0 /\ disk[s] # None
    BY <1>1 DEF IInv
  <2>b. disk[s].status = "revoked" \/ (disk[s].status \in {"pending", "active"} /\ disk[s].boot # boot)
    BY <1>1, <2>a
  <2>c. boot' = boot
    BY <1>1, <2>a DEF Next, Propose, ApproveCheck, ApproveGrant, Revoke, Read, Contact, Expired,
       Answer, NoAnswer, Saved, SaveFails, Close, Crash, Restart, Tick, ChangeVersion, vars
  <2>1. CASE Saved /\ op.session = s
    <3>1. op # None /\ op.rec \in Record /\ disk'[s] = op.rec
      BY <2>1, <2>a, Parts DEF Saved, Unsaved, TypeOK
    <3>2. op.rec.boot = disk[s].boot /\ (disk[s].status = "revoked" => op.rec.status = "revoked")
      BY <2>1, <2>a, <3>1 DEF CopyFollows
    <3>3. op.rec.status \in {"pending", "active", "revoked"} /\ op.rec # None
      BY <3>1, LeaseNone DEF Record
    <3> QED BY <2>a, <2>b, <2>c, <3>1, <3>2, <3>3
  <2>2. CASE ~(Saved /\ op.session = s)
    <3>1. disk'[s] = disk[s]
      BY <1>1, <2>2, <2>a DEF Next, Propose, ApproveCheck, ApproveGrant, Revoke, Read, Contact,
         Expired, Answer, NoAnswer, Saved, Unsaved, SaveFails, Close, Crash, Restart, Tick,
         ChangeVersion, vars, TypeOK
    <3> QED BY <2>a, <2>b, <2>c, <3>1
  <2> QED BY <2>1, <2>2
<1>2. IInv /\ [Next]_vars =>
        [\A s \in Sessions : Revoked(s) /\ boot' # 0 => Revoked(s)']_vars
  BY <1>1
<1> QED BY <1>2, Invariance, PTL DEF Spec, RevokedStays
=============================================================================
