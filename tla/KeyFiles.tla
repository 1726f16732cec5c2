------------------------------ MODULE KeyFiles ------------------------------
(***************************************************************************)
(* The files that let a key log in to sish, and the rows they follow.      *)
(*                                                                         *)
(* The service layer changes files and rows in several steps, one call at  *)
(* a time (keyMu). The transactions queue events, which the outbox worker  *)
(* applies to the files as well, without keyMu: in the order of their ids, *)
(* except that an event that failed waits and comes back at any time. A    *)
(* call that fails has possibly done its work: a rename may be followed by *)
(* a failing fsync of the directory.                                       *)
(***************************************************************************)
EXTENDS Naturals

CONSTANTS
  Users, Keys,
  KeyOwner,       \* the user who adds each key
  None,
  MaxOperations,  \* bound on the calls of the service layer
  MaxFailures     \* bound on the file and database operations that fail

ASSUME ConstantsAssumption ==
  /\ KeyOwner \in [Keys -> Users]
  /\ MaxOperations \in Nat
  /\ MaxFailures \in Nat

VARIABLES
  keyState,    \* ssh_keys: not yet added, enabled, disabled, deleted
  userStatus,  \* users.status
  file,        \* keys that have a managed file
  outbox,      \* pubkey.* events that are not completed
  call,        \* the service call that holds keyMu, or None
  worker,      \* the event the worker is at, or None
  operations,  \* calls so far; it numbers the events
  failures,    \* failures so far
  stray        \* history: files nobody is going to look after, see below

dbVars == <<keyState, userStatus, outbox>>
vars   == <<dbVars, file, call, worker, operations, failures, stray>>

Item == [id : Nat, kind : {"write", "remove"}, key : Keys, known : BOOLEAN,
         retried : BOOLEAN]
   \cup [id : Nat, kind : {"reconcile"}, retried : BOOLEAN]

KeyCalls  == {"add", "addUndo", "addDrop", "enable", "enableCommit", "enableUndo",
              "disable", "disableCommit", "delete", "deleteCommit"}
Call      == [step : KeyCalls, key : Keys]
        \cup [step : {"suspend"}, user : Users, todo : SUBSET Keys]
        \cup [step : {"unsuspend", "sync"}, user : Users]

ASSUME NoneIsNoCall == None \notin Call

TypeOK ==
  /\ keyState \in [Keys -> {"unused", "enabled", "disabled", "deleted"}]
  /\ userStatus \in [Users -> {"active", "suspended"}]
  /\ file \in SUBSET Keys
  /\ outbox \in SUBSET Item
  /\ call \in Call \cup {None}
  /\ worker \in [item : Item, read : SUBSET Keys, done : BOOLEAN] \cup {None}
  /\ operations \in Nat
  /\ failures \in Nat
  /\ stray \in SUBSET Keys

\* An empty database, and a directory the start has reconciled.
Init ==
  /\ keyState = [k \in Keys |-> "unused"]
  /\ userStatus = [u \in Users |-> "active"]
  /\ file = {}
  /\ outbox = {}
  /\ call = None
  /\ worker = None
  /\ operations = 0
  /\ failures = 0
  /\ stray = {}

Exists(k) == keyState[k] \in {"enabled", "disabled"}
Active(k) == userStatus[KeyOwner[k]] = "active"
AuthorizedKeys == {k \in Keys : keyState[k] = "enabled" /\ Active(k)}

-----------------------------------------------------------------------------
(* Files. Each operation succeeds, or fails and may have had its effect.   *)

Succeed == UNCHANGED failures
Fail    == failures < MaxFailures /\ failures' = failures + 1

SetFile(f) == file' = f /\ stray' = stray \cap f

WriteFile(k)   == SetFile(file \cup {k})
RemoveFile(k)  == SetFile(file \ {k})
MaybeWrite(k)  == \/ UNCHANGED <<file, stray>>
                  \/ WriteFile(k)
MaybeRemove(k) == \/ UNCHANGED <<file, stray>>
                  \/ RemoveFile(k)

\* Reconcile first removes what is not wanted, then writes what is.
ReconcileFiles(wanted) == SetFile(wanted)
MaybeReconcile(wanted) ==
  \/ \E gone \in SUBSET (file \ wanted) : SetFile(file \ gone)
  \/ \E new \in SUBSET wanted : SetFile((file \cap wanted) \cup new)

-----------------------------------------------------------------------------
(* Calls of the service layer.                                             *)

Lock(c) ==
  /\ call = None
  /\ operations < MaxOperations
  /\ operations' = operations + 1
  /\ call' = c

Step(step)   == call # None /\ call.step = step
Goto(step)   == call' = [call EXCEPT !.step = step]
Return       == call' = None

\* Between its first and its last step a call leaves these alone.
Continue == UNCHANGED <<worker, operations>>

Queue(kind, k, known) ==
  outbox' = outbox \cup {[id |-> operations, kind |-> kind, key |-> k,
                          known |-> known, retried |-> FALSE]}
QueueReconcile ==
  outbox' = outbox \cup {[id |-> operations, kind |-> "reconcile", retried |-> FALSE]}

\* AddKey: the row with its event, the file, and if that failed the way back.
AddKey(k) ==
  /\ keyState[k] = "unused"
  /\ Active(k)
  /\ Lock([step |-> "add", key |-> k])
  /\ keyState' = [keyState EXCEPT ![k] = "enabled"]
  /\ outbox' = outbox \cup {[id |-> operations', kind |-> "write", key |-> k,
                             known |-> FALSE, retried |-> FALSE]}
  /\ UNCHANGED <<userStatus, file, worker, failures, stray>>

AddKeyWrite ==
  /\ Step("add")
  /\ \/ WriteFile(call.key) /\ Succeed /\ Return
     \/ MaybeWrite(call.key) /\ Fail /\ Goto("addUndo")
  /\ UNCHANGED dbVars /\ Continue

AddKeyUndo ==
  /\ Step("addUndo")
  /\ \/ RemoveFile(call.key) /\ Succeed /\ Goto("addDrop")
     \/ MaybeRemove(call.key) /\ Fail /\ Return
  /\ UNCHANGED dbVars /\ Continue

\* Delete the row; failing that disable it; failing that leave it. Nothing is
\* queued, though the worker may have written the file again meanwhile.
AddKeyDrop ==
  /\ Step("addDrop")
  /\ \/ /\ \/ Succeed /\ keyState' = [keyState EXCEPT ![call.key] = "deleted"]
           \/ Fail /\ keyState' = [keyState EXCEPT ![call.key] = "disabled"]
        /\ stray' = stray \cup (file \cap {call.key})
     \/ /\ failures + 2 <= MaxFailures
        /\ failures' = failures + 2
        /\ UNCHANGED <<keyState, stray>>
  /\ Return
  /\ UNCHANGED <<userStatus, outbox, file>> /\ Continue

\* SetKeyEnabled: enabling writes the file first, ...
EnableKey(k) ==
  /\ Exists(k) /\ Active(k)
  /\ Lock([step |-> "enable", key |-> k])
  /\ UNCHANGED <<dbVars, file, worker, failures, stray>>

EnableKeyWrite ==
  /\ Step("enable")
  /\ \/ WriteFile(call.key) /\ Succeed /\ Goto("enableCommit")
     \/ UNCHANGED <<file, stray>> /\ Fail /\ Return
     \/ /\ file' = file \cup {call.key}
        /\ stray' = IF call.key \in AuthorizedKeys THEN stray ELSE stray \cup {call.key}
        /\ Fail /\ Return
  /\ UNCHANGED dbVars /\ Continue

EnableKeyCommit ==
  /\ Step("enableCommit")
  /\ \/ /\ Succeed /\ Return
        /\ IF keyState[call.key] = "disabled"
             THEN /\ keyState' = [keyState EXCEPT ![call.key] = "enabled"]
                  /\ Queue("write", call.key, FALSE)
             ELSE UNCHANGED <<keyState, outbox>>
     \/ Fail /\ Goto("enableUndo") /\ UNCHANGED <<keyState, outbox>>
  /\ UNCHANGED <<userStatus, file, stray>> /\ Continue

\* Mutant: the error is returned at once.
EnableKeyUndoNothing ==
  /\ Step("enableUndo")
  /\ Return /\ Succeed
  /\ UNCHANGED <<dbVars, file, stray>> /\ Continue

\* The outcome of this removal is not looked at.
EnableKeyUndo ==
  /\ Step("enableUndo")
  /\ Return
  /\ \/ RemoveFile(call.key) /\ Succeed
     \/ /\ Fail /\ UNCHANGED file
        /\ stray' = IF call.key \in file \ AuthorizedKeys THEN stray \cup {call.key} ELSE stray
  /\ UNCHANGED dbVars /\ Continue

\* ... disabling removes it first.
DisableKey(k) ==
  /\ Exists(k) /\ Active(k)
  /\ Lock([step |-> "disable", key |-> k])
  /\ UNCHANGED <<dbVars, file, worker, failures, stray>>

DeleteKey(k) ==
  /\ Exists(k)
  /\ Lock([step |-> "delete", key |-> k])
  /\ UNCHANGED <<dbVars, file, worker, failures, stray>>

RevokeKeyRemove ==
  /\ \E step \in {"disable", "delete"} :
       /\ Step(step)
       /\ \/ RemoveFile(call.key) /\ Succeed
             /\ Goto(IF step = "disable" THEN "disableCommit" ELSE "deleteCommit")
          \/ MaybeRemove(call.key) /\ Fail /\ Return
  /\ UNCHANGED dbVars /\ Continue

\* Mutant: disabling queues no event for the file.
DisableKeyCommitSilent ==
  /\ Step("disableCommit")
  /\ \/ /\ Succeed
        /\ keyState' = [keyState EXCEPT ![call.key] = "disabled"]
     \/ Fail /\ UNCHANGED keyState
  /\ Return
  /\ UNCHANGED <<userStatus, outbox, file, stray>> /\ Continue

DisableKeyCommit ==
  /\ Step("disableCommit")
  /\ \/ /\ Succeed
        /\ IF keyState[call.key] = "enabled"
             THEN /\ keyState' = [keyState EXCEPT ![call.key] = "disabled"]
                  /\ Queue("remove", call.key, FALSE)
             ELSE UNCHANGED <<keyState, outbox>>
     \/ Fail /\ UNCHANGED <<keyState, outbox>>
  /\ Return
  /\ UNCHANGED <<userStatus, file, stray>> /\ Continue

DeleteKeyCommit ==
  /\ Step("deleteCommit")
  /\ \/ /\ Succeed
        /\ keyState' = [keyState EXCEPT ![call.key] = "deleted"]
        /\ Queue("remove", call.key, TRUE)
     \/ Fail /\ UNCHANGED <<keyState, outbox>>
  /\ Return
  /\ UNCHANGED <<userStatus, file, stray>> /\ Continue

\* SetUserSuspended: all files of the user, then the status.
Suspend(u) ==
  /\ Lock([step |-> "suspend", user |-> u,
           todo |-> {k \in Keys : KeyOwner[k] = u /\ Exists(k)}])
  /\ UNCHANGED <<dbVars, file, worker, failures, stray>>

SuspendRemove ==
  /\ Step("suspend")
  /\ \E k \in call.todo :
       \/ RemoveFile(k) /\ Succeed /\ call' = [call EXCEPT !.todo = @ \ {k}]
       \/ MaybeRemove(k) /\ Fail /\ Return
  /\ UNCHANGED dbVars /\ Continue

\* Mutant: a status the table does not know.
SuspendCommitUnknown ==
  /\ Step("suspend")
  /\ call.todo = {}
  /\ userStatus' = [userStatus EXCEPT ![call.user] = "disabled"]
  /\ QueueReconcile
  /\ Succeed /\ Return
  /\ UNCHANGED <<keyState, file, stray>> /\ Continue

SuspendCommit ==
  /\ Step("suspend")
  /\ call.todo = {}
  /\ \/ /\ Succeed
        /\ IF userStatus[call.user] = "active"
             THEN /\ userStatus' = [userStatus EXCEPT ![call.user] = "suspended"]
                  /\ QueueReconcile
             ELSE UNCHANGED <<userStatus, outbox>>
     \/ Fail /\ UNCHANGED <<userStatus, outbox>>
  /\ Return
  /\ UNCHANGED <<keyState, file, stray>> /\ Continue

Unsuspend(u) ==
  /\ Lock([step |-> "unsuspend", user |-> u])
  /\ UNCHANGED <<dbVars, file, worker, failures, stray>>

\* Mutant: the reconciliation on the spot is taken to be enough.
UnsuspendCommitSilent ==
  /\ Step("unsuspend")
  /\ userStatus' = [userStatus EXCEPT ![call.user] = "active"]
  /\ Succeed /\ Goto("sync")
  /\ UNCHANGED <<keyState, outbox, file, stray>> /\ Continue

UnsuspendCommit ==
  /\ Step("unsuspend")
  /\ \/ /\ Succeed /\ Goto("sync")
        /\ IF userStatus[call.user] = "suspended"
             THEN /\ userStatus' = [userStatus EXCEPT ![call.user] = "active"]
                  /\ QueueReconcile
             ELSE UNCHANGED <<userStatus, outbox>>
     \/ Fail /\ Return /\ UNCHANGED <<userStatus, outbox>>
  /\ UNCHANGED <<keyState, file, stray>> /\ Continue

\* A reconciliation on the spot, whose outcome is not looked at.
Sync ==
  /\ Step("sync")
  /\ Return
  /\ \/ ReconcileFiles(AuthorizedKeys) /\ Succeed
     \/ MaybeReconcile(AuthorizedKeys) /\ Fail
  /\ UNCHANGED dbVars /\ Continue

-----------------------------------------------------------------------------
(* The outbox worker.                                                      *)

\* Events come in the order of their ids but for those that wait for a retry.
Turn(i) == i.retried \/ \A j \in outbox : j.retried \/ i.id <= j.id

Retry(i) ==
  /\ outbox' = (outbox \ {i}) \cup {[i EXCEPT !.retried = TRUE]}
  /\ worker' = None

Begin(i, keys)  == worker' = [item |-> i, read |-> keys, done |-> FALSE]
NothingToDo(i)  == worker' = [item |-> i, read |-> {}, done |-> TRUE]

\* First the worker reads the rows. A write does not look at enabled or at
\* the user's status; what was removed with its row is forgotten.
WorkerRead ==
  /\ worker = None
  /\ \E i \in outbox :
       /\ Turn(i)
       /\ \/ /\ Succeed /\ UNCHANGED outbox
             /\ \/ /\ i.kind = "write"
                   /\ IF Exists(i.key) THEN Begin(i, {i.key}) ELSE NothingToDo(i)
                \/ /\ i.kind = "remove"
                   /\ IF i.known \/ Exists(i.key) THEN Begin(i, {i.key}) ELSE NothingToDo(i)
                \/ i.kind = "reconcile" /\ Begin(i, AuthorizedKeys)
          \/ Fail /\ Retry(i)
  /\ UNCHANGED <<keyState, userStatus, file, call, operations, stray>>

\* Somebody will still remove the file of k, or reconcile.
Removes(i, k) ==
  \/ i.kind = "reconcile"
  \/ i.kind = "remove" /\ i.key = k /\ (i.known \/ Exists(k))

\* What the worker wrote without right or remedy is a stray.
NoteStrays ==
  stray' = (stray \cap file') \cup
    {k \in file' \ AuthorizedKeys :
       /\ worker.item.kind # "remove" /\ k \in worker.read
       /\ \A i \in outbox \ {worker.item} : ~Removes(i, k)}

WorkerApply ==
  /\ worker # None
  /\ ~worker.done
  /\ \/ /\ Succeed
        /\ file' = CASE worker.item.kind = "write"     -> file \cup worker.read
                     [] worker.item.kind = "remove"    -> file \ worker.read
                     [] worker.item.kind = "reconcile" -> worker.read
        /\ worker' = [worker EXCEPT !.done = TRUE]
        /\ UNCHANGED outbox
     \/ /\ Fail
        /\ \/ UNCHANGED file
           \/ worker.item.kind = "write" /\ file' = file \cup worker.read
           \/ worker.item.kind = "remove" /\ file' = file \ worker.read
           \/ /\ worker.item.kind = "reconcile"
              /\ \/ \E gone \in SUBSET (file \ worker.read) : file' = file \ gone
                 \/ \E new \in SUBSET worker.read : file' = (file \cap worker.read) \cup new
        /\ Retry(worker.item)
  /\ NoteStrays
  /\ UNCHANGED <<keyState, userStatus, call, operations>>

WorkerComplete ==
  /\ worker # None
  /\ worker.done
  /\ \/ Succeed /\ outbox' = outbox \ {worker.item} /\ worker' = None
     \/ Fail /\ Retry(worker.item)
  /\ UNCHANGED <<keyState, userStatus, file, call, operations, stray>>

-----------------------------------------------------------------------------

\* The process ends anywhere, and the next one reconciles before it does
\* anything else; if that fails it ends again.
Restart ==
  /\ call # None \/ worker # None \/ file # AuthorizedKeys
  /\ call' = None
  /\ worker' = None
  /\ SetFile(AuthorizedKeys)
  /\ UNCHANGED <<dbVars, operations, failures>>

BeginCall ==
  \/ \E k \in Keys : AddKey(k) \/ EnableKey(k) \/ DisableKey(k) \/ DeleteKey(k)
  \/ \E u \in Users : Suspend(u) \/ Unsuspend(u)

ContinueCall ==
  \/ AddKeyWrite \/ AddKeyUndo \/ AddKeyDrop
  \/ EnableKeyWrite \/ EnableKeyCommit \/ EnableKeyUndo
  \/ RevokeKeyRemove \/ DisableKeyCommit \/ DeleteKeyCommit
  \/ SuspendRemove \/ SuspendCommit
  \/ UnsuspendCommit \/ Sync

Work == WorkerRead \/ WorkerApply \/ WorkerComplete

Next == BeginCall \/ ContinueCall \/ Work \/ Restart

Spec == Init /\ [][Next]_vars

\* Calls return, and the process runs long enough, now and then, for the
\* worker to take its next step: its loop never ends.
Fairness ==
  /\ WF_vars(ContinueCall)
  /\ SF_vars(WorkerRead)
  /\ SF_vars(WorkerApply)
  /\ SF_vars(WorkerComplete)

FairSpec == Spec /\ Fairness

-----------------------------------------------------------------------------
(* Properties.                                                             *)

Settled == call = None /\ worker = None /\ outbox = {}

\* When calls and events have run their course without a failure, the files
\* are those of the enabled keys of active users, however calls, worker and
\* restarts interleaved (MaxFailures = 0). About the order of files and
\* transactions in the service layer and the order of the outbox.
SettledFilesAreExact == Settled => file = AuthorizedKeys

\* And they do run their course: the files become exact and stay so.
FilesConverge == <>[](file = AuthorizedKeys)

\* With failures: a file that lets a withdrawn key log in is about to be
\* removed, by an event or by the call that wrote it, or it is a stray. A stray
\* comes from the worker writing a file that nothing is queued to remove, from
\* an enabling write that fails after the rename or a failing removal after a
\* failed update, or from AddKey taking back a row whose file the worker has
\* written - and from nowhere else.
WithdrawnFileIsPending ==
  \A k \in file \ AuthorizedKeys :
    \/ k \in stray
    \/ \E i \in outbox : Removes(i, k)
    \/ call # None /\ call.step \in {"enableCommit", "enableUndo"} /\ call.key = k

\* What the comment of SetUserSuspended says of the files it removed before the
\* database changed, "sish no longer has the user's managed files": when the
\* calls and their events have run their course, a suspended user has none.
SuspendedHasNoFile ==
  Settled => \A k \in file : Active(k)

=============================================================================
