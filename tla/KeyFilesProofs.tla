--------------------------- MODULE KeyFilesProofs ---------------------------
(***************************************************************************)
(* Proofs about KeyFiles, for any users, keys, calls and failures.         *)
(***************************************************************************)
EXTENDS KeyFiles, TLAPS

-----------------------------------------------------------------------------
(* Types                                                                   *)

LEMMA InitType == Init => TypeOK
  BY ConstantsAssumption DEF Init, TypeOK

\* A call about a key goes on with the same key.
LEMMA KeyStep ==
  ASSUME TypeOK, NEW s \in KeyCalls, Step(s)
  PROVE  /\ call \in [step : KeyCalls, key : Keys] /\ call.key \in Keys
         /\ \A t \in KeyCalls : /\ [call EXCEPT !.step = t] \in [step : KeyCalls, key : Keys]
                                /\ [call EXCEPT !.step = t].step = t
                                /\ [call EXCEPT !.step = t].key = call.key
<1>1. call \in [step : KeyCalls, key : Keys]
  BY DEF TypeOK, Call, Step, KeyCalls
<1> QED
  BY <1>1

LEMMA UserStep ==
  ASSUME TypeOK
  PROVE  /\ Step("suspend") => /\ call \in [step : {"suspend"}, user : Users, todo : SUBSET Keys]
                               /\ call.user \in Users
         /\ Step("unsuspend") => /\ call.user \in Users
                                 /\ [call EXCEPT !.step = "sync"] \in [step : {"unsuspend", "sync"}, user : Users]
                                 /\ [call EXCEPT !.step = "sync"].step = "sync"
<1>1. Step("suspend") => call \in [step : {"suspend"}, user : Users, todo : SUBSET Keys]
  BY DEF TypeOK, Call, Step, KeyCalls
<1>2. Step("unsuspend") => call \in [step : {"unsuspend", "sync"}, user : Users]
  BY DEF TypeOK, Call, Step, KeyCalls
<1> QED
  BY <1>1, <1>2

LEMMA ItemType ==
  ASSUME NEW i \in Item
  PROVE  /\ [i EXCEPT !.retried = TRUE] \in Item
         /\ [i EXCEPT !.retried = TRUE].id = i.id /\ [i EXCEPT !.retried = TRUE].kind = i.kind
         /\ i.id \in Nat /\ i.kind \in {"write", "remove", "reconcile"}
         /\ i.kind # "reconcile" => /\ i.key \in Keys
                                    /\ [i EXCEPT !.retried = TRUE].key = i.key
                                    /\ [i EXCEPT !.retried = TRUE].known = i.known
<1>1. CASE i \in [id : Nat, kind : {"write", "remove"}, key : Keys, known : BOOLEAN, retried : BOOLEAN]
  <2>1. [i EXCEPT !.retried = TRUE] \in
          [id : Nat, kind : {"write", "remove"}, key : Keys, known : BOOLEAN, retried : BOOLEAN]
    BY <1>1
  <2> QED
    BY <1>1, <2>1 DEF Item
<1>2. CASE i \in [id : Nat, kind : {"reconcile"}, retried : BOOLEAN]
  <2>1. [i EXCEPT !.retried = TRUE] \in [id : Nat, kind : {"reconcile"}, retried : BOOLEAN]
    BY <1>2
  <2> QED
    BY <1>2, <2>1 DEF Item
<1> QED
  BY <1>1, <1>2 DEF Item

\* What the steps of a call do to files.
LEMMA FileType ==
  ASSUME TypeOK, NEW k \in Keys
  PROVE  /\ WriteFile(k) => file' \in SUBSET Keys /\ stray' \in SUBSET Keys
         /\ RemoveFile(k) => file' \in SUBSET Keys /\ stray' \in SUBSET Keys
         /\ MaybeWrite(k) => file' \in SUBSET Keys /\ stray' \in SUBSET Keys
         /\ MaybeRemove(k) => file' \in SUBSET Keys /\ stray' \in SUBSET Keys
  BY DEF TypeOK, WriteFile, RemoveFile, MaybeWrite, MaybeRemove, SetFile

LEMMA CountType ==
  ASSUME TypeOK, Succeed \/ Fail
  PROVE  failures' \in Nat
  BY DEF TypeOK, Succeed, Fail

LEMMA LockType ==
  ASSUME TypeOK, NEW c \in Call, Lock(c)
  PROVE  operations' \in Nat /\ call' \in Call
  BY DEF TypeOK, Lock

LEMMA NewItem ==
  ASSUME NEW n \in Nat
  PROVE  /\ \A k \in Keys, known \in BOOLEAN, kind \in {"write", "remove"} :
              [id |-> n, kind |-> kind, key |-> k, known |-> known, retried |-> FALSE] \in Item
         /\ [id |-> n, kind |-> "reconcile", retried |-> FALSE] \in Item
<1>1. ASSUME NEW k \in Keys, NEW known \in BOOLEAN, NEW kind \in {"write", "remove"}
      PROVE  [id |-> n, kind |-> kind, key |-> k, known |-> known, retried |-> FALSE]
               \in [id : Nat, kind : {"write", "remove"}, key : Keys, known : BOOLEAN,
                    retried : BOOLEAN]
  OBVIOUS
<1>2. [id |-> n, kind |-> "reconcile", retried |-> FALSE]
        \in [id : Nat, kind : {"reconcile"}, retried : BOOLEAN]
  OBVIOUS
<1> QED
  BY <1>1, <1>2 DEF Item

LEMMA QueueType ==
  ASSUME TypeOK, NEW k \in Keys
  PROVE  \A known \in BOOLEAN, kind \in {"write", "remove"} :
           Queue(kind, k, known) => outbox' \in SUBSET Item
<1>1. ASSUME NEW known \in BOOLEAN, NEW kind \in {"write", "remove"}, Queue(kind, k, known)
      PROVE  outbox' \in SUBSET Item
  BY <1>1, NewItem DEF TypeOK, Queue
<1> QED
  BY <1>1

LEMMA ReconcileType ==
  ASSUME TypeOK, QueueReconcile
  PROVE  outbox' \in SUBSET Item
  BY NewItem DEF TypeOK, QueueReconcile

LEMMA BeginType ==
  ASSUME TypeOK, BeginCall
  PROVE  TypeOK'
<1>1. ASSUME NEW k \in Keys, AddKey(k) PROVE TypeOK'
  <2>1. [step |-> "add", key |-> k] \in Call
    BY DEF Call, KeyCalls
  <2>2. operations' \in Nat /\ call' \in Call
    BY <1>1, <2>1, LockType DEF AddKey
  <2>3. outbox' \in SUBSET Item
    BY <1>1, <2>2, NewItem DEF AddKey, TypeOK
  <2> QED
    BY <1>1, <2>2, <2>3 DEF AddKey, TypeOK
<1>2. ASSUME NEW c \in Call, Lock(c), UNCHANGED <<dbVars, file, worker, failures, stray>>
      PROVE TypeOK'
  BY <1>2, LockType DEF TypeOK, dbVars
<1>3. ASSUME NEW k \in Keys, NEW s \in KeyCalls PROVE [step |-> s, key |-> k] \in Call
  BY DEF Call
<1>4. ASSUME NEW k \in Keys, EnableKey(k) \/ DisableKey(k) \/ DeleteKey(k) PROVE TypeOK'
  <2>1. [step |-> "enable", key |-> k] \in Call /\ [step |-> "disable", key |-> k] \in Call
        /\ [step |-> "delete", key |-> k] \in Call
    BY <1>3 DEF KeyCalls
  <2> QED
    BY <1>2, <1>4, <2>1 DEF EnableKey, DisableKey, DeleteKey
<1>5. ASSUME NEW u \in Users, Suspend(u) PROVE TypeOK'
  <2> DEFINE S == {k \in Keys : KeyOwner[k] = u /\ Exists(k)}
  <2>1. S \in SUBSET Keys
    OBVIOUS
  <2> HIDE DEF S
  <2>2. [step |-> "suspend", user |-> u, todo |-> S] \in Call
    BY <2>1 DEF Call
  <2>3. Lock([step |-> "suspend", user |-> u, todo |-> S])
        /\ UNCHANGED <<dbVars, file, worker, failures, stray>>
    BY <1>5 DEF Suspend, S
  <2> QED
    BY <1>2, <2>2, <2>3
<1>6. ASSUME NEW u \in Users, Unsuspend(u) PROVE TypeOK'
  <2>1. [step |-> "unsuspend", user |-> u] \in Call
    BY DEF Call
  <2> QED
    BY <1>2, <1>6, <2>1 DEF Unsuspend
<1> QED
  BY <1>1, <1>4, <1>5, <1>6 DEF BeginCall

LEMMA Statuses ==
  ASSUME TypeOK
  PROVE  /\ \A k \in Keys, st \in {"enabled", "disabled", "deleted"} :
              [keyState EXCEPT ![k] = st] \in [Keys -> {"unused", "enabled", "disabled", "deleted"}]
         /\ \A u \in Users, st \in {"active", "suspended"} :
              [userStatus EXCEPT ![u] = st] \in [Users -> {"active", "suspended"}]
  BY DEF TypeOK

LEMMA ContinueType ==
  ASSUME TypeOK, ContinueCall
  PROVE  TypeOK'
<1> USE CountType
\* Steps that change files only.
<1>1. ASSUME NEW s \in KeyCalls, Step(s), Continue, UNCHANGED dbVars, Succeed \/ Fail,
             file' \in SUBSET Keys, stray' \in SUBSET Keys,
             Return \/ \E t \in KeyCalls : Goto(t)
      PROVE  TypeOK'
  <2>1. call' \in Call \cup {None}
    BY <1>1, KeyStep DEF Return, Goto, Call
  <2> QED
    BY <1>1, <2>1 DEF TypeOK, Continue, dbVars
\* Transactions.
<1>2. ASSUME NEW s \in KeyCalls, Step(s), Continue, Succeed \/ Fail, UNCHANGED <<userStatus, file>>,
             keyState' \in [Keys -> {"unused", "enabled", "disabled", "deleted"}],
             outbox' \in SUBSET Item, stray' \in SUBSET Keys,
             Return \/ \E t \in KeyCalls : Goto(t)
      PROVE  TypeOK'
  <2>1. call' \in Call \cup {None}
    BY <1>2, KeyStep DEF Return, Goto, Call
  <2> QED
    BY <1>2, <2>1 DEF TypeOK, Continue
<1>3. AddKeyWrite => TypeOK'
  BY <1>1, KeyStep, FileType DEF AddKeyWrite, KeyCalls
<1>4. AddKeyUndo => TypeOK'
  BY <1>1, KeyStep, FileType DEF AddKeyUndo, KeyCalls
<1>5. ASSUME AddKeyDrop PROVE TypeOK'
  <2>1. call.key \in Keys /\ Return
    BY <1>5, KeyStep DEF AddKeyDrop, KeyCalls
  <2>2. keyState' \in [Keys -> {"unused", "enabled", "disabled", "deleted"}]
        /\ stray' \in SUBSET Keys /\ failures' \in Nat
    BY <1>5, <2>1, Statuses DEF AddKeyDrop, TypeOK, Succeed, Fail
  <2> QED
    BY <1>5, <2>1, <2>2 DEF AddKeyDrop, TypeOK, Continue, Return
<1>6. ASSUME EnableKeyWrite PROVE TypeOK'
  <2>1. call.key \in Keys /\ "enable" \in KeyCalls /\ "enableCommit" \in KeyCalls
    BY <1>6, KeyStep DEF EnableKeyWrite, KeyCalls
  <2>2. file' \in SUBSET Keys /\ stray' \in SUBSET Keys
    BY <1>6, <2>1, FileType DEF EnableKeyWrite, TypeOK
  <2> QED
    BY <1>1, <1>6, <2>1, <2>2 DEF EnableKeyWrite
<1>7. ASSUME EnableKeyCommit PROVE TypeOK'
  <2>1. call.key \in Keys /\ "enableCommit" \in KeyCalls /\ "enableUndo" \in KeyCalls
    BY <1>7, KeyStep DEF EnableKeyCommit, KeyCalls
  <2>2. keyState' \in [Keys -> {"unused", "enabled", "disabled", "deleted"}] /\ outbox' \in SUBSET Item
    <3>1. \/ UNCHANGED <<keyState, outbox>>
          \/ keyState' = [keyState EXCEPT ![call.key] = "enabled"] /\ Queue("write", call.key, FALSE)
      BY <1>7 DEF EnableKeyCommit
    <3>2. CASE keyState' = [keyState EXCEPT ![call.key] = "enabled"] /\ Queue("write", call.key, FALSE)
      BY <2>1, <3>2, Statuses, QueueType
    <3> QED
      BY <3>1, <3>2 DEF TypeOK
  <2>3. stray' \in SUBSET Keys
    BY <1>7 DEF EnableKeyCommit, TypeOK
  <2> QED
    BY <1>2, <1>7, <2>1, <2>2, <2>3 DEF EnableKeyCommit
<1>8. ASSUME EnableKeyUndo PROVE TypeOK'
  <2>1. call.key \in Keys /\ "enableUndo" \in KeyCalls
    BY <1>8, KeyStep DEF EnableKeyUndo, KeyCalls
  <2>2. file' \in SUBSET Keys /\ stray' \in SUBSET Keys
    BY <1>8, <2>1, FileType DEF EnableKeyUndo, TypeOK
  <2> QED
    BY <1>1, <1>8, <2>1, <2>2 DEF EnableKeyUndo
<1>9. ASSUME RevokeKeyRemove PROVE TypeOK'
  <2>1. PICK s \in {"disable", "delete"} :
          /\ Step(s)
          /\ \/ RemoveFile(call.key) /\ Succeed
                /\ Goto(IF s = "disable" THEN "disableCommit" ELSE "deleteCommit")
             \/ MaybeRemove(call.key) /\ Fail /\ Return
    BY <1>9 DEF RevokeKeyRemove
  <2>2. s \in KeyCalls /\ "disableCommit" \in KeyCalls /\ "deleteCommit" \in KeyCalls
    BY DEF KeyCalls
  <2>3. file' \in SUBSET Keys /\ stray' \in SUBSET Keys
    BY <2>1, <2>2, KeyStep, FileType
  <2> QED
    BY <1>1, <1>9, <2>1, <2>2, <2>3 DEF RevokeKeyRemove
<1>10. ASSUME DisableKeyCommit PROVE TypeOK'
  <2>1. call.key \in Keys /\ "disableCommit" \in KeyCalls
    BY <1>10, KeyStep DEF DisableKeyCommit, KeyCalls
  <2>2. keyState' \in [Keys -> {"unused", "enabled", "disabled", "deleted"}] /\ outbox' \in SUBSET Item
    <3>1. \/ UNCHANGED <<keyState, outbox>>
          \/ keyState' = [keyState EXCEPT ![call.key] = "disabled"] /\ Queue("remove", call.key, FALSE)
      BY <1>10 DEF DisableKeyCommit
    <3>2. CASE keyState' = [keyState EXCEPT ![call.key] = "disabled"] /\ Queue("remove", call.key, FALSE)
      BY <2>1, <3>2, Statuses, QueueType
    <3> QED
      BY <3>1, <3>2 DEF TypeOK
  <2>3. stray' \in SUBSET Keys
    BY <1>10 DEF DisableKeyCommit, TypeOK
  <2> QED
    BY <1>2, <1>10, <2>1, <2>2, <2>3 DEF DisableKeyCommit
<1>11. ASSUME DeleteKeyCommit PROVE TypeOK'
  <2>1. call.key \in Keys /\ "deleteCommit" \in KeyCalls
    BY <1>11, KeyStep DEF DeleteKeyCommit, KeyCalls
  <2>2. keyState' \in [Keys -> {"unused", "enabled", "disabled", "deleted"}] /\ outbox' \in SUBSET Item
    BY <1>11, <2>1, Statuses, QueueType DEF DeleteKeyCommit, TypeOK
  <2>3. stray' \in SUBSET Keys
    BY <1>11 DEF DeleteKeyCommit, TypeOK
  <2> QED
    BY <1>2, <1>11, <2>1, <2>2, <2>3 DEF DeleteKeyCommit
<1>12. ASSUME SuspendRemove PROVE TypeOK'
  <2>1. call \in [step : {"suspend"}, user : Users, todo : SUBSET Keys]
    BY <1>12, UserStep DEF SuspendRemove
  <2>2. PICK k \in call.todo :
          \/ RemoveFile(k) /\ Succeed /\ call' = [call EXCEPT !.todo = @ \ {k}]
          \/ MaybeRemove(k) /\ Fail /\ Return
    BY <1>12 DEF SuspendRemove
  <2>3. file' \in SUBSET Keys /\ stray' \in SUBSET Keys
    BY <2>1, <2>2, FileType
  <2>4. call' \in Call \cup {None}
    BY <2>1, <2>2 DEF Return, Call
  <2> QED
    BY <1>12, <2>2, <2>3, <2>4 DEF SuspendRemove, TypeOK, Continue, dbVars
<1>13. ASSUME SuspendCommit PROVE TypeOK'
  <2>1. call.user \in Users
    BY <1>13, UserStep DEF SuspendCommit
  <2>2. userStatus' \in [Users -> {"active", "suspended"}] /\ outbox' \in SUBSET Item
    <3>1. \/ UNCHANGED <<userStatus, outbox>>
          \/ userStatus' = [userStatus EXCEPT ![call.user] = "suspended"] /\ QueueReconcile
      BY <1>13 DEF SuspendCommit
    <3>2. CASE userStatus' = [userStatus EXCEPT ![call.user] = "suspended"] /\ QueueReconcile
      BY <2>1, <3>2, Statuses, ReconcileType
    <3> QED
      BY <3>1, <3>2 DEF TypeOK
  <2> QED
    BY <1>13, <2>2 DEF SuspendCommit, TypeOK, Continue, Return
<1>14. ASSUME UnsuspendCommit PROVE TypeOK'
  <2>1. call.user \in Users /\ [call EXCEPT !.step = "sync"] \in Call
    BY <1>14, UserStep DEF UnsuspendCommit, Call
  <2>2. userStatus' \in [Users -> {"active", "suspended"}] /\ outbox' \in SUBSET Item
    <3>1. \/ UNCHANGED <<userStatus, outbox>>
          \/ userStatus' = [userStatus EXCEPT ![call.user] = "active"] /\ QueueReconcile
      BY <1>14 DEF UnsuspendCommit
    <3>2. CASE userStatus' = [userStatus EXCEPT ![call.user] = "active"] /\ QueueReconcile
      BY <2>1, <3>2, Statuses, ReconcileType
    <3> QED
      BY <3>1, <3>2 DEF TypeOK
  <2> QED
    BY <1>14, <2>1, <2>2 DEF UnsuspendCommit, TypeOK, Continue, Return, Goto
<1>15. ASSUME Sync PROVE TypeOK'
  <2>1. AuthorizedKeys \in SUBSET Keys
    BY DEF AuthorizedKeys
  <2>2. file' \in SUBSET Keys /\ stray' \in SUBSET Keys
    BY <1>15, <2>1 DEF Sync, ReconcileFiles, MaybeReconcile, SetFile, TypeOK
  <2> QED
    BY <1>15, <2>2 DEF Sync, TypeOK, Continue, dbVars, Return
<1> QED
  BY <1>3, <1>4, <1>5, <1>6, <1>7, <1>8, <1>9, <1>10, <1>11, <1>12, <1>13, <1>14, <1>15
  DEF ContinueCall

LEMMA WorkType ==
  ASSUME TypeOK, Work
  PROVE  TypeOK'
<1> USE CountType
<1>1. ASSUME NEW i \in Item, Retry(i)
      PROVE  outbox' \in SUBSET Item /\ worker' = None
  BY <1>1, ItemType DEF Retry, TypeOK
<1>2. ASSUME WorkerRead PROVE TypeOK'
  <2>1. PICK i \in outbox :
           \/ /\ Succeed /\ UNCHANGED outbox
              /\ \/ /\ i.kind # "reconcile" /\ \/ Begin(i, {i.key}) \/ NothingToDo(i)
                 \/ Begin(i, AuthorizedKeys)
           \/ Fail /\ Retry(i)
    BY <1>2 DEF WorkerRead
  <2>2. i \in Item /\ (i.kind # "reconcile" => i.key \in Keys)
    BY ItemType DEF TypeOK
  <2>3. AuthorizedKeys \in SUBSET Keys
    BY DEF AuthorizedKeys
  <2>4. worker' \in [item : Item, read : SUBSET Keys, done : BOOLEAN] \cup {None}
    <3>1. ASSUME NEW keys \in SUBSET Keys, Begin(i, keys) \/ NothingToDo(i)
          PROVE  worker' \in [item : Item, read : SUBSET Keys, done : BOOLEAN]
      <4>1. {} \in SUBSET Keys /\ i \in Item
        BY <2>2
      <4>2. CASE worker' = [item |-> i, read |-> keys, done |-> FALSE]
        BY <4>1, <4>2
      <4>3. CASE worker' = [item |-> i, read |-> {}, done |-> TRUE]
        BY <4>1, <4>3
      <4> QED
        BY <3>1, <4>2, <4>3 DEF Begin, NothingToDo
    <3>2. i.kind # "reconcile" => {i.key} \in SUBSET Keys
      BY <2>2
    <3>3. CASE i.kind # "reconcile" /\ (Begin(i, {i.key}) \/ NothingToDo(i))
      <4> DEFINE own == {i.key}
      <4>1. own \in SUBSET Keys /\ (Begin(i, own) \/ NothingToDo(i))
        BY <3>2, <3>3
      <4> HIDE DEF own
      <4> QED
        BY <3>1, <4>1
    <3>4. CASE Begin(i, AuthorizedKeys)
      BY <2>3, <3>1, <3>4
    <3>5. CASE Retry(i)
      BY <1>1, <2>2, <3>5
    <3> QED
      BY <2>1, <3>3, <3>4, <3>5
  <2>5. outbox' \in SUBSET Item /\ failures' \in Nat
    BY <1>1, <2>1 DEF TypeOK
  <2> QED
    BY <1>2, <2>4, <2>5 DEF WorkerRead, TypeOK
<1>3. ASSUME WorkerApply PROVE TypeOK'
  <2>1. worker \in [item : Item, read : SUBSET Keys, done : BOOLEAN]
    BY <1>3 DEF WorkerApply, TypeOK
  <2>2. file' \in SUBSET Keys
    <3>1. worker.read \in SUBSET Keys /\ file \in SUBSET Keys
          /\ worker.item.kind \in {"write", "remove", "reconcile"}
      BY <2>1, ItemType DEF TypeOK
    <3> QED
      BY <1>3, <3>1 DEF WorkerApply
  <2>3. stray' \in SUBSET Keys
    BY <1>3, <2>2 DEF WorkerApply, NoteStrays, TypeOK
  <2>4. outbox' \in SUBSET Item /\ failures' \in Nat
        /\ worker' \in [item : Item, read : SUBSET Keys, done : BOOLEAN] \cup {None}
    BY <1>1, <1>3, <2>1 DEF WorkerApply, TypeOK
  <2> QED
    BY <1>3, <2>2, <2>3, <2>4 DEF WorkerApply, TypeOK
<1>4. ASSUME WorkerComplete PROVE TypeOK'
  <2>1. worker.item \in Item
    BY <1>4 DEF WorkerComplete, TypeOK
  <2> QED
    BY <1>1, <1>4, <2>1 DEF WorkerComplete, TypeOK
<1> QED
  BY <1>2, <1>3, <1>4 DEF Work

LEMMA RestartType == TypeOK /\ Restart => TypeOK'
  BY DEF Restart, TypeOK, SetFile, AuthorizedKeys, dbVars

LEMMA NextType == TypeOK /\ [Next]_vars => TypeOK'
<1>1. TypeOK /\ UNCHANGED vars => TypeOK'
  BY DEF TypeOK, vars, dbVars
<1> QED
  BY <1>1, BeginType, ContinueType, WorkType, RestartType DEF Next

\* TypeOK for every value of the constants: a call and the worker have at each
\* step what the next one needs, and the rows keep to the states of the table.
THEOREM TypeCorrect == Spec => []TypeOK
<1>1. Spec => [](TypeOK)
  BY InitType, NextType, PTL DEF Spec
<1> QED
  BY <1>1

-----------------------------------------------------------------------------
(* Files without right                                                     *)

\* keyMu: what a call has found of its key stays true until it returns.
CallInv ==
  call # None =>
    /\ call.step \in {"add", "addUndo", "addDrop"} =>
         keyState[call.key] = "enabled" /\ Active(call.key)
    /\ call.step \in {"enable", "enableCommit", "enableUndo"} =>
         Exists(call.key) /\ Active(call.key)

\* Ids of events are those of the calls that queued them; a key that has an
\* event has had a row.
OutboxInv ==
  /\ \A i \in outbox : i.id <= operations
  /\ call # None /\ call.step \notin {"add", "addUndo", "addDrop", "sync"} =>
       \A i \in outbox : i.id < operations
  /\ \A i \in outbox : i.kind = "remove" => keyState[i.key] # "unused"

WorkerInv ==
  worker # None =>
    /\ worker.item \in outbox
    /\ ~worker.done /\ worker.item.kind = "remove" => worker.read = {worker.item.key}

\* The worker is at item i and has done with it.
Finished(i) == worker # None /\ worker.done /\ worker.item = i

\* The call is going to set the row or to take the file away.
CallCovers(k) ==
  call # None /\ call.step \in {"enableCommit", "enableUndo"} /\ call.key = k

\* WithdrawnFileIsPending, not counting an event whose work is done.
FileInv ==
  \A k \in file \ AuthorizedKeys :
    \/ k \in stray
    \/ \E i \in outbox : Removes(i, k) /\ ~Finished(i)
    \/ CallCovers(k)

KInv == TypeOK /\ CallInv /\ OutboxInv /\ WorkerInv /\ FileInv

LEMMA InitInv == Init => KInv
  BY InitType DEF Init, KInv, CallInv, OutboxInv, WorkerInv, FileInv

\* The tables and what is counted stay, files may go, and what comes is covered.
LEMMA FilesOnly ==
  ASSUME FileInv, UNCHANGED <<dbVars, worker>>,
         \A k \in file' \ AuthorizedKeys :
           \/ k \in stray'
           \/ CallCovers(k)'
           \/ k \in file /\ k \notin stray /\ ~CallCovers(k)
  PROVE  FileInv'
<1> SUFFICES ASSUME NEW k \in file' \ AuthorizedKeys',
                    k \notin stray', ~CallCovers(k)'
             PROVE  \E i \in outbox' : Removes(i, k)' /\ ~Finished(i)'
  BY DEF FileInv
<1>1. AuthorizedKeys' = AuthorizedKeys
  BY DEF AuthorizedKeys, Active, dbVars
<1>2. k \in file /\ k \notin stray /\ ~CallCovers(k)
  BY <1>1
<1>3. PICK i \in outbox : Removes(i, k) /\ ~Finished(i)
  BY <1>1, <1>2 DEF FileInv
<1>4. i \in outbox' /\ Removes(i, k)' /\ ~Finished(i)'
  BY <1>3 DEF Removes, Exists, Finished, dbVars
<1> QED
  BY <1>4

-----------------------------------------------------------------------------
(* Beginnings of calls                                                     *)

LEMMA AddKeyInv ==
  ASSUME KInv, NEW k \in Keys, AddKey(k)
  PROVE  CallInv' /\ OutboxInv' /\ WorkerInv' /\ FileInv'
<1> DEFINE new == [id |-> operations', kind |-> "write", key |-> k,
                   known |-> FALSE, retried |-> FALSE]
<1>1. /\ keyState' = [keyState EXCEPT ![k] = "enabled"] /\ keyState[k] = "unused"
      /\ outbox' = outbox \cup {new} /\ new.id = operations' /\ new.kind = "write"
      /\ call = None /\ operations' = operations + 1
      /\ call' = [step |-> "add", key |-> k]
      /\ UNCHANGED <<userStatus, file, worker, failures, stray>>
      /\ Active(k)
  BY DEF AddKey, Lock
<1> HIDE DEF new
<1>2. keyState' \in [Keys -> {"unused", "enabled", "disabled", "deleted"}] /\ keyState'[k] = "enabled"
      /\ \A j \in Keys : j # k => keyState'[j] = keyState[j]
  BY <1>1 DEF KInv, TypeOK
<1>3. operations \in Nat /\ \A i \in outbox : i \in Item /\ i.id \in Nat
                                            /\ (i.kind # "reconcile" => i.key \in Keys)
  BY ItemType DEF KInv, TypeOK
<1>4. CallInv'
  BY <1>1, <1>2 DEF CallInv, Active
<1>5. OutboxInv'
  <2>1. \A i \in outbox' : i.id <= operations'
    BY <1>1, <1>3 DEF KInv, OutboxInv
  <2>2. \A i \in outbox' : i.kind = "remove" => keyState'[i.key] # "unused"
    BY <1>1, <1>2, <1>3 DEF KInv, OutboxInv
  <2> QED
    BY <1>1, <2>1, <2>2 DEF OutboxInv
<1>6. WorkerInv'
  BY <1>1 DEF KInv, WorkerInv
<1>7. FileInv'
  <2> SUFFICES ASSUME NEW j \in file' \ AuthorizedKeys', j \notin stray'
               PROVE  \E i \in outbox' : Removes(i, j)' /\ ~Finished(i)'
    BY DEF FileInv
  <2>1. j \in file \ AuthorizedKeys /\ j \notin stray /\ ~CallCovers(j)
    BY <1>1, <1>2 DEF AuthorizedKeys, Active, CallCovers, KInv, TypeOK
  <2>2. PICK i \in outbox : Removes(i, j) /\ ~Finished(i)
    BY <2>1 DEF KInv, FileInv
  <2>3. Exists(j) => Exists(j)'
    BY <1>1, <1>2, <2>1 DEF Exists, KInv, TypeOK
  <2> QED
    BY <1>1, <2>2, <2>3 DEF Removes, Finished
<1> QED
  BY <1>4, <1>5, <1>6, <1>7

\* A call that begins with nothing but the lock.
LEMMA LockInv ==
  ASSUME KInv, NEW c \in Call, Lock(c), UNCHANGED <<dbVars, file, worker, failures, stray>>,
         c.step \in {"enable", "disable", "delete", "suspend", "unsuspend"},
         c.step = "enable" => Exists(c.key) /\ Active(c.key)
  PROVE  CallInv' /\ OutboxInv' /\ WorkerInv' /\ FileInv'
<1>1. call = None /\ call' = c /\ operations' = operations + 1
  BY DEF Lock
<1>2. operations \in Nat /\ \A i \in outbox : i.id \in Nat
  BY ItemType DEF KInv, TypeOK
<1>3. CallInv'
  BY <1>1 DEF CallInv, Exists, Active, dbVars
<1>4. OutboxInv'
  BY <1>1, <1>2 DEF KInv, OutboxInv, dbVars
<1>5. WorkerInv'
  BY DEF KInv, WorkerInv, dbVars
<1>6. FileInv'
  <2>1. \A k \in file' \ AuthorizedKeys : k \in stray' \/ (k \in file /\ k \notin stray /\ ~CallCovers(k))
    BY <1>1 DEF CallCovers
  <2> QED
    BY <2>1, FilesOnly DEF KInv
<1> QED
  BY <1>3, <1>4, <1>5, <1>6

LEMMA BeginInv == KInv /\ BeginCall => KInv'
<1> SUFFICES ASSUME KInv, BeginCall PROVE CallInv' /\ OutboxInv' /\ WorkerInv' /\ FileInv'
  BY BeginType DEF KInv
<1>1. ASSUME NEW k \in Keys, NEW s \in {"enable", "disable", "delete"},
             Lock([step |-> s, key |-> k]), UNCHANGED <<dbVars, file, worker, failures, stray>>,
             Exists(k), s # "delete" => Active(k)
      PROVE  CallInv' /\ OutboxInv' /\ WorkerInv' /\ FileInv'
  <2> DEFINE c == [step |-> s, key |-> k]
  <2>1. c \in Call /\ c.step = s /\ c.key = k
    BY DEF Call, KeyCalls
  <2>2. Lock(c)
    BY <1>1
  <2> HIDE DEF c
  <2> QED
    BY <1>1, <2>1, <2>2, LockInv
<1>2. ASSUME NEW u \in Users, Suspend(u)
      PROVE  CallInv' /\ OutboxInv' /\ WorkerInv' /\ FileInv'
  <2> DEFINE c == [step |-> "suspend", user |-> u,
                   todo |-> {k \in Keys : KeyOwner[k] = u /\ Exists(k)}]
  <2>1. c \in Call /\ c.step = "suspend"
    BY DEF Call
  <2>2. Lock(c) /\ UNCHANGED <<dbVars, file, worker, failures, stray>>
    BY <1>2 DEF Suspend
  <2> HIDE DEF c
  <2> QED
    BY <2>1, <2>2, LockInv
<1>3. ASSUME NEW u \in Users, Unsuspend(u)
      PROVE  CallInv' /\ OutboxInv' /\ WorkerInv' /\ FileInv'
  <2> DEFINE c == [step |-> "unsuspend", user |-> u]
  <2>1. c \in Call /\ c.step = "unsuspend"
    BY DEF Call
  <2>2. Lock(c) /\ UNCHANGED <<dbVars, file, worker, failures, stray>>
    BY <1>3 DEF Unsuspend
  <2> HIDE DEF c
  <2> QED
    BY <2>1, <2>2, LockInv
<1>4. ASSUME NEW k \in Keys, EnableKey(k) \/ DisableKey(k) \/ DeleteKey(k)
      PROVE  CallInv' /\ OutboxInv' /\ WorkerInv' /\ FileInv'
  BY <1>1, <1>4 DEF EnableKey, DisableKey, DeleteKey
<1> QED
  BY <1>2, <1>3, <1>4, AddKeyInv DEF BeginCall

-----------------------------------------------------------------------------
(* Steps of calls that change files                                        *)

AddSteps    == {"add", "addUndo", "addDrop"}
EnableSteps == {"enable", "enableCommit", "enableUndo"}

LEMMA GoOn ==
  ASSUME KInv, call # None, Continue, UNCHANGED dbVars,
         \/ Return
         \/ /\ call'.step # "sync"
            /\ call'.step \in AddSteps \cup EnableSteps => call'.key = call.key
            /\ call.step \in AddSteps <=> call'.step \in AddSteps
            /\ call'.step \in EnableSteps => call.step \in EnableSteps
            /\ call.step # "sync"
  PROVE  CallInv' /\ OutboxInv' /\ WorkerInv'
<1> USE DEF AddSteps, EnableSteps
<1>1. CallInv'
  BY DEF KInv, CallInv, Return, dbVars, Active, Exists
<1>2. OutboxInv'
  BY DEF KInv, OutboxInv, Return, dbVars, Continue
<1>3. WorkerInv'
  BY DEF KInv, WorkerInv, dbVars, Continue
<1> QED
  BY <1>1, <1>2, <1>3

\* Files may go, those that come are covered, and no covered one is left alone.
LEMMA FilesChange ==
  ASSUME KInv, Continue, UNCHANGED dbVars, stray \cap file' \subseteq stray',
         \A k \in file' \ AuthorizedKeys :
           k \in stray' \/ CallCovers(k)' \/ (k \in file /\ ~CallCovers(k))
  PROVE  FileInv'
  BY FilesOnly DEF KInv, Continue

LEMMA GotoKey ==
  ASSUME KInv, NEW s \in KeyCalls, Step(s), NEW t \in KeyCalls, Goto(t)
  PROVE  call'.step = t /\ call'.key = call.key
  BY KeyStep DEF KInv, Goto

LEMMA AddFiles ==
  ASSUME KInv, AddKeyWrite \/ AddKeyUndo
  PROVE  CallInv' /\ OutboxInv' /\ WorkerInv' /\ FileInv'
<1> USE DEF AddSteps, EnableSteps
<1>1. call # None /\ call.step \in {"add", "addUndo"} /\ Continue /\ UNCHANGED dbVars
  BY DEF AddKeyWrite, AddKeyUndo, Step
<1>2. Return \/ (call'.step \in {"addUndo", "addDrop"} /\ call'.key = call.key)
  BY GotoKey DEF AddKeyWrite, AddKeyUndo, KeyCalls
<1>3. CallInv' /\ OutboxInv' /\ WorkerInv'
  BY <1>1, <1>2, GoOn
<1>4. file' \subseteq file \cup {call.key} /\ stray \cap file' \subseteq stray'
  BY DEF AddKeyWrite, AddKeyUndo, WriteFile, RemoveFile, MaybeWrite, MaybeRemove, SetFile
<1>5. call.key \in AuthorizedKeys
  <2>1. call.key \in Keys
    BY <1>1, KeyStep DEF KInv, Step, KeyCalls
  <2> QED
    BY <1>1, <2>1 DEF KInv, CallInv, AuthorizedKeys
<1>6. FileInv'
  BY <1>1, <1>4, <1>5, FilesChange DEF CallCovers
<1> QED
  BY <1>3, <1>6

LEMMA EnableWrite ==
  ASSUME KInv, EnableKeyWrite
  PROVE  CallInv' /\ OutboxInv' /\ WorkerInv' /\ FileInv'
<1> USE DEF AddSteps, EnableSteps
<1>1. call # None /\ call.step = "enable" /\ Continue /\ UNCHANGED dbVars
  BY DEF EnableKeyWrite, Step
<1>2. Goto("enableCommit") => call'.step = "enableCommit" /\ call'.key = call.key
  BY GotoKey DEF EnableKeyWrite, KeyCalls
<1>3. CallInv' /\ OutboxInv' /\ WorkerInv'
  BY <1>1, <1>2, GoOn DEF EnableKeyWrite
<1>4. stray \cap file' \subseteq stray'
  BY DEF EnableKeyWrite, WriteFile, SetFile
<1>5. ASSUME WriteFile(call.key), Goto("enableCommit") PROVE FileInv'
  <2>1. call' # None
    <3>1. call.step \in KeyCalls /\ call' \in [step : KeyCalls, key : Keys]
      BY <1>1, <1>5, KeyStep DEF KInv, Step, KeyCalls, Goto
    <3> QED
      BY <3>1, NoneIsNoCall DEF Call
  <2>2. CallCovers(call.key)'
    BY <1>2, <1>5, <2>1 DEF CallCovers
  <2> QED
    BY <1>1, <1>2, <1>4, <1>5, <2>1, FilesChange DEF CallCovers, WriteFile, SetFile
<1>6. ASSUME UNCHANGED <<file, stray>> PROVE FileInv'
  BY <1>1, <1>4, <1>6, FilesChange DEF CallCovers
<1>7. ASSUME file' = file \cup {call.key},
             stray' = IF call.key \in AuthorizedKeys THEN stray ELSE stray \cup {call.key}
      PROVE  FileInv'
  BY <1>1, <1>4, <1>7, FilesChange DEF CallCovers
<1>8. FileInv'
  BY <1>5, <1>6, <1>7 DEF EnableKeyWrite
<1> QED
  BY <1>3, <1>8

LEMMA EnableUndo ==
  ASSUME KInv, EnableKeyUndo
  PROVE  CallInv' /\ OutboxInv' /\ WorkerInv' /\ FileInv'
<1>1. call # None /\ call.step = "enableUndo" /\ Continue /\ UNCHANGED dbVars /\ Return
  BY DEF EnableKeyUndo, Step
<1>2. CallInv' /\ OutboxInv' /\ WorkerInv'
  BY <1>1, GoOn
<1>3. ASSUME RemoveFile(call.key) PROVE FileInv'
  BY <1>1, <1>3, FilesChange DEF CallCovers, RemoveFile, SetFile
<1>4. ASSUME UNCHANGED file,
             stray' = IF call.key \in file \ AuthorizedKeys THEN stray \cup {call.key} ELSE stray
      PROVE  FileInv'
  BY <1>1, <1>4, FilesChange DEF CallCovers
<1>5. FileInv'
  BY <1>3, <1>4 DEF EnableKeyUndo
<1> QED
  BY <1>2, <1>5

LEMMA RevokeFiles ==
  ASSUME KInv, RevokeKeyRemove \/ SuspendRemove \/ Sync
  PROVE  CallInv' /\ OutboxInv' /\ WorkerInv' /\ FileInv'
<1> USE DEF AddSteps, EnableSteps
<1>1. call # None /\ call.step \in {"disable", "delete", "suspend", "sync"}
      /\ Continue /\ UNCHANGED dbVars
  BY DEF RevokeKeyRemove, SuspendRemove, Sync, Step
<1>2. ASSUME RevokeKeyRemove PROVE Return \/ call'.step \in {"disableCommit", "deleteCommit"}
  BY <1>2, GotoKey DEF RevokeKeyRemove, KeyCalls
<1>3. ASSUME SuspendRemove PROVE Return \/ call'.step = "suspend"
  BY <1>3, UserStep DEF SuspendRemove, KInv
<1>4. Sync => Return
  BY DEF Sync
<1>5. Return \/ (call'.step \in {"disableCommit", "deleteCommit", "suspend"} /\ ~Sync)
  BY <1>2, <1>3, <1>4
<1>6. call.step = "sync" => Return
  BY <1>1, <1>4 DEF RevokeKeyRemove, SuspendRemove, Step
<1>7. CallInv' /\ OutboxInv' /\ WorkerInv'
  BY <1>1, <1>5, <1>6, GoOn
<1>8. file' \subseteq file \cup AuthorizedKeys /\ stray \cap file' \subseteq stray'
  BY DEF RevokeKeyRemove, SuspendRemove, Sync, RemoveFile, MaybeRemove, SetFile, ReconcileFiles,
         MaybeReconcile
<1>9. FileInv'
  BY <1>1, <1>8, FilesChange DEF CallCovers
<1> QED
  BY <1>7, <1>9

-----------------------------------------------------------------------------
(* Transactions                                                            *)

\* Rows change, events are added; what is not covered by them was covered before.
LEMMA RowsChange ==
  ASSUME KInv, UNCHANGED <<file, worker>>, stray \subseteq stray', outbox \subseteq outbox',
         \A k \in file \ AuthorizedKeys' :
           \/ k \in stray'
           \/ CallCovers(k)'
           \/ \E i \in outbox' \ outbox : Removes(i, k)'
           \/ k \notin AuthorizedKeys /\ ~CallCovers(k) /\ (Exists(k) => Exists(k)')
  PROVE  FileInv'
<1> SUFFICES ASSUME NEW k \in file' \ AuthorizedKeys', k \notin stray', ~CallCovers(k)'
             PROVE  \E i \in outbox' : Removes(i, k)' /\ ~Finished(i)'
  BY DEF FileInv
<1>1. CASE \E i \in outbox' \ outbox : Removes(i, k)'
  <2>1. PICK i \in outbox' \ outbox : Removes(i, k)'
    BY <1>1
  <2>2. ~Finished(i)'
    BY <2>1 DEF Finished, KInv, WorkerInv
  <2> QED
    BY <2>1, <2>2
<1>2. CASE k \notin AuthorizedKeys /\ ~CallCovers(k) /\ (Exists(k) => Exists(k)')
  <2>1. PICK i \in outbox : Removes(i, k) /\ ~Finished(i)
    BY <1>2 DEF KInv, FileInv
  <2>2. Removes(i, k)' /\ ~Finished(i)'
    BY <1>2, <2>1 DEF Removes, Finished
  <2> QED
    BY <2>1, <2>2
<1> QED
  BY <1>1, <1>2

\* The keys that have a right after row k was set to st.
LEMMA RowSet ==
  ASSUME TypeOK, NEW k \in Keys, NEW st \in {"enabled", "disabled", "deleted"},
         keyState' = [keyState EXCEPT ![k] = st], UNCHANGED userStatus
  PROVE  /\ keyState'[k] = st
         /\ \A j \in Keys : j # k =>
             /\ keyState'[j] = keyState[j]
             /\ (Exists(j)' <=> Exists(j))
             /\ (j \in AuthorizedKeys' <=> j \in AuthorizedKeys)
         /\ (k \in AuthorizedKeys' <=> st = "enabled" /\ Active(k))
         /\ (Exists(k)' <=> st # "deleted")
<1>1. keyState'[k] = st /\ \A j \in Keys : j # k => keyState'[j] = keyState[j]
  BY DEF TypeOK
<1> QED
  BY <1>1 DEF AuthorizedKeys, Active, Exists

\* A transaction after which the call returns, or goes on without queueing.
LEMMA Committed ==
  ASSUME KInv, call # None, call.step \notin AddSteps \cup {"sync"}, Continue,
         \/ Return
         \/ call'.step = "sync"
         \/ UNCHANGED dbVars /\ call'.step = "enableUndo" /\ call'.key = call.key
              /\ call.step \in EnableSteps,
         outbox \subseteq outbox', \A i \in outbox' \ outbox : i.id = operations,
         \A i \in outbox' : i.kind = "remove" => keyState'[i.key] # "unused"
  PROVE  CallInv' /\ OutboxInv' /\ WorkerInv'
<1> USE DEF AddSteps, EnableSteps
<1>1. CallInv'
  BY DEF KInv, CallInv, Return, dbVars, Active, Exists
<1>2. operations \in Nat /\ \A i \in outbox : i.id < operations /\ i.id <= operations
  BY DEF KInv, OutboxInv, TypeOK
<1>3. OutboxInv'
  <2>1. \A i \in outbox' : i.id <= operations
    BY <1>2
  <2>2. UNCHANGED dbVars => outbox' = outbox
    BY DEF dbVars
  <2> QED
    BY <1>2, <2>1, <2>2 DEF OutboxInv, Return, Continue
<1>4. WorkerInv'
  BY DEF KInv, WorkerInv, Continue
<1> QED
  BY <1>1, <1>3, <1>4

\* What Queue adds is new.
LEMMA Queued ==
  ASSUME KInv, call # None, call.step \notin AddSteps \cup {"sync"},
         NEW kind \in {"write", "remove"}, NEW k \in Keys, NEW known \in BOOLEAN,
         Queue(kind, k, known)
  PROVE  \E n \in outbox' \ outbox :
           /\ n.id = operations /\ n.kind = kind /\ n.key = k /\ n.known = known /\ ~n.retried
           /\ outbox' = outbox \cup {n}
<1> DEFINE n == [id |-> operations, kind |-> kind, key |-> k, known |-> known, retried |-> FALSE]
<1>1. /\ outbox' = outbox \cup {n} /\ n.id = operations /\ n.kind = kind
      /\ n.key = k /\ n.known = known /\ ~n.retried
  BY DEF Queue
<1> HIDE DEF n
<1>2. n \notin outbox
  BY <1>1 DEF KInv, OutboxInv, TypeOK, AddSteps
<1> QED
  BY <1>1, <1>2

LEMMA QueuedReconcile ==
  ASSUME KInv, call # None, call.step \notin AddSteps \cup {"sync"}, QueueReconcile
  PROVE  \E n \in outbox' \ outbox :
           /\ n.id = operations /\ n.kind = "reconcile" /\ ~n.retried
           /\ outbox' = outbox \cup {n}
<1> DEFINE n == [id |-> operations, kind |-> "reconcile", retried |-> FALSE]
<1>1. outbox' = outbox \cup {n} /\ n.id = operations /\ n.kind = "reconcile" /\ ~n.retried
  BY DEF QueueReconcile
<1> HIDE DEF n
<1>2. n \notin outbox
  BY <1>1 DEF KInv, OutboxInv, TypeOK, AddSteps
<1> QED
  BY <1>1, <1>2

LEMMA KeysOfItems ==
  ASSUME TypeOK
  PROVE  \A i \in outbox : i.kind = "remove" => i.key \in Keys
  BY ItemType DEF TypeOK

LEMMA EnableCommitInv ==
  ASSUME KInv, EnableKeyCommit
  PROVE  CallInv' /\ OutboxInv' /\ WorkerInv' /\ FileInv'
<1> USE DEF AddSteps, EnableSteps
<1>1. /\ call # None /\ call.step = "enableCommit" /\ Continue /\ call.key \in Keys
      /\ UNCHANGED <<userStatus, file, worker, stray>>
  BY KeyStep DEF EnableKeyCommit, Step, KInv, KeyCalls, Continue
<1>2. Exists(call.key) /\ Active(call.key)
  BY <1>1 DEF KInv, CallInv
<1>3. CASE Return /\ keyState[call.key] = "disabled"
           /\ keyState' = [keyState EXCEPT ![call.key] = "enabled"]
           /\ Queue("write", call.key, FALSE)
  <2>1. PICK n \in outbox' \ outbox :
          n.id = operations /\ n.kind = "write" /\ outbox' = outbox \cup {n}
    BY <1>1, <1>3, Queued
  <2>2. TypeOK
    BY DEF KInv
  <2>3. /\ keyState'[call.key] = "enabled"
        /\ \A j \in Keys : j # call.key =>
             /\ keyState'[j] = keyState[j]
             /\ (Exists(j)' <=> Exists(j))
             /\ (j \in AuthorizedKeys' <=> j \in AuthorizedKeys)
        /\ call.key \in AuthorizedKeys'
    BY <1>1, <1>2, <1>3, <2>2, RowSet
  <2>4. \A i \in outbox' : i.kind = "remove" => keyState'[i.key] # "unused"
    BY <2>1, <2>2, <2>3, KeysOfItems DEF KInv, OutboxInv
  <2>5. CallInv' /\ OutboxInv' /\ WorkerInv'
    BY <1>1, <1>3, <2>1, <2>4, Committed
  <2>6. \A k \in file \ AuthorizedKeys' :
          k \notin AuthorizedKeys /\ ~CallCovers(k) /\ (Exists(k) => Exists(k)')
    BY <2>2, <2>3 DEF TypeOK, CallCovers
  <2> QED
    BY <1>1, <2>1, <2>5, <2>6, RowsChange
<1>4. CASE Return /\ keyState[call.key] # "disabled" /\ UNCHANGED dbVars
  <2>1. CallInv' /\ OutboxInv' /\ WorkerInv'
    BY <1>1, <1>4, GoOn
  <2>2. call.key \in AuthorizedKeys
    BY <1>1, <1>2, <1>4 DEF Exists, AuthorizedKeys
  <2>3. FileInv'
    BY <1>1, <1>4, <2>2, FilesChange DEF CallCovers
  <2> QED
    BY <2>1, <2>3
<1>5. CASE Goto("enableUndo") /\ UNCHANGED dbVars
  <2>1. call'.step = "enableUndo" /\ call'.key = call.key
    BY <1>5, GotoKey DEF EnableKeyCommit, KeyCalls
  <2>2. CallInv' /\ OutboxInv' /\ WorkerInv'
    BY <1>1, <1>5, <2>1, GoOn
  <2>3. call' # None
    <3>1. call' \in [step : KeyCalls, key : Keys]
      BY <1>1, <1>5, KeyStep DEF KInv, Step, KeyCalls, Goto
    <3> QED
      BY <3>1, NoneIsNoCall DEF Call
  <2>4. FileInv'
    BY <1>1, <1>5, <2>1, <2>3, FilesChange DEF CallCovers
  <2> QED
    BY <2>2, <2>4
<1>6. \/ Return /\ keyState[call.key] = "disabled"
        /\ keyState' = [keyState EXCEPT ![call.key] = "enabled"]
        /\ Queue("write", call.key, FALSE)
      \/ Return /\ keyState[call.key] # "disabled" /\ UNCHANGED <<keyState, outbox>>
      \/ Goto("enableUndo") /\ UNCHANGED <<keyState, outbox>>
  BY DEF EnableKeyCommit
<1> QED
  BY <1>1, <1>3, <1>4, <1>5, <1>6 DEF dbVars

\* A row is set, and the removal of its file queued.
LEMMA RevokeCommit ==
  ASSUME KInv, call # None, call.step \in {"disableCommit", "deleteCommit"}, Continue, Return,
         NEW k \in Keys, NEW st \in {"disabled", "deleted"}, NEW known \in BOOLEAN,
         st = "deleted" => known,
         keyState' = [keyState EXCEPT ![k] = st], UNCHANGED <<userStatus, file, stray>>,
         Queue("remove", k, known)
  PROVE  CallInv' /\ OutboxInv' /\ WorkerInv' /\ FileInv'
<1> USE DEF AddSteps, EnableSteps
<1>1. PICK n \in outbox' \ outbox :
        /\ n.id = operations /\ n.kind = "remove" /\ n.key = k /\ n.known = known
        /\ outbox' = outbox \cup {n}
  BY Queued
<1>2. TypeOK /\ UNCHANGED worker
  BY DEF KInv, Continue
<1>3. /\ keyState'[k] = st
      /\ \A j \in Keys : j # k =>
           /\ keyState'[j] = keyState[j]
           /\ (Exists(j)' <=> Exists(j))
           /\ (j \in AuthorizedKeys' <=> j \in AuthorizedKeys)
      /\ (Exists(k)' <=> st # "deleted")
  BY <1>2, RowSet
<1>4. \A i \in outbox' : i.kind = "remove" => keyState'[i.key] # "unused"
  BY <1>1, <1>2, <1>3, KeysOfItems DEF KInv, OutboxInv
<1>5. CallInv' /\ OutboxInv' /\ WorkerInv'
  BY <1>1, <1>4, Committed
<1>6. Removes(n, k)'
  BY <1>1, <1>3 DEF Removes
<1>7. ASSUME NEW j \in file \ AuthorizedKeys', j # k
      PROVE  j \notin AuthorizedKeys /\ ~CallCovers(j) /\ (Exists(j) => Exists(j)')
  BY <1>2, <1>3, <1>7 DEF TypeOK, CallCovers
<1>8. FileInv'
  BY <1>1, <1>2, <1>6, <1>7, RowsChange
<1> QED
  BY <1>5, <1>8

LEMMA DisableInv ==
  ASSUME KInv, DisableKeyCommit
  PROVE  CallInv' /\ OutboxInv' /\ WorkerInv' /\ FileInv'
<1> USE DEF AddSteps, EnableSteps
<1>1. /\ call # None /\ call.step = "disableCommit" /\ Continue /\ Return /\ call.key \in Keys
      /\ UNCHANGED <<userStatus, file, stray>>
  BY KeyStep DEF DisableKeyCommit, Step, KInv, KeyCalls
<1>2. CASE /\ keyState' = [keyState EXCEPT ![call.key] = "disabled"]
           /\ Queue("remove", call.key, FALSE)
  BY <1>1, <1>2, RevokeCommit
<1>3. CASE UNCHANGED <<keyState, outbox>>
  <2>1. UNCHANGED dbVars
    BY <1>1, <1>3 DEF dbVars
  <2>2. CallInv' /\ OutboxInv' /\ WorkerInv'
    BY <1>1, <2>1, GoOn
  <2>3. FileInv'
    BY <1>1, <2>1, FilesChange DEF CallCovers
  <2> QED
    BY <2>2, <2>3
<1> QED
  BY <1>2, <1>3 DEF DisableKeyCommit

LEMMA DeleteInv ==
  ASSUME KInv, DeleteKeyCommit
  PROVE  CallInv' /\ OutboxInv' /\ WorkerInv' /\ FileInv'
<1> USE DEF AddSteps, EnableSteps
<1>1. /\ call # None /\ call.step = "deleteCommit" /\ Continue /\ Return /\ call.key \in Keys
      /\ UNCHANGED <<userStatus, file, stray>>
  BY KeyStep DEF DeleteKeyCommit, Step, KInv, KeyCalls
<1>2. CASE /\ keyState' = [keyState EXCEPT ![call.key] = "deleted"]
           /\ Queue("remove", call.key, TRUE)
  BY <1>1, <1>2, RevokeCommit
<1>3. CASE UNCHANGED <<keyState, outbox>>
  <2>1. UNCHANGED dbVars
    BY <1>1, <1>3 DEF dbVars
  <2>2. CallInv' /\ OutboxInv' /\ WorkerInv'
    BY <1>1, <2>1, GoOn
  <2>3. FileInv'
    BY <1>1, <2>1, FilesChange DEF CallCovers
  <2> QED
    BY <2>2, <2>3
<1> QED
  BY <1>2, <1>3 DEF DeleteKeyCommit

\* What AddKey leaves of a file when it takes the row back is a stray.
LEMMA DropInv ==
  ASSUME KInv, AddKeyDrop
  PROVE  CallInv' /\ OutboxInv' /\ WorkerInv' /\ FileInv'
<1> USE DEF AddSteps, EnableSteps
<1>1. /\ call # None /\ call.step = "addDrop" /\ Continue /\ Return /\ call.key \in Keys
      /\ UNCHANGED <<userStatus, outbox, file>>
  BY KeyStep DEF AddKeyDrop, Step, KInv, KeyCalls
<1>2. TypeOK /\ UNCHANGED worker
  BY <1>1 DEF KInv, Continue
<1>3. ASSUME NEW st \in {"deleted", "disabled"},
             keyState' = [keyState EXCEPT ![call.key] = st],
             stray' = stray \cup (file \cap {call.key})
      PROVE  CallInv' /\ OutboxInv' /\ WorkerInv' /\ FileInv'
  <2>1. /\ keyState'[call.key] = st
        /\ \A j \in Keys : j # call.key =>
             /\ keyState'[j] = keyState[j]
             /\ (Exists(j)' <=> Exists(j))
             /\ (j \in AuthorizedKeys' <=> j \in AuthorizedKeys)
    BY <1>1, <1>2, <1>3, RowSet
  <2>2. OutboxInv'
    BY <1>1, <1>2, <2>1, KeysOfItems DEF KInv, OutboxInv, Return, Continue
  <2>3. CallInv' /\ WorkerInv'
    BY <1>1 DEF KInv, CallInv, WorkerInv, Return, Continue
  <2>4. ASSUME NEW j \in file \ AuthorizedKeys'
        PROVE  j \in stray' \/ (j \notin AuthorizedKeys /\ ~CallCovers(j) /\ (Exists(j) => Exists(j)'))
    BY <1>1, <1>2, <1>3, <2>1 DEF TypeOK, CallCovers
  <2>5. FileInv'
    BY <1>1, <1>2, <1>3, <2>4, RowsChange
  <2> QED
    BY <2>2, <2>3, <2>5
<1>4. CASE UNCHANGED <<keyState, stray>>
  <2>1. UNCHANGED dbVars
    BY <1>1, <1>4 DEF dbVars
  <2>2. CallInv' /\ OutboxInv' /\ WorkerInv'
    BY <1>1, <2>1, GoOn
  <2>3. FileInv'
    BY <1>1, <1>4, <2>1, FilesChange DEF CallCovers
  <2> QED
    BY <2>2, <2>3
<1> QED
  BY <1>3, <1>4 DEF AddKeyDrop

LEMMA SuspendInv ==
  ASSUME KInv, SuspendCommit \/ UnsuspendCommit
  PROVE  CallInv' /\ OutboxInv' /\ WorkerInv' /\ FileInv'
<1> USE DEF AddSteps, EnableSteps
<1>1. /\ call # None /\ call.step \in {"suspend", "unsuspend"} /\ Continue
      /\ UNCHANGED <<keyState, file, stray>>
  BY DEF SuspendCommit, UnsuspendCommit, Step
<1>2. Return \/ call'.step = "sync"
  BY UserStep DEF SuspendCommit, UnsuspendCommit, Goto, KInv
<1>3. CASE QueueReconcile
  <2>1. PICK n \in outbox' \ outbox :
          n.id = operations /\ n.kind = "reconcile" /\ outbox' = outbox \cup {n}
    BY <1>1, <1>3, QueuedReconcile
  <2>2. \A i \in outbox' : i.kind = "remove" => keyState'[i.key] # "unused"
    BY <1>1, <2>1 DEF KInv, OutboxInv
  <2>3. CallInv' /\ OutboxInv' /\ WorkerInv'
    BY <1>1, <1>2, <2>1, <2>2, Committed
  <2>4. \A k \in file : Removes(n, k)'
    BY <2>1 DEF Removes
  <2>5. FileInv'
    BY <1>1, <2>1, <2>4, RowsChange DEF Continue
  <2> QED
    BY <2>3, <2>5
<1>4. CASE UNCHANGED <<userStatus, outbox>>
  <2>1. UNCHANGED dbVars
    BY <1>1, <1>4 DEF dbVars
  <2>2. CallInv' /\ OutboxInv' /\ WorkerInv'
    BY <1>1, <1>2, <1>4, Committed DEF KInv, OutboxInv
  <2>3. FileInv'
    BY <1>1, <2>1, FilesChange DEF CallCovers
  <2> QED
    BY <2>2, <2>3
<1> QED
  BY <1>3, <1>4 DEF SuspendCommit, UnsuspendCommit

LEMMA ContinueInv == KInv /\ ContinueCall => KInv'
<1> SUFFICES ASSUME KInv, ContinueCall PROVE CallInv' /\ OutboxInv' /\ WorkerInv' /\ FileInv'
  BY ContinueType DEF KInv
<1> QED
  BY AddFiles, EnableWrite, EnableUndo, RevokeFiles, EnableCommitInv, DisableInv, DeleteInv,
     DropInv, SuspendInv
  DEF ContinueCall

-----------------------------------------------------------------------------
(* The worker                                                              *)

\* A failed event comes back as one that does the same.
LEMMA RetryInv ==
  ASSUME KInv, NEW i \in outbox, Retry(i), UNCHANGED <<keyState, userStatus, call, operations>>
  PROVE  /\ CallInv' /\ OutboxInv' /\ WorkerInv'
         /\ \A j \in outbox, k \in Keys : Removes(j, k) =>
              \E m \in outbox' : Removes(m, k)' /\ ~Finished(m)'
<1> DEFINE again == [i EXCEPT !.retried = TRUE]
<1>1. outbox' = (outbox \ {i}) \cup {again} /\ worker' = None
  BY DEF Retry
<1>2. /\ again.id = i.id /\ again.kind = i.kind
      /\ i.kind \in {"write", "remove", "reconcile"}
      /\ i.kind # "reconcile" => again.key = i.key /\ again.known = i.known
  BY ItemType DEF KInv, TypeOK
<1> HIDE DEF again
<1>3. CallInv'
  BY DEF KInv, CallInv, Active, Exists
<1>4. OutboxInv'
  BY <1>1, <1>2 DEF KInv, OutboxInv
<1>5. WorkerInv'
  BY <1>1 DEF WorkerInv
<1>6. ASSUME NEW j \in outbox, NEW k \in Keys, Removes(j, k)
      PROVE  \E m \in outbox' : Removes(m, k)' /\ ~Finished(m)'
  <2>1. \A m : ~Finished(m)'
    BY <1>1 DEF Finished
  <2>2. CASE j # i
    BY <1>1, <1>6, <2>1, <2>2 DEF Removes, Exists
  <2>3. CASE j = i
    <3>1. Removes(again, k)'
      BY <1>2, <1>6, <2>3 DEF Removes, Exists
    <3> QED
      BY <1>1, <2>1, <3>1
  <2> QED
    BY <2>2, <2>3
<1> QED
  BY <1>3, <1>4, <1>5, <1>6

LEMMA SameRights ==
  ASSUME UNCHANGED <<keyState, userStatus, call>>
  PROVE  /\ AuthorizedKeys' = AuthorizedKeys
         /\ \A k : CallCovers(k)' <=> CallCovers(k)
         /\ \A i, k : Removes(i, k)' <=> Removes(i, k)
  BY DEF AuthorizedKeys, Active, CallCovers, Removes, Exists

LEMMA ReadInv ==
  ASSUME KInv, WorkerRead
  PROVE  CallInv' /\ OutboxInv' /\ WorkerInv' /\ FileInv'
<1>1. UNCHANGED <<keyState, userStatus, file, call, operations, stray>> /\ worker = None
  BY DEF WorkerRead
<1>2. file \subseteq Keys
  BY DEF KInv, TypeOK
<1>3. PICK i \in outbox :
        \/ /\ UNCHANGED outbox
           /\ \/ i.kind # "remove" /\ worker'.item = i /\ (worker'.done => i.kind = "write")
              \/ i.kind = "remove" /\ worker' = [item |-> i, read |-> {i.key}, done |-> FALSE]
              \/ i.kind = "remove" /\ ~(i.known \/ Exists(i.key)) /\ worker'.item = i /\ worker'.done
        \/ Retry(i)
  BY DEF WorkerRead, Begin, NothingToDo
<1>4. CASE Retry(i)
  <2>1. CallInv' /\ OutboxInv' /\ WorkerInv'
        /\ \A j \in outbox, k \in Keys : Removes(j, k) =>
             \E m \in outbox' : Removes(m, k)' /\ ~Finished(m)'
    BY <1>1, <1>4, RetryInv
  <2>2. FileInv'
    BY <1>1, <1>2, <2>1, SameRights DEF KInv, FileInv
  <2> QED
    BY <2>1, <2>2
<1>5. CASE /\ UNCHANGED outbox
           /\ \/ i.kind # "remove" /\ worker'.item = i /\ (worker'.done => i.kind = "write")
              \/ i.kind = "remove" /\ worker' = [item |-> i, read |-> {i.key}, done |-> FALSE]
              \/ i.kind = "remove" /\ ~(i.known \/ Exists(i.key)) /\ worker'.item = i /\ worker'.done
  <2>1. CallInv' /\ OutboxInv'
    BY <1>1, <1>5 DEF KInv, CallInv, OutboxInv, Active, Exists
  <2>2. WorkerInv'
    BY <1>5 DEF WorkerInv
  <2>3. ASSUME NEW j \in outbox, NEW k \in Keys, Removes(j, k)
        PROVE  ~Finished(j)'
    BY <1>5, <2>3 DEF Finished, Removes
  <2>4. FileInv'
    BY <1>1, <1>2, <1>5, <2>3, SameRights DEF KInv, FileInv
  <2> QED
    BY <2>1, <2>2, <2>4
<1> QED
  BY <1>3, <1>4, <1>5

\* Whoever applies an event leaves files that others will remove, or strays.
LEMMA ApplyInv ==
  ASSUME KInv, WorkerApply
  PROVE  CallInv' /\ OutboxInv' /\ WorkerInv' /\ FileInv'
<1> DEFINE i == worker.item
<1>1. /\ worker # None /\ ~worker.done /\ i \in outbox
      /\ worker \in [item : Item, read : SUBSET Keys, done : BOOLEAN]
      /\ i.kind \in {"write", "remove", "reconcile"}
      /\ i.kind = "remove" => worker.read = {i.key}
  BY ItemType DEF WorkerApply, KInv, WorkerInv, TypeOK
<1>2. UNCHANGED <<keyState, userStatus, call, operations>> /\ NoteStrays
  BY DEF WorkerApply
<1>3. /\ \A k \in file' : k \in file \/ (i.kind # "remove" /\ k \in worker.read)
      /\ file' \subseteq Keys
  <2>1. file' \subseteq file \cup worker.read /\ (i.kind = "remove" => file' \subseteq file)
    BY <1>1 DEF WorkerApply
  <2> QED
    BY <1>1, <2>1 DEF KInv, TypeOK
\* Files that are nobody's business any more but that of an event.
<1>4. ASSUME NEW k \in file' \ AuthorizedKeys, k \notin stray', ~CallCovers(k)
      PROVE  \/ k \in file /\ \E j \in outbox : Removes(j, k)
             \/ k \in worker.read /\ \E j \in outbox \ {i} : Removes(j, k)
  <2>1. CASE k \in file
    <3>1. k \notin stray
      BY <1>2, <1>4 DEF NoteStrays
    <3> QED
      BY <1>4, <2>1, <3>1 DEF KInv, FileInv
  <2>2. CASE i.kind # "remove" /\ k \in worker.read
    BY <1>2, <1>4, <2>2 DEF NoteStrays
  <2> QED
    BY <1>3, <1>4, <2>1, <2>2
<1>5. CASE Retry(i)
  <2>1. CallInv' /\ OutboxInv' /\ WorkerInv'
        /\ \A j \in outbox, k \in Keys : Removes(j, k) =>
             \E m \in outbox' : Removes(m, k)' /\ ~Finished(m)'
    BY <1>1, <1>2, <1>5, RetryInv
  <2>2. FileInv'
    BY <1>2, <1>3, <1>4, <2>1, SameRights DEF FileInv
  <2> QED
    BY <2>1, <2>2
<1>6. CASE /\ file' = CASE i.kind = "write"     -> file \cup worker.read
                        [] i.kind = "remove"    -> file \ worker.read
                        [] i.kind = "reconcile" -> worker.read
           /\ worker' = [worker EXCEPT !.done = TRUE]
           /\ UNCHANGED outbox
  <2>1. worker'.item = i /\ worker'.done
    BY <1>1, <1>6
  <2>2. CallInv' /\ OutboxInv' /\ WorkerInv'
    BY <1>1, <1>2, <1>6, <2>1 DEF KInv, CallInv, OutboxInv, WorkerInv, Active, Exists
  <2>3. ASSUME NEW k \in file' \ AuthorizedKeys, k \notin stray', ~CallCovers(k)
        PROVE  \E j \in outbox \ {i} : Removes(j, k)
    <3>1. CASE i.kind # "remove" /\ k \in worker.read
      BY <1>2, <2>3, <3>1 DEF NoteStrays
    <3>2. CASE i.kind = "remove"
      <4>1. k # i.key
        BY <1>1, <1>6, <2>3, <3>2
      <4>2. ~Removes(i, k)
        BY <3>2, <4>1 DEF Removes
      <4>3. k \in file
        BY <1>6, <2>3, <3>2
      <4>4. k \notin stray
        BY <1>2, <2>3 DEF NoteStrays
      <4>5. PICK j \in outbox : Removes(j, k)
        BY <2>3, <4>3, <4>4 DEF KInv, FileInv
      <4> QED
        BY <4>2, <4>5
    <3>3. CASE i.kind = "write" /\ k \notin worker.read
      <4>1. ~Removes(i, k)
        BY <3>3 DEF Removes
      <4>2. PICK j \in outbox : Removes(j, k)
        BY <1>4, <2>3, <3>3
      <4> QED
        BY <4>1, <4>2
    <3>4. CASE i.kind = "reconcile" /\ k \notin worker.read
      BY <1>6, <2>3, <3>4
    <3> QED
      BY <1>1, <3>1, <3>2, <3>3, <3>4
  <2>4. \A j \in outbox \ {i} : ~Finished(j)'
    BY <2>1 DEF Finished
  <2>5. FileInv'
    BY <1>2, <1>6, <2>3, <2>4, SameRights DEF FileInv
  <2> QED
    BY <2>2, <2>5
<1> QED
  BY <1>5, <1>6 DEF WorkerApply

LEMMA CompleteInv ==
  ASSUME KInv, WorkerComplete
  PROVE  CallInv' /\ OutboxInv' /\ WorkerInv' /\ FileInv'
<1> DEFINE i == worker.item
<1>1. UNCHANGED <<keyState, userStatus, file, call, operations, stray>>
      /\ worker # None /\ worker.done /\ i \in outbox /\ file \subseteq Keys
  BY DEF WorkerComplete, KInv, WorkerInv, TypeOK
<1>2. CASE Retry(i)
  <2>1. CallInv' /\ OutboxInv' /\ WorkerInv'
        /\ \A j \in outbox, k \in Keys : Removes(j, k) =>
             \E m \in outbox' : Removes(m, k)' /\ ~Finished(m)'
    BY <1>1, <1>2, RetryInv
  <2>2. FileInv'
    BY <1>1, <2>1, SameRights DEF KInv, FileInv
  <2> QED
    BY <2>1, <2>2
<1>3. CASE outbox' = outbox \ {i} /\ worker' = None
  <2>1. CallInv' /\ OutboxInv' /\ WorkerInv'
    BY <1>1, <1>3 DEF KInv, CallInv, OutboxInv, WorkerInv, Active, Exists
  <2>2. \A j \in outbox : ~Finished(j) => j \in outbox' /\ ~Finished(j)'
    BY <1>1, <1>3 DEF Finished
  <2>3. FileInv'
    BY <1>1, <2>2, SameRights DEF KInv, FileInv
  <2> QED
    BY <2>1, <2>3
<1> QED
  BY <1>2, <1>3 DEF WorkerComplete

LEMMA RestartInv ==
  ASSUME KInv, Restart
  PROVE  CallInv' /\ OutboxInv' /\ WorkerInv' /\ FileInv'
<1>1. file' = AuthorizedKeys /\ call' = None /\ worker' = None /\ UNCHANGED <<dbVars, operations>>
  BY DEF Restart, SetFile
<1>2. AuthorizedKeys' = AuthorizedKeys
  BY <1>1 DEF AuthorizedKeys, Active, dbVars
<1> QED
  BY <1>1, <1>2 DEF KInv, CallInv, OutboxInv, WorkerInv, FileInv, dbVars

LEMMA NextInv == KInv /\ [Next]_vars => KInv'
<1>1. KInv /\ UNCHANGED vars => KInv'
  BY DEF KInv, TypeOK, CallInv, OutboxInv, WorkerInv, FileInv, Finished, CallCovers, Removes,
         AuthorizedKeys, Active, Exists, vars, dbVars
<1>2. KInv /\ Work => KInv'
  BY WorkType, ReadInv, ApplyInv, CompleteInv DEF KInv, Work
<1>3. KInv /\ Restart => KInv'
  BY RestartType, RestartInv DEF KInv
<1> QED
  BY <1>1, <1>2, <1>3, BeginInv, ContinueInv DEF Next

\* A file that lets a withdrawn key log in is about to be removed or is one of
\* the strays that the model names, whatever calls, failures, retries and
\* restarts there are. FileInv does not count the event the worker has done.
THEOREM WithdrawnFilesPending == Spec => []WithdrawnFileIsPending
<1>1. KInv => WithdrawnFileIsPending
  BY DEF KInv, FileInv, WithdrawnFileIsPending, CallCovers
<1> QED
  BY <1>1, InitInv, NextInv, PTL DEF Spec

-----------------------------------------------------------------------------
(* Exact files, as long as nothing has failed                              *)

\* An event that will give k a file, if it is to have one.
Adds(i, k) == i.kind = "reconcile" \/ (i.kind = "write" /\ i.key = k)

\* An event after which k has a file if and only if it has the right.
Corrects(i, k) == IF k \in AuthorizedKeys THEN Adds(i, k) ELSE Removes(i, k)

\* The call in progress is about to change the right of k, after the file.
CallCorrects(k) ==
  /\ call # None
  /\ \/ k \notin AuthorizedKeys /\ call.step = "enableCommit" /\ call.key = k
     \/ k \in AuthorizedKeys /\ call.step \in {"disableCommit", "deleteCommit"} /\ call.key = k
     \/ k \in AuthorizedKeys /\ call.step = "suspend" /\ KeyOwner[k] = call.user

\* No call is on a way back, and a suspension looks at the files of its user.
ForwardInv ==
  call # None =>
    /\ call.step \notin {"addUndo", "addDrop", "enableUndo"}
    /\ call.step = "suspend" => \A k \in call.todo : KeyOwner[k] = call.user

\* Events have ids of their own, and the worker is at the first of them.
TurnInv ==
  /\ \A i \in outbox : ~i.retried
  /\ \A i, j \in outbox : i.id = j.id => i = j
  /\ worker # None =>
       /\ \A j \in outbox : worker.item.id <= j.id
       /\ ~worker.done /\ worker.item.kind = "write" => worker.read = {worker.item.key}

\* An event that is out of date is corrected by a later one; so is what the
\* worker has read for a reconciliation.
LaterInv ==
  /\ \A i \in outbox :
       i.kind # "reconcile" /\ ~(i.kind = "write" <=> i.key \in AuthorizedKeys) =>
         \E j \in outbox : i.id < j.id /\ Corrects(j, i.key)
  /\ worker # None /\ ~worker.done /\ worker.item.kind = "reconcile" =>
       \A k \in Keys : ~(k \in worker.read <=> k \in AuthorizedKeys) =>
         \E j \in outbox \ {worker.item} : Corrects(j, k)

\* So is every file that is missing or too many, if the call does not see to it.
CorrectInv ==
  \A k \in Keys : ~(k \in file <=> k \in AuthorizedKeys) =>
    \/ CallCorrects(k)
    \/ \E i \in outbox : Corrects(i, k) /\ ~Finished(i)

ExactInv == ForwardInv /\ TurnInv /\ LaterInv /\ CorrectInv

LEMMA ExactInit == Init => ExactInv
  BY DEF Init, ExactInv, ForwardInv, TurnInv, LaterInv, CorrectInv, AuthorizedKeys

LEMMA ExactImplies == TypeOK /\ ExactInv => SettledFilesAreExact
<1> SUFFICES ASSUME TypeOK, CorrectInv, Settled PROVE file = AuthorizedKeys
  BY DEF ExactInv, SettledFilesAreExact
<1>1. \A k \in Keys : k \in file <=> k \in AuthorizedKeys
  BY DEF CorrectInv, Settled, CallCorrects
<1> QED
  BY <1>1 DEF TypeOK, AuthorizedKeys

LEMMA SameCorrects ==
  ASSUME UNCHANGED <<keyState, userStatus>>
  PROVE  /\ AuthorizedKeys' = AuthorizedKeys
         /\ \A i, k : Corrects(i, k)' <=> Corrects(i, k)
  BY DEF AuthorizedKeys, Active, Corrects, Adds, Removes, Exists

\* Files change in a call: what is wrong then was wrong before, or the call
\* sees to it.
LEMMA FilesExact ==
  ASSUME ExactInv, UNCHANGED <<dbVars, worker>>, ForwardInv',
         \A k \in Keys : ~(k \in file' <=> k \in AuthorizedKeys) =>
           CallCorrects(k)' \/ (~(k \in file <=> k \in AuthorizedKeys) /\ ~CallCorrects(k))
  PROVE  ExactInv'
<1>1. AuthorizedKeys' = AuthorizedKeys /\ \A i, k : Corrects(i, k)' <=> Corrects(i, k)
  BY SameCorrects DEF dbVars
<1>2. TurnInv'
  BY DEF ExactInv, TurnInv, dbVars
<1>3. LaterInv'
  BY <1>1 DEF ExactInv, LaterInv, dbVars
<1>4. \A i : Finished(i)' <=> Finished(i)
  BY DEF Finished
<1>5. CorrectInv'
  BY <1>1, <1>4 DEF ExactInv, CorrectInv, dbVars
<1> QED
  BY <1>2, <1>3, <1>5 DEF ExactInv

\* A transaction queues event n, which corrects whatever the transaction changes.
LEMMA QueueExact ==
  ASSUME KInv, ExactInv, NEW n, outbox' = outbox \cup {n}, ~n.retried,
         \A i \in outbox : i.id < n.id, n.id \in Nat,
         UNCHANGED <<file, worker>>, ForwardInv',
         n.kind # "reconcile" => n.key \in Keys /\ (n.kind = "write" <=> n.key \in AuthorizedKeys'),
         \A k \in Keys :
           \/ Corrects(n, k)'
           \/ /\ k \in AuthorizedKeys' <=> k \in AuthorizedKeys
              /\ Exists(k) => Exists(k)'
              /\ ~CallCorrects(k)
  PROVE  ExactInv'
<1>0. \A i \in outbox : i.id \in Nat /\ (i.kind # "reconcile" => i.key \in Keys)
  BY ItemType DEF KInv, TypeOK
<1>1. ASSUME NEW i \in outbox, NEW k \in Keys, Corrects(i, k)
      PROVE  Corrects(i, k)' \/ Corrects(n, k)'
  BY <1>1 DEF Corrects, Adds, Removes
<1>2. n \notin outbox
  BY <1>0
<1>3. TurnInv'
  <2>1. \A i, j \in outbox' : i.id = j.id => i = j
    BY <1>0 DEF ExactInv, TurnInv
  <2>2. worker # None => worker.item \in outbox
    BY DEF KInv, WorkerInv
  <2>3. worker' # None => \A j \in outbox' : worker'.item.id <= j.id
    BY <1>0, <2>2 DEF ExactInv, TurnInv
  <2> QED
    BY <2>1, <2>3 DEF ExactInv, TurnInv
<1>4. ASSUME NEW k \in Keys
      PROVE  \/ Corrects(n, k)'
             \/ /\ k \in AuthorizedKeys' <=> k \in AuthorizedKeys
                /\ \A i \in outbox : Corrects(i, k) => Corrects(i, k)' \/ Corrects(n, k)'
                /\ ~CallCorrects(k)
  BY <1>1
<1>5. LaterInv'
  <2>1. ASSUME NEW i \in outbox', i.kind # "reconcile",
               ~(i.kind = "write" <=> i.key \in AuthorizedKeys')
        PROVE  \E j \in outbox' : i.id < j.id /\ Corrects(j, i.key)'
    <3>1. i \in outbox /\ i.key \in Keys
      BY <1>0, <2>1
    <3>2. CASE Corrects(n, i.key)'
      BY <3>1, <3>2
    <3>3. CASE /\ i.key \in AuthorizedKeys' <=> i.key \in AuthorizedKeys
               /\ \A j \in outbox : Corrects(j, i.key) => Corrects(j, i.key)' \/ Corrects(n, i.key)'
      <4>1. PICK j \in outbox : i.id < j.id /\ Corrects(j, i.key)
        BY <2>1, <3>1, <3>3 DEF ExactInv, LaterInv
      <4> QED
        BY <3>1, <3>3, <4>1
    <3> QED
      BY <1>4, <3>1, <3>2, <3>3
  <2>2. ASSUME worker' # None, ~worker'.done, worker'.item.kind = "reconcile", NEW k \in Keys,
               ~(k \in worker'.read <=> k \in AuthorizedKeys')
        PROVE  \E j \in outbox' \ {worker'.item} : Corrects(j, k)'
    <3>1. worker.item \in outbox
      BY <2>2 DEF KInv, WorkerInv
    <3>2. CASE Corrects(n, k)'
      BY <1>2, <3>1, <3>2
    <3>3. CASE /\ k \in AuthorizedKeys' <=> k \in AuthorizedKeys
               /\ \A i \in outbox : Corrects(i, k) => Corrects(i, k)' \/ Corrects(n, k)'
      <4>1. PICK j \in outbox \ {worker.item} : Corrects(j, k)
        BY <2>2, <3>3 DEF ExactInv, LaterInv
      <4> QED
        BY <1>2, <3>1, <3>3, <4>1
    <3> QED
      BY <1>4, <3>2, <3>3
  <2> QED
    BY <2>1, <2>2 DEF LaterInv
<1>6. ASSUME NEW k \in Keys, ~(k \in file' <=> k \in AuthorizedKeys')
      PROVE  \E i \in outbox' : Corrects(i, k)' /\ ~Finished(i)'
  <2>0. ~Finished(n)' /\ \A i : Finished(i)' <=> Finished(i)
    BY <1>2 DEF Finished, KInv, WorkerInv
  <2>1. CASE Corrects(n, k)'
    BY <2>0, <2>1
  <2>2. CASE /\ k \in AuthorizedKeys' <=> k \in AuthorizedKeys
             /\ \A i \in outbox : Corrects(i, k) => Corrects(i, k)' \/ Corrects(n, k)'
             /\ ~CallCorrects(k)
    <3>1. PICK i \in outbox : Corrects(i, k) /\ ~Finished(i)
      BY <1>6, <2>2 DEF ExactInv, CorrectInv
    <3> QED
      BY <2>0, <2>2, <3>1
  <2> QED
    BY <1>4, <2>1, <2>2
<1>7. CorrectInv'
  BY <1>6 DEF CorrectInv
<1> QED
  BY <1>3, <1>5, <1>7 DEF ExactInv

-----------------------------------------------------------------------------
LEMMA NoFailure ==
  ASSUME failures = 0, failures' = 0
  PROVE  ~Fail
  BY DEF Fail

LEMMA AddKeyExact ==
  ASSUME KInv, ExactInv, NEW k \in Keys, AddKey(k)
  PROVE  ExactInv'
<1>0. PICK n : n = [id |-> operations', kind |-> "write", key |-> k,
                    known |-> FALSE, retried |-> FALSE]
  OBVIOUS
<1>1. n.id = operations' /\ n.kind = "write" /\ n.key = k /\ ~n.retried
  BY <1>0
<1>2. /\ keyState' = [keyState EXCEPT ![k] = "enabled"] /\ keyState[k] = "unused"
      /\ outbox' = outbox \cup {n} /\ call = None /\ operations' = operations + 1
      /\ call'.step = "add" /\ UNCHANGED <<userStatus, file, worker>> /\ Active(k)
  BY <1>0 DEF AddKey, Lock
<1>3. operations \in Nat /\ \A i \in outbox : i.id \in Nat /\ i.id <= operations
  BY ItemType DEF KInv, TypeOK, OutboxInv
<1>4. /\ k \in AuthorizedKeys'
      /\ \A j \in Keys : j # k =>
           /\ j \in AuthorizedKeys' <=> j \in AuthorizedKeys
           /\ Exists(j)' <=> Exists(j)
  BY <1>2, RowSet DEF KInv
<1>5. Corrects(n, k)'
  BY <1>1, <1>4 DEF Corrects, Adds
<1>6. \A j \in Keys : ~CallCorrects(j)
  BY <1>2 DEF CallCorrects
<1>7. ForwardInv'
  BY <1>2 DEF ForwardInv
<1>8. n.id \in Nat /\ \A i \in outbox : i.id < n.id
  BY <1>1, <1>2, <1>3
<1> QED
  BY <1>1, <1>2, <1>4, <1>5, <1>6, <1>7, <1>8, QueueExact

\* The other calls begin with the lock alone.
LEMMA BeginExact ==
  ASSUME KInv, ExactInv, BeginCall
  PROVE  ExactInv'
<1>1. ASSUME call = None, ForwardInv', UNCHANGED <<dbVars, file, worker>> PROVE ExactInv'
  <2>1. \A k \in Keys : ~CallCorrects(k)
    BY <1>1 DEF CallCorrects
  <2> QED
    BY <1>1, <2>1, FilesExact
<1>2. ASSUME NEW k \in Keys, EnableKey(k) \/ DisableKey(k) \/ DeleteKey(k) PROVE ExactInv'
  <2>1. call'.step \in {"enable", "disable", "delete"}
    BY <1>2 DEF EnableKey, DisableKey, DeleteKey, Lock
  <2>2. ForwardInv'
    BY <2>1 DEF ForwardInv
  <2> QED
    BY <1>1, <1>2, <2>2 DEF EnableKey, DisableKey, DeleteKey, Lock
<1>3. ASSUME NEW u \in Users, Suspend(u) PROVE ExactInv'
  <2>1. /\ call'.step = "suspend" /\ call'.user = u
        /\ call'.todo = {k \in Keys : KeyOwner[k] = u /\ Exists(k)}
    BY <1>3 DEF Suspend, Lock
  <2>2. ForwardInv'
    BY <2>1 DEF ForwardInv
  <2> QED
    BY <1>1, <1>3, <2>2 DEF Suspend, Lock
<1>4. ASSUME NEW u \in Users, Unsuspend(u) PROVE ExactInv'
  <2>1. ForwardInv'
    BY <1>4 DEF Unsuspend, Lock, ForwardInv
  <2> QED
    BY <1>1, <1>4, <2>1 DEF Unsuspend, Lock
<1> QED
  BY <1>2, <1>3, <1>4, AddKeyExact DEF BeginCall

-----------------------------------------------------------------------------
LEMMA AddWriteExact ==
  ASSUME KInv, ExactInv, failures = 0, failures' = 0, AddKeyWrite
  PROVE  ExactInv'
<1>1. /\ call # None /\ call.step = "add" /\ Return /\ file' = file \cup {call.key}
      /\ UNCHANGED <<dbVars, worker>>
  BY NoFailure DEF AddKeyWrite, Step, WriteFile, SetFile, Continue
<1>2. call.key \in AuthorizedKeys
  <2>1. call.key \in Keys
    BY <1>1, KeyStep DEF KInv, Step, KeyCalls
  <2> QED
    BY <1>1, <2>1 DEF KInv, CallInv, AuthorizedKeys
<1>3. ForwardInv'
  BY <1>1 DEF ForwardInv, Return
<1>4. \A k \in Keys : ~CallCorrects(k)
  BY <1>1 DEF CallCorrects
<1> QED
  BY <1>1, <1>2, <1>3, <1>4, FilesExact

LEMMA EnableWriteExact ==
  ASSUME KInv, ExactInv, failures = 0, failures' = 0, EnableKeyWrite
  PROVE  ExactInv'
<1>0. PICK c : c = call.key
  OBVIOUS
<1>1. /\ call # None /\ call.step = "enable" /\ Goto("enableCommit")
      /\ file' = file \cup {c} /\ UNCHANGED <<dbVars, worker>>
  BY <1>0, NoFailure DEF EnableKeyWrite, Step, WriteFile, SetFile, Continue
<1>2. call' # None /\ call'.step = "enableCommit" /\ call'.key = c
  <2>1. call' \in [step : KeyCalls, key : Keys]
    BY <1>1, KeyStep DEF KInv, Step, KeyCalls, Goto
  <2> QED
    BY <1>0, <1>1, <2>1, NoneIsNoCall, GotoKey DEF Call, KeyCalls, Step
<1>3. ForwardInv'
  BY <1>2 DEF ForwardInv
<1>4. AuthorizedKeys' = AuthorizedKeys
  BY <1>1, SameCorrects DEF dbVars
<1>5. \A k \in Keys : ~CallCorrects(k)
  BY <1>1 DEF CallCorrects
<1>6. c \notin AuthorizedKeys => CallCorrects(c)'
  BY <1>2, <1>4 DEF CallCorrects
<1> QED
  BY <1>1, <1>3, <1>5, <1>6, FilesExact

LEMMA RevokeExact ==
  ASSUME KInv, ExactInv, failures = 0, failures' = 0, RevokeKeyRemove
  PROVE  ExactInv'
<1>0. PICK c : c = call.key
  OBVIOUS
<1>1. PICK step \in {"disable", "delete"} :
        /\ Step(step) /\ file' = file \ {c}
        /\ Goto(IF step = "disable" THEN "disableCommit" ELSE "deleteCommit")
  BY <1>0, NoFailure DEF RevokeKeyRemove, RemoveFile, SetFile
<1>2. PICK t \in {"disableCommit", "deleteCommit"} : Goto(t)
  BY <1>1
<1>3. call # None /\ call.step \in {"disable", "delete"} /\ UNCHANGED <<dbVars, worker>>
  BY <1>1 DEF RevokeKeyRemove, Step, Continue
<1>4. call' # None /\ call'.step = t /\ call'.key = c
  <2>1. call' \in [step : KeyCalls, key : Keys]
    BY <1>1, <1>2, KeyStep DEF KInv, KeyCalls, Goto
  <2> QED
    BY <1>0, <1>1, <1>2, <2>1, NoneIsNoCall, GotoKey DEF Call, KeyCalls
<1>5. ForwardInv'
  BY <1>4 DEF ForwardInv
<1>6. AuthorizedKeys' = AuthorizedKeys
  BY <1>3, SameCorrects DEF dbVars
<1>7. \A k \in Keys : ~CallCorrects(k)
  BY <1>3 DEF CallCorrects
<1>8. c \in AuthorizedKeys => CallCorrects(c)'
  BY <1>4, <1>6 DEF CallCorrects
<1> QED
  BY <1>1, <1>3, <1>5, <1>7, <1>8, FilesExact

LEMMA SuspendExact ==
  ASSUME KInv, ExactInv, failures = 0, failures' = 0, SuspendRemove
  PROVE  ExactInv'
<1>0. /\ call # None /\ call.step = "suspend" /\ UNCHANGED <<dbVars, worker>>
      /\ call \in [step : {"suspend"}, user : Users, todo : SUBSET Keys]
  BY UserStep DEF SuspendRemove, Step, Continue, KInv
<1>1. PICK j \in call.todo : file' = file \ {j} /\ call' = [call EXCEPT !.todo = @ \ {j}]
  BY NoFailure DEF SuspendRemove, RemoveFile, SetFile
<1>2. /\ call'.step = "suspend" /\ call'.user = call.user /\ call'.todo \subseteq call.todo
      /\ call' \in [step : {"suspend"}, user : Users, todo : SUBSET Keys]
  BY <1>0, <1>1
<1>3. call' # None
  BY <1>2, NoneIsNoCall DEF Call
<1>4. KeyOwner[j] = call.user
  BY <1>0, <1>1 DEF ExactInv, ForwardInv
<1>5. ForwardInv'
  BY <1>0, <1>2 DEF ExactInv, ForwardInv
<1>6. AuthorizedKeys' = AuthorizedKeys
  BY <1>0, SameCorrects DEF dbVars
<1>7. \A k \in Keys : CallCorrects(k) => CallCorrects(k)'
  BY <1>0, <1>2, <1>3, <1>6 DEF CallCorrects
<1>8. j \in AuthorizedKeys => CallCorrects(j)'
  BY <1>2, <1>3, <1>4, <1>6 DEF CallCorrects
<1> QED
  BY <1>0, <1>1, <1>5, <1>7, <1>8, FilesExact

LEMMA SyncExact ==
  ASSUME KInv, ExactInv, failures = 0, failures' = 0, Sync
  PROVE  ExactInv'
<1>1. file' = AuthorizedKeys /\ Return /\ UNCHANGED <<dbVars, worker>>
  BY NoFailure DEF Sync, ReconcileFiles, SetFile, Continue
<1>2. ForwardInv'
  BY <1>1 DEF ForwardInv, Return
<1> QED
  BY <1>1, <1>2, FilesExact

-----------------------------------------------------------------------------
\* A transaction that finds nothing to change.
LEMMA NothingExact ==
  ASSUME KInv, ExactInv, UNCHANGED <<dbVars, file, worker>>, ForwardInv',
         \A k \in Keys : ~CallCorrects(k)
  PROVE  ExactInv'
  BY FilesExact

\* One that sets the row of a key, and queues what follows for its file.
LEMMA RowExact ==
  ASSUME KInv, ExactInv, call # None, call.step \in {"enableCommit", "disableCommit", "deleteCommit"},
         NEW k \in Keys, k = call.key, Return, UNCHANGED <<userStatus, file, worker>>,
         NEW st \in {"enabled", "disabled", "deleted"}, keyState' = [keyState EXCEPT ![k] = st],
         NEW kind \in {"write", "remove"}, NEW known \in BOOLEAN, Queue(kind, k, known),
         kind = "write" <=> st = "enabled", st = "enabled" => Active(k), st = "deleted" => known
  PROVE  ExactInv'
<1>1. PICK n \in outbox' \ outbox :
        /\ n.id = operations /\ n.kind = kind /\ n.key = k /\ n.known = known /\ ~n.retried
        /\ outbox' = outbox \cup {n}
  BY Queued DEF AddSteps
<1>2. /\ k \in AuthorizedKeys' <=> st = "enabled"
      /\ Exists(k)' <=> st # "deleted"
      /\ \A j \in Keys : j # k =>
           /\ j \in AuthorizedKeys' <=> j \in AuthorizedKeys
           /\ Exists(j)' <=> Exists(j)
  <2>1. TypeOK
    BY DEF KInv
  <2> QED
    BY <2>1, RowSet
<1>3. operations \in Nat /\ \A i \in outbox : i.id < operations
  BY DEF KInv, TypeOK, OutboxInv
<1>4. Corrects(n, k)'
  <2>1. CASE st = "enabled"
    BY <1>1, <1>2, <2>1 DEF Corrects, Adds
  <2>2. CASE st # "enabled"
    BY <1>1, <1>2, <2>2 DEF Corrects, Removes
  <2> QED
    BY <2>1, <2>2
<1>5. ForwardInv'
  BY DEF ForwardInv, Return
<1>6. \A j \in Keys : j # k => ~CallCorrects(j)
  BY DEF CallCorrects
<1>7. n.key \in Keys /\ (n.kind = "write" <=> n.key \in AuthorizedKeys')
  BY <1>1, <1>2
<1>8. n.id \in Nat /\ ~n.retried /\ \A i \in outbox : i.id < n.id
  BY <1>1, <1>3
<1> QED
  BY <1>1, <1>2, <1>4, <1>5, <1>6, <1>7, <1>8, QueueExact

LEMMA KeyCommitExact ==
  ASSUME KInv, ExactInv, failures = 0, failures' = 0,
         EnableKeyCommit \/ DisableKeyCommit \/ DeleteKeyCommit
  PROVE  ExactInv'
<1>1. /\ call # None /\ call.step \in {"enableCommit", "disableCommit", "deleteCommit"}
      /\ Return /\ call.key \in Keys /\ UNCHANGED <<userStatus, file, worker>>
  BY NoFailure, KeyStep DEF EnableKeyCommit, DisableKeyCommit, DeleteKeyCommit, Step, Continue,
     KInv, KeyCalls
<1>2. ForwardInv'
  BY <1>1 DEF ForwardInv, Return
<1>3. CASE EnableKeyCommit
  <2>1. call.step = "enableCommit" /\ Exists(call.key) /\ Active(call.key)
    BY <1>1, <1>3 DEF EnableKeyCommit, Step, KInv, CallInv
  <2>2. CASE keyState[call.key] = "disabled"
    BY <1>1, <1>3, <2>1, <2>2, NoFailure, RowExact DEF EnableKeyCommit
  <2>3. CASE keyState[call.key] # "disabled"
    <3>1. call.key \in AuthorizedKeys
      BY <1>1, <2>1, <2>3 DEF Exists, AuthorizedKeys
    <3>2. \A k \in Keys : ~CallCorrects(k)
      BY <2>1, <3>1 DEF CallCorrects
    <3> QED
      BY <1>1, <1>2, <1>3, <2>3, <3>2, NoFailure, NothingExact DEF EnableKeyCommit, dbVars
  <2> QED
    BY <2>2, <2>3
<1>4. CASE DisableKeyCommit
  <2>1. call.step = "disableCommit"
    BY <1>4 DEF DisableKeyCommit, Step
  <2>2. CASE keyState[call.key] = "enabled"
    BY <1>1, <1>4, <2>1, <2>2, NoFailure, RowExact DEF DisableKeyCommit
  <2>3. CASE keyState[call.key] # "enabled"
    <3>1. call.key \notin AuthorizedKeys
      BY <2>3 DEF AuthorizedKeys
    <3>2. \A k \in Keys : ~CallCorrects(k)
      BY <2>1, <3>1 DEF CallCorrects
    <3> QED
      BY <1>1, <1>2, <1>4, <2>3, <3>2, NoFailure, NothingExact DEF DisableKeyCommit, dbVars
  <2> QED
    BY <2>2, <2>3
<1>5. CASE DeleteKeyCommit
  BY <1>1, <1>5, NoFailure, RowExact DEF DeleteKeyCommit
<1> QED
  BY <1>3, <1>4, <1>5

\* A reconciliation that is queued corrects everything.
LEMMA UserCommitExact ==
  ASSUME KInv, ExactInv, failures = 0, failures' = 0, SuspendCommit \/ UnsuspendCommit
  PROVE  ExactInv'
<1>1. /\ call # None /\ call.step \in {"suspend", "unsuspend"} /\ call.user \in Users
      /\ UNCHANGED <<keyState, file, worker>>
  BY UserStep DEF SuspendCommit, UnsuspendCommit, Step, Continue, KInv
<1>2. Return \/ (call'.step = "sync" /\ ~Step("suspend"))
  BY UserStep DEF SuspendCommit, UnsuspendCommit, Goto, KInv, Step
<1>3. ForwardInv'
  BY <1>2 DEF ForwardInv, Return
<1>4. CASE QueueReconcile
  <2>1. PICK n \in outbox' \ outbox :
          /\ n.id = operations /\ n.kind = "reconcile" /\ ~n.retried
          /\ outbox' = outbox \cup {n}
    BY <1>1, <1>4, QueuedReconcile DEF AddSteps
  <2>2. n.id \in Nat /\ ~n.retried /\ \A i \in outbox : i.id < n.id
    BY <1>1, <2>1 DEF KInv, TypeOK, OutboxInv
  <2>3. \A k \in Keys : Corrects(n, k)'
    BY <2>1 DEF Corrects, Adds, Removes
  <2> QED
    BY <1>1, <1>3, <2>1, <2>2, <2>3, QueueExact
<1>5. CASE UNCHANGED <<userStatus, outbox>> /\ ~QueueReconcile
  <2>1. call.step = "suspend" => userStatus[call.user] # "active"
    BY <1>1, <1>5, NoFailure DEF SuspendCommit, UnsuspendCommit, Step
  <2>2. \A k \in Keys : ~CallCorrects(k)
    BY <1>1, <2>1 DEF CallCorrects, AuthorizedKeys, Active
  <2> QED
    BY <1>1, <1>3, <1>5, <2>2, NothingExact DEF dbVars
<1>6. QueueReconcile \/ UNCHANGED <<userStatus, outbox>>
  BY DEF SuspendCommit, UnsuspendCommit
<1> QED
  BY <1>4, <1>5, <1>6

LEMMA ContinueExact ==
  ASSUME KInv, ExactInv, failures = 0, failures' = 0, ContinueCall
  PROVE  ExactInv'
<1>1. ~AddKeyUndo /\ ~AddKeyDrop /\ ~EnableKeyUndo
  BY DEF AddKeyUndo, AddKeyDrop, EnableKeyUndo, Step, ExactInv, ForwardInv
<1> QED
  BY <1>1, AddWriteExact, EnableWriteExact, RevokeExact, SuspendExact, SyncExact, KeyCommitExact,
     UserCommitExact
  DEF ContinueCall

-----------------------------------------------------------------------------
\* What is read is the state of the tables, and the first event.
LEMMA ReadExact ==
  ASSUME KInv, ExactInv, failures = 0, failures' = 0, WorkerRead
  PROVE  ExactInv'
<1>1. /\ UNCHANGED <<keyState, userStatus, file, call, outbox>> /\ worker = None
      /\ \E i \in outbox : Turn(i)
      /\ ForwardInv'
  BY NoFailure DEF WorkerRead, ExactInv, ForwardInv
<1>2. PICK i \in outbox :
        /\ Turn(i)
        /\ \/ i.kind = "write" /\ worker' = [item |-> i, read |-> {i.key}, done |-> FALSE]
           \/ /\ i.kind = "write" /\ ~Exists(i.key)
              /\ worker' = [item |-> i, read |-> {}, done |-> TRUE]
           \/ i.kind = "remove" /\ worker' = [item |-> i, read |-> {i.key}, done |-> FALSE]
           \/ /\ i.kind = "remove" /\ ~(i.known \/ Exists(i.key))
              /\ worker' = [item |-> i, read |-> {}, done |-> TRUE]
           \/ /\ i.kind = "reconcile"
              /\ worker' = [item |-> i, read |-> AuthorizedKeys, done |-> FALSE]
  BY NoFailure DEF WorkerRead, Begin, NothingToDo
<1>3. \A j \in outbox : i.id <= j.id
  <2>1. \A j \in outbox : ~j.retried
    BY DEF ExactInv, TurnInv
  <2> QED
    BY <1>2, <2>1 DEF Turn
<1>4. /\ AuthorizedKeys' = AuthorizedKeys
      /\ \A j, k : Corrects(j, k)' <=> Corrects(j, k)
      /\ \A k \in Keys : CallCorrects(k)' <=> CallCorrects(k)
  <2>1. AuthorizedKeys' = AuthorizedKeys /\ \A j, k : Corrects(j, k)' <=> Corrects(j, k)
    BY <1>1, SameCorrects
  <2> QED
    BY <1>1, <2>1 DEF CallCorrects
<1>5. worker'.item = i /\ (worker'.done => \A k \in Keys : ~Corrects(i, k))
  BY <1>2 DEF Corrects, Adds, Removes, AuthorizedKeys, Exists
<1>6. TurnInv'
  BY <1>1, <1>2, <1>3, <1>5 DEF ExactInv, TurnInv
<1>7. LaterInv'
  BY <1>1, <1>2, <1>4, <1>5 DEF ExactInv, LaterInv
<1>8. \A j \in outbox, k \in Keys : Corrects(j, k) => ~Finished(j)'
  BY <1>5 DEF Finished
<1>9. CorrectInv'
  BY <1>1, <1>4, <1>8 DEF ExactInv, CorrectInv
<1> QED
  BY <1>1, <1>6, <1>7, <1>9 DEF ExactInv

\* The first event is applied: if it is out of date, a later one corrects it.
LEMMA ApplyExact ==
  ASSUME KInv, ExactInv, failures = 0, failures' = 0, WorkerApply
  PROVE  ExactInv'
<1>0. PICK i : i = worker.item
  OBVIOUS
<1>1. /\ worker # None /\ ~worker.done /\ i \in outbox
      /\ i.kind \in {"write", "remove", "reconcile"} /\ (i.kind # "reconcile" => i.key \in Keys)
      /\ i.kind # "reconcile" => worker.read = {i.key}
      /\ worker \in [item : Item, read : SUBSET Keys, done : BOOLEAN]
  BY <1>0, ItemType DEF WorkerApply, KInv, WorkerInv, TypeOK, ExactInv, TurnInv
<1>2. /\ file' = CASE i.kind = "write"     -> file \cup worker.read
                   [] i.kind = "remove"    -> file \ worker.read
                   [] i.kind = "reconcile" -> worker.read
      /\ worker' = [worker EXCEPT !.done = TRUE]
      /\ UNCHANGED <<keyState, userStatus, outbox, call>>
  BY <1>0, NoFailure DEF WorkerApply
<1>3. worker'.item = i /\ worker'.done /\ ForwardInv'
  BY <1>0, <1>1, <1>2 DEF ExactInv, ForwardInv
<1>4. /\ AuthorizedKeys' = AuthorizedKeys
      /\ \A j, k : Corrects(j, k)' <=> Corrects(j, k)
      /\ \A k \in Keys : CallCorrects(k)' <=> CallCorrects(k)
  <2>1. AuthorizedKeys' = AuthorizedKeys /\ \A j, k : Corrects(j, k)' <=> Corrects(j, k)
    BY <1>2, SameCorrects
  <2> QED
    BY <1>2, <2>1 DEF CallCorrects
<1>5. TurnInv'
  BY <1>0, <1>1, <1>2, <1>3 DEF ExactInv, TurnInv
<1>6. LaterInv'
  BY <1>2, <1>3, <1>4 DEF ExactInv, LaterInv
<1>7. \A j \in outbox \ {i} : ~Finished(j)'
  BY <1>3 DEF Finished
<1>8. ASSUME NEW k \in Keys, ~(k \in file' <=> k \in AuthorizedKeys), ~CallCorrects(k)
      PROVE  \E j \in outbox \ {i} : Corrects(j, k)
  <2>1. CASE i.kind = "reconcile"
    <3>1. ~(k \in worker.read <=> k \in AuthorizedKeys)
      BY <1>2, <1>8, <2>1
    <3> QED
      BY <1>0, <1>1, <2>1, <3>1 DEF ExactInv, LaterInv
  <2>2. CASE i.kind # "reconcile" /\ k = i.key
    <3>1. ~(i.kind = "write" <=> k \in AuthorizedKeys)
      BY <1>1, <1>2, <1>8, <2>2
    <3>2. PICK j \in outbox : i.id < j.id /\ Corrects(j, k)
      BY <1>1, <2>2, <3>1 DEF ExactInv, LaterInv
    <3>3. i.id \in Nat
      BY <1>1, ItemType DEF KInv, TypeOK
    <3> QED
      BY <3>2, <3>3
  <2>3. CASE i.kind # "reconcile" /\ k # i.key
    <3>1. ~(k \in file <=> k \in AuthorizedKeys)
      BY <1>1, <1>2, <1>8, <2>3
    <3>2. PICK j \in outbox : Corrects(j, k)
      BY <1>8, <3>1 DEF ExactInv, CorrectInv
    <3>3. ~Corrects(i, k)
      BY <2>3 DEF Corrects, Adds, Removes
    <3> QED
      BY <3>2, <3>3
  <2> QED
    BY <2>1, <2>2, <2>3
<1>9. CorrectInv'
  BY <1>2, <1>4, <1>7, <1>8 DEF CorrectInv
<1> QED
  BY <1>3, <1>5, <1>6, <1>9 DEF ExactInv

LEMMA CompleteExact ==
  ASSUME KInv, ExactInv, failures = 0, failures' = 0, WorkerComplete
  PROVE  ExactInv'
<1>0. PICK i : i = worker.item
  OBVIOUS
<1>1. /\ worker # None /\ worker.done /\ i \in outbox /\ outbox' = outbox \ {i} /\ worker' = None
      /\ UNCHANGED <<keyState, userStatus, file, call>>
      /\ \A j \in outbox : i.id <= j.id
      /\ \A j \in outbox : j.id \in Nat
  BY <1>0, NoFailure, ItemType DEF WorkerComplete, KInv, WorkerInv, TypeOK, ExactInv, TurnInv
<1>2. /\ AuthorizedKeys' = AuthorizedKeys
      /\ \A j, k : Corrects(j, k)' <=> Corrects(j, k)
      /\ \A k \in Keys : CallCorrects(k)' <=> CallCorrects(k)
  <2>1. AuthorizedKeys' = AuthorizedKeys /\ \A j, k : Corrects(j, k)' <=> Corrects(j, k)
    BY <1>1, SameCorrects
  <2> QED
    BY <1>1, <2>1 DEF CallCorrects
<1>3. TurnInv'
  BY <1>1 DEF ExactInv, TurnInv
<1>4. LaterInv'
  <2>1. \A m, j \in outbox : m.id < j.id => j # i
    BY <1>1
  <2> QED
    BY <1>1, <1>2, <2>1 DEF ExactInv, LaterInv
<1>5. CorrectInv'
  <2>1. Finished(i) /\ \A j : ~Finished(j)'
    BY <1>0, <1>1 DEF Finished
  <2> QED
    BY <1>1, <1>2, <2>1 DEF ExactInv, CorrectInv
<1>6. ForwardInv'
  BY <1>1 DEF ExactInv, ForwardInv
<1> QED
  BY <1>3, <1>4, <1>5, <1>6 DEF ExactInv

\* The worker forgets what it did, and may do the first event again.
LEMMA RestartExact ==
  ASSUME KInv, ExactInv, Restart
  PROVE  ExactInv'
<1>1. file' = AuthorizedKeys /\ call' = None /\ worker' = None /\ UNCHANGED dbVars
  BY DEF Restart, SetFile
<1>2. AuthorizedKeys' = AuthorizedKeys /\ \A j, k : Corrects(j, k)' <=> Corrects(j, k)
  BY <1>1, SameCorrects DEF dbVars
<1>3. LaterInv'
  BY <1>1, <1>2 DEF ExactInv, LaterInv, dbVars
<1>4. TurnInv' /\ ForwardInv'
  BY <1>1 DEF ExactInv, TurnInv, ForwardInv, dbVars
<1>5. CorrectInv'
  BY <1>1, <1>2 DEF CorrectInv
<1> QED
  BY <1>3, <1>4, <1>5 DEF ExactInv

\* The files are exact once calls and events have run their course, as long as
\* nothing has failed: for any users, keys and calls, wherever the process ends
\* and starts again between two of their steps.
THEOREM SettledFilesExact == Spec => [](failures = 0 => SettledFilesAreExact)
<1> DEFINE Quiet == failures = 0 => ExactInv
<1>1. KInv /\ Quiet /\ [Next]_vars => Quiet'
  <2> SUFFICES ASSUME KInv, Quiet, [Next]_vars, failures' = 0 PROVE ExactInv'
    OBVIOUS
  <2>1. failures = 0
    <3>1. failures \in Nat
      BY DEF KInv, TypeOK
    <3>2. UNCHANGED failures \/ failures' = failures + 1 \/ failures' = failures + 2
      BY DEF Next, BeginCall, ContinueCall, Work, Restart, vars, Succeed, Fail,
         AddKey, EnableKey, DisableKey, DeleteKey, Suspend, Unsuspend,
         AddKeyWrite, AddKeyUndo, AddKeyDrop, EnableKeyWrite, EnableKeyCommit, EnableKeyUndo,
         RevokeKeyRemove, DisableKeyCommit, DeleteKeyCommit, SuspendRemove, SuspendCommit,
         UnsuspendCommit, Sync, WorkerRead, WorkerApply, WorkerComplete
    <3> QED
      BY <3>1, <3>2
  <2>2. ExactInv
    BY <2>1
  <2>3. CASE UNCHANGED vars
    BY <2>2, <2>3 DEF vars, dbVars, ExactInv, ForwardInv, TurnInv, LaterInv, CorrectInv, CallCorrects,
       Corrects, Adds, Removes, Finished, AuthorizedKeys, Active, Exists
  <2>4. Work => ExactInv'
    BY <2>1, <2>2, ReadExact, ApplyExact, CompleteExact DEF Work
  <2> QED
    BY <2>1, <2>2, <2>3, <2>4, BeginExact, ContinueExact, RestartExact DEF Next
<1>2. Init => Quiet
  BY ExactInit
<1>3. KInv /\ Quiet => (failures = 0 => SettledFilesAreExact)
  BY ExactImplies DEF KInv
<1> QED
  BY <1>1, <1>2, <1>3, InitInv, NextInv, PTL DEF Spec
=============================================================================
