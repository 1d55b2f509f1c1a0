-------------------------- MODULE MasterLockProofs --------------------------
(* Proofs about the master lock, for any number of codes, plugins, requests, *)
(* stops and failing writes.                                                 *)
EXTENDS MasterLock, TLAPS

-----------------------------------------------------------------------------
(* Type correctness. *)

\* The types, and that a change of the code begins with a code that was tested.
TypeInv == TypeOK /\ (op.kind = "modify" => op.was \in Codes)

\* Opening a database leaves the connection and the file with keys.
LEMMA UnlockedType ==
    ASSUME TypeOK, NEW p \in Plugins, NEW key \in Keys \cup {Null}
    PROVE  /\ ConnUnlocked(p, key) \in Keys \cup {Null}
           /\ FileUnlocked(p, key) \in Keys \cup {Null}
BY DEF TypeOK, ConnUnlocked, FileUnlocked

\* An unlock with a code leaves the lock state and the stored test typed.
LEMMA InitializeType ==
    ASSUME TypeOK, NEW code \in Codes, InitializeUnlock(code) \/ InitializeModify(code)
    PROVE  /\ testCode' \in Codes \cup {Null, Unreadable}
           /\ m_locked' \in BOOLEAN /\ m_noLockCode' \in BOOLEAN
           /\ keyData' \in Codes \cup {DummyCode, Null}
           /\ testFailed' \in BOOLEAN
BY DEF TypeOK, InitializeUnlock, InitializeModify, Initialize

\* The lock code requests.
Ops ==
    [kind : {"unlock", "lock", "modify"}, old : Codes \cup {DummyCode, Null},
     was : Codes \cup {Null, Unreadable}, new : Codes \cup {DummyCode, Null},
     dbs : SUBSET Plugins, data : SUBSET Plugins, failed : SUBSET Plugins]
OpOK == op \in {NoOp, Off} \cup Ops

\* A request that starts has its type.
LEMMA OpType ==
    ASSUME TypeOK, NEW kind \in {"unlock", "lock", "modify"},
           NEW new \in Codes \cup {DummyCode, Null}, NEW data \in SUBSET Plugins,
           op' = Op(kind, new, data)
    PROVE  /\ OpOK'
           /\ op'.kind = kind /\ op'.old = keyData /\ op'.was = testCode /\ op'.new = new
           /\ op'.dbs = Plugins /\ op'.data = data /\ op'.failed = {}
BY DEF TypeOK, Op, OldKey, OpOK, Ops

\* What the main thread does is of one of five kinds.
LEMMA OpKind ==
    ASSUME TypeOK
    PROVE  /\ OpOK
           /\ Idle <=> op.kind = "none"
           /\ op = Off <=> op.kind = "off"
           /\ op.kind \in {"none", "off"} => op.dbs = {} /\ op.data = {} /\ op.failed = {}
           /\ op.kind \in {"none", "off", "unlock", "lock", "modify"}
           /\ op.kind \in {"unlock", "lock", "modify"} => op \in Ops
<1>1. /\ NoOp.kind = "none" /\ NoOp.dbs = {} /\ NoOp.data = {} /\ NoOp.failed = {}
      /\ Off.kind = "off" /\ Off.dbs = {} /\ Off.data = {} /\ Off.failed = {}
  BY DEF NoOp, Off
<1>2. \A o \in Ops : o.kind \in {"unlock", "lock", "modify"}
  BY DEF Ops
<1>3. OpOK
  BY DEF TypeOK, OpOK, Ops
<1> QED BY <1>1, <1>2, <1>3 DEF OpOK, Idle

\* A request that has done a part of its work has its type.
LEMMA OpShrinks ==
    ASSUME op \in Ops, NEW p \in Plugins,
           \/ op' = [op EXCEPT !.dbs = @ \ {p}]
           \/ op' = [op EXCEPT !.data = @ \ {p}]
           \/ op' = [op EXCEPT !.dbs = @ \ {p}, !.failed = @ \cup {p}]
           \/ op' = [op EXCEPT !.data = @ \ {p}, !.failed = @ \cup {p}]
    PROVE  OpOK' /\ op'.kind = op.kind /\ op'.was = op.was
<1>1. CASE op' = [op EXCEPT !.dbs = @ \ {p}]
  BY <1>1 DEF OpOK, Ops
<1>2. CASE op' = [op EXCEPT !.data = @ \ {p}]
  BY <1>2 DEF OpOK, Ops
<1>3. CASE op' = [op EXCEPT !.dbs = @ \ {p}, !.failed = @ \cup {p}]
  BY <1>3 DEF OpOK, Ops
<1>4. CASE op' = [op EXCEPT !.data = @ \ {p}, !.failed = @ \cup {p}]
  BY <1>4 DEF OpOK, Ops
<1> QED BY <1>1, <1>2, <1>3, <1>4

\* What a stop, the end of a change or a written test leaves on disk.
LEMMA MixedType ==
    ASSUME TypeInv
    PROVE  /\ op.kind = "modify" =>
                 \A done \in BOOLEAN : Mixed(done) \in Codes \cup {Null, "lost"}
           /\ \A test : MixedByTest(test) \in Codes \cup {Null, "lost"}
BY DEF TypeInv, TypeOK, Mixed, MixedByTest

\* The stored test is readable and a code, or there is none.
LEMMA LeftType ==
    ASSUME TypeOK, NEW code \in Codes
    PROVE  LeftByFailure(code) \cup LeftByStop(code) \subseteq Codes \cup {Null, Unreadable}
BY DEF TypeOK, LeftByFailure, LeftByStop

\* Before the first start all state is typed.
LEMMA TypeInit == Init => TypeInv
<1> SUFFICES ASSUME Init PROVE TypeInv
  OBVIOUS
<1>1. OpOK /\ op.kind = "off"
  BY DEF Init, OpOK, Off, NoOp
<1>2. crashes \in 0 .. MaxCrashes /\ failures \in 0 .. MaxFailures
  BY BoundAssumption DEF Init
<1>3. /\ dbKey \in [Plugins -> Keys \cup {Null}]
      /\ dataKey \in [Plugins -> Keys \cup {Null}]
      /\ connKey \in [Plugins -> Keys \cup {Null}]
      /\ m_pendingRequests \in [Requests -> Prompts]
  BY DEF Init, Prompts
<1> QED BY <1>1, <1>2, <1>3 DEF Init, TypeInv, TypeOK, OpOK, Ops

\* The code put aside while the new one is asked for.
LEMMA OldCodeAsked ==
    ASSUME TypeOK, NEW r \in Requests, m_pendingRequests[r] # Null,
           m_pendingRequests[r].asks = "newCode"
    PROVE  m_pendingRequests[r].old \in Codes
<1>1. m_pendingRequests[r] \in Prompts
  BY DEF TypeOK
<1> QED BY <1>1 DEF Prompts

\* Every step keeps all state typed.
LEMMA TypeStep == TypeInv /\ [Next]_vars => TypeInv'
<1> SUFFICES ASSUME TypeInv, [Next]_vars PROVE TypeInv'
  OBVIOUS
<1> USE DEF disk, lock, history
<1>0. /\ EmptyCode \in Codes /\ Codes \subseteq Keys /\ DummyCode \in Keys /\ TypeOK
      /\ keyData \in Keys \cup {Null}
  BY CodesAssumption DEF TypeInv, TypeOK, Keys
<1>1. ASSUME NEW r \in Requests, ProvideLockCode(r)
      PROVE  TypeInv'
  <2>1. CASE InitializeUnlock(EmptyCode) /\ op' = Op("unlock", EmptyCode, {})
             /\ UNCHANGED m_pendingRequests
    <3>1. OpOK' /\ op'.kind = "unlock"
      BY <1>0, <2>1, OpType
    <3> QED
      BY <1>0, <1>1, <2>1, <3>1, InitializeType
         DEF ProvideLockCode, TypeInv, TypeOK, OpOK, Ops
  <2>2. CASE /\ m_pendingRequests' =
                   [m_pendingRequests EXCEPT ![r] = [asks |-> "code", old |-> Null]]
             /\ UNCHANGED <<testCode, lock, op, testFailed>>
    BY <1>1, <2>2 DEF ProvideLockCode, TypeInv, TypeOK, Prompts
  <2> QED BY <1>1, <2>1, <2>2 DEF ProvideLockCode
<1>2. ASSUME NEW r \in Requests, ModifyLockCode(r) \/ RequestFails(r)
      PROVE  TypeInv'
  BY <1>2 DEF ModifyLockCode, RequestFails, TypeInv, TypeOK, Prompts
<1>3. ASSUME NEW r \in Requests, NEW code \in Codes, ProvideLockCodeWithLockCode(r, code)
      PROVE  TypeInv'
  <2>1. OpOK' /\ op'.kind = "unlock"
    BY <1>0, <1>3, OpType DEF ProvideLockCodeWithLockCode
  <2>2. m_pendingRequests' \in [Requests -> Prompts]
    BY <1>3 DEF ProvideLockCodeWithLockCode, TypeInv, TypeOK, Prompts
  <2> QED
    BY <1>0, <1>3, <2>1, <2>2, InitializeType
       DEF ProvideLockCodeWithLockCode, TypeInv, TypeOK, OpOK, Ops
<1>4. ASSUME NEW r \in Requests, NEW code \in Codes, ModifyLockCodeWithLockCode(r, code)
      PROVE  TypeInv'
  BY <1>4 DEF ModifyLockCodeWithLockCode, PutAside, TypeInv, TypeOK, Prompts
<1>5. ASSUME NEW r \in Requests, NEW code \in Codes, ModifyLockCodeWithLockCodes(r, code)
      PROVE  TypeInv'
  <2>1. m_pendingRequests' \in [Requests -> Prompts]
    BY <1>5 DEF ModifyLockCodeWithLockCodes, TypeInv, TypeOK, Prompts
  <2>2. testCode \in Codes
    BY <1>0, <1>5, OldCodeAsked DEF ModifyLockCodeWithLockCodes, TestLockCode
  <2>3. CASE /\ InitializeModify(code)
             /\ op' = Op("modify", code, Plugins)
             /\ UNCHANGED <<failures, mixedWith>>
    <3>1. OpOK' /\ op'.was \in Codes
      BY <1>0, <2>2, <2>3, OpType
    <3> QED
      BY <1>0, <1>5, <2>1, <2>3, <3>1, InitializeType
         DEF ModifyLockCodeWithLockCodes, TypeInv, TypeOK, OpOK, Ops
  <2>4. CASE /\ failures < MaxFailures
             /\ failures' = failures + 1
             /\ testCode' \in LeftByFailure(code)
             /\ testFailed' = (testFailed \/ testCode' # testCode)
             /\ mixedWith' = IF testCode' # testCode \/ m_locked THEN "lost" ELSE mixedWith
             /\ op' = Op("modify", keyData, Plugins)
             /\ UNCHANGED lock
    <3>1. OpOK' /\ op'.was \in Codes
      BY <1>0, <2>2, <2>4, OpType DEF TypeOK
    <3>2. testCode' \in Codes \cup {Null, Unreadable} /\ failures' \in 0 .. MaxFailures
      BY <1>0, <2>4, LeftType, BoundAssumption DEF TypeOK
    <3>3. testFailed' \in BOOLEAN
      BY <2>4
    <3> QED
      BY <1>5, <2>1, <2>4, <3>1, <3>2, <3>3
         DEF ModifyLockCodeWithLockCodes, TypeInv, TypeOK, OpOK, Ops
  <2> QED BY <1>5, <2>3, <2>4 DEF ModifyLockCodeWithLockCodes
<1>6. ASSUME ForgetLockCode
      PROVE  TypeInv'
  <2>1. OpOK' /\ op'.kind = "lock"
    BY <1>0, <1>6, OpType DEF ForgetLockCode
  <2> QED BY <1>6, <2>1 DEF ForgetLockCode, InitializeLock, TypeInv, TypeOK, OpOK, Ops
<1>7. ASSUME NEW p \in Plugins, CreateDeviceLockCollection(p)
      PROVE  TypeInv'
  BY <1>7 DEF CreateDeviceLockCollection, TypeInv, TypeOK
<1>8. ASSUME NEW p \in Plugins, UnlockPlugin(p)
      PROVE  TypeInv'
  <2>0. op \in Ops
    BY <1>0, <1>8, OpKind DEF UnlockPlugin
  <2>1. OpOK' /\ op'.kind = op.kind /\ op'.was = op.was
    BY <1>8, <2>0, OpShrinks DEF UnlockPlugin
  <2>2. op.new \in Keys \cup {Null}
    BY <1>0, <2>0 DEF Ops
  <2>3. /\ connKey' \in [Plugins -> Keys \cup {Null}]
        /\ dbKey' \in [Plugins -> Keys \cup {Null}]
        /\ failures' \in 0 .. MaxFailures
    BY <1>0, <1>8, <2>2, UnlockedType, BoundAssumption DEF UnlockPlugin, TypeOK
  <2> QED BY <1>8, <2>1, <2>3 DEF UnlockPlugin, TypeInv, TypeOK, OpOK, Ops
<1>9. ASSUME NEW p \in Plugins, LockPlugin(p)
      PROVE  TypeInv'
  <2>0. op \in Ops
    BY <1>0, <1>9, OpKind DEF LockPlugin
  <2>1. OpOK' /\ op'.kind = op.kind /\ op'.was = op.was
    BY <1>9, <2>0, OpShrinks DEF LockPlugin
  <2> QED BY <1>9, <2>1 DEF LockPlugin, ConnLocked, TypeInv, TypeOK, OpOK, Ops
<1>10. ASSUME NEW p \in Plugins, RekeyPlugin(p)
       PROVE  TypeInv'
  <2>0. op \in Ops
    BY <1>0, <1>10, OpKind DEF RekeyPlugin
  <2>1. OpOK' /\ op'.kind = op.kind /\ op'.was = op.was
    BY <1>10, <2>0, OpShrinks DEF RekeyPlugin
  <2>2. op.new \in Keys \cup {Null} /\ op.old \in Keys \cup {Null}
    BY <1>0, <2>0 DEF Ops
  <2>3. /\ connKey' \in [Plugins -> Keys \cup {Null}]
        /\ dbKey' \in [Plugins -> Keys \cup {Null}]
        /\ failures' \in 0 .. MaxFailures
    BY <1>0, <1>10, <2>2, UnlockedType, BoundAssumption DEF RekeyPlugin, TypeOK
  <2> QED BY <1>10, <2>1, <2>3 DEF RekeyPlugin, TypeInv, TypeOK, OpOK, Ops
<1>11. ASSUME NEW p \in Plugins, ReencryptData(p)
       PROVE  TypeInv'
  <2>0. op \in Ops
    BY <1>0, <1>11, OpKind DEF ReencryptData
  <2>1. OpOK' /\ op'.kind = op.kind /\ op'.was = op.was
    BY <1>11, <2>0, OpShrinks DEF ReencryptData
  <2>2. op.new \in Keys \cup {Null}
    BY <1>0, <2>0 DEF Ops
  <2>3. /\ dataKey' \in [Plugins -> Keys \cup {Null}]
        /\ failures' \in 0 .. MaxFailures
    BY <1>0, <1>11, <2>2, BoundAssumption DEF ReencryptData, TypeOK
  <2> QED BY <1>11, <2>1, <2>3 DEF ReencryptData, TypeInv, TypeOK, OpOK, Ops
<1>12. ASSUME NEW p \in Plugins, CreateCollectionJob(p)
       PROVE  TypeInv'
  <2>1. KeysRead \subseteq Keys \cup {Null}
    BY <1>0 DEF KeysRead, Keys
  <2> QED BY <1>12, <2>1 DEF CreateCollectionJob, TypeInv, TypeOK
<1>13. ASSUME EndOp
       PROVE  TypeInv'
  <2>1. OpOK' /\ op'.kind = "none"
    BY <1>13 DEF EndOp, OpOK, NoOp
  <2> QED BY <1>13, <2>1, MixedType DEF EndOp, TypeInv, TypeOK, OpOK, Ops
<1>14. ASSUME Start
       PROVE  TypeInv'
  <2>1. CASE InitializeUnlock(EmptyCode) /\ op' = Op("unlock", EmptyCode, {})
             /\ mixedWith' = MixedByTest(EmptyCode) /\ UNCHANGED failures
    <3>1. OpOK' /\ op'.kind = "unlock"
      BY <1>0, <2>1, OpType
    <3> QED
      BY <1>0, <1>14, <2>1, <3>1, InitializeType, MixedType
         DEF Start, TypeInv, TypeOK, OpOK, Ops
  <2>2. CASE op' = NoOp
    <3>1. OpOK' /\ op'.kind = "none"
      BY <2>2 DEF OpOK, NoOp
    <3>2. CASE UNCHANGED <<testCode, lock, testFailed, failures, mixedWith>>
      BY <1>14, <3>1, <3>2 DEF Start, TypeInv, TypeOK, OpOK, Ops
    <3>3. CASE /\ failures < MaxFailures /\ failures' = failures + 1
               /\ testCode' \in LeftByFailure(EmptyCode)
               /\ mixedWith' = MixedByTest(testCode')
               /\ UNCHANGED <<lock, testFailed>>
      <4>1. testCode' \in Codes \cup {Null, Unreadable} /\ failures' \in 0 .. MaxFailures
        BY <1>0, <3>3, LeftType, BoundAssumption DEF TypeOK
      <4> QED BY <1>14, <3>1, <3>3, <4>1, MixedType DEF Start, TypeInv, TypeOK, OpOK, Ops
    <3>4. op'.kind # "unlock"
      BY <3>1
    <3> QED BY <1>0, <1>14, <3>2, <3>3, <3>4, OpType DEF Start
  <2> QED BY <1>14, <2>1, <2>2 DEF Start
<1>15. ASSUME Stop
       PROVE  TypeInv'
  <2>1. OpOK' /\ op'.kind = "off"
    BY <1>15 DEF Stop, OpOK, Off, NoOp
  <2>2. /\ testCode' \in Codes \cup {Null, Unreadable}
        /\ mixedWith' \in Codes \cup {Null, "lost"}
    <3>1. CASE op # Off /\ mixedWith' = (IF op.kind = "modify" THEN Mixed(FALSE) ELSE mixedWith)
               /\ UNCHANGED testCode
      BY <1>0, <3>1, MixedType DEF TypeOK
    <3>2. ASSUME NEW code \in Writing, testCode' \in LeftByStop(code),
                 mixedWith' = MixedByTest(testCode')
          PROVE  /\ testCode' \in Codes \cup {Null, Unreadable}
                 /\ mixedWith' \in Codes \cup {Null, "lost"}
      <4>1. code \in Codes
        BY DEF Writing
      <4> QED BY <1>0, <3>2, <4>1, LeftType, MixedType
    <3> QED BY <1>15, <3>1, <3>2 DEF Stop
  <2>3. crashes' \in 0 .. MaxCrashes
    BY <1>15, BoundAssumption DEF Stop, TypeInv, TypeOK
  <2> QED BY <1>15, <2>1, <2>2, <2>3 DEF Stop, TypeInv, TypeOK, OpOK, Ops, Prompts
<1>16. CASE UNCHANGED vars
  BY <1>16 DEF vars, TypeInv, TypeOK
<1> QED
  BY <1>1, <1>2, <1>3, <1>4, <1>5, <1>6, <1>7, <1>8, <1>9, <1>10, <1>11, <1>12,
     <1>13, <1>14, <1>15, <1>16 DEF Next, UserInput, Pool

\* In every behaviour of the master lock all state has its type.
THEOREM TypeCorrect == Spec => []TypeOK
<1>1. TypeInv => TypeOK
  BY DEF TypeInv
<1> QED BY <1>1, TypeInit, TypeStep, PTL DEF Spec
-----------------------------------------------------------------------------
(* The inductive invariant. *)

\* A change to another lock code is being carried out.
Changing == op.kind = "modify" /\ op.old # op.new

\* The cached keys of an unlocked daemon are a code's, those of a locked one no
\* code's; a test that was replaced behind the daemon's back is on record.
CachedKeys ==
    /\ IF m_locked THEN keyData \in {DummyCode, Null} ELSE keyData \in Codes
    /\ testFailed => mixedWith = "lost"
    /\ op.kind = "off" => m_locked /\ ~m_noLockCode

\* The running request works with the stored code, and has the keys of the code
\* before, or in a locked daemon those of no code, to change from.
OpUsesStoredCode ==
    /\ op.kind = "unlock" \/ Changing =>
          op.new = testCode /\ keyData = testCode /\ testCode \in Codes /\ ~m_locked
    /\ Changing /\ mixedWith # "lost" => op.old \in {op.was, DummyCode, Null}
    /\ op.kind = "modify" /\ ~Changing /\ mixedWith # "lost" =>
          op.old = testCode /\ keyData = testCode /\ testCode \in Codes /\ ~m_locked
    /\ op.kind = "lock" => m_locked

\* Jobs wait in the pool of an unlocked daemon, or until the first job of a
\* request that found the daemon unlocked.
JobsFirst ==
    jobs # {} =>
        \/ Idle /\ ~m_locked
        \/ /\ op.kind \in {"unlock", "lock", "modify"} /\ op.dbs = Plugins
           /\ mixedWith # "lost" => op.old \in Codes

\* While locked, no plugin that was dealt with can be read.
Closed(p) == IsMasterLocked(p) \/ dbKey[p] = DummyCode
ClosedSoFar ==
    m_locked => /\ op.kind = "modify" => op.old = op.new /\ op.old = keyData
                /\ \A p \in Plugins : (op.kind = "lock" /\ p \in op.dbs) \/ Closed(p)

\* The keys of plugin p are the stored code's, or those of w; no connection uses
\* the key of w, and a database with it has no data with the stored code's key.
SettledWith(p, w) ==
    /\ {dbKey[p], dataKey[p]} \subseteq {Null, testCode, w}
    /\ connKey[p] # Null => dbKey[p] # Null
    /\ w \in Codes =>
          /\ w # testCode /\ connKey[p] # w
          /\ testCode \in Codes /\ dataKey[p] = testCode => dbKey[p] = testCode

Settled == ~Changing /\ mixedWith # "lost" => \A p \in Plugins : SettledWith(p, mixedWith)

\* How far a change, or the change back after a stop, has come with plugin p.
ChangedSoFar(p) ==
    /\ p \in op.dbs => dbKey[p] \in {Null, op.old, mixedWith}
    /\ p \notin op.dbs => dbKey[p] = op.new
    /\ dataKey[p] \in {Null, op.old, op.new}
    /\ p \in op.dbs /\ dataKey[p] = op.old => dbKey[p] \in {Null, op.old}
    /\ p \notin op.dbs /\ dataKey[p] = op.old => connKey[p] = op.new
    /\ p \notin op.data => dataKey[p] # op.old /\ op.dbs = {}
    /\ mixedWith = Null /\ dataKey[p] = op.new => p \notin op.data

Progress ==
    Changing /\ op.failed = {} /\ op.old = op.was /\ mixedWith \in {Null, op.new} =>
        \A p \in Plugins : ChangedSoFar(p)

\* A change in a locked daemon leaves the keys as they are.
Aside == IF op.was = op.new THEN mixedWith ELSE op.was
LockedProgress ==
    Changing /\ op.failed = {} /\ op.old # op.was /\ mixedWith # "lost"
        /\ (op.was = op.new \/ mixedWith = Null) =>
            \A p \in Plugins : SettledWith(p, Aside)

IInv ==
    /\ TypeInv /\ UnlockedByCurrentCode /\ CachedKeys /\ OpUsesStoredCode /\ JobsFirst
    /\ ClosedSoFar /\ Settled /\ Progress /\ LockedProgress /\ UnlockOpensAll

\* The values that stand for no code are none.
LEMMA NoCodes ==
    /\ Null \notin Codes /\ DummyCode \notin Codes /\ Unreadable \notin Codes
    /\ "lost" \notin Codes /\ "lost" # Null /\ "lost" # Unreadable /\ DummyCode # Null
    /\ Unreadable \notin Keys \cup {Null} /\ EmptyCode \in Codes /\ Codes \subseteq Keys
BY CodesAssumption DEF Keys

\* Steps that only change what the requests waiting for the user are about.
LEMMA InvUnchanged ==
    ASSUME IInv, TypeInv', UNCHANGED <<disk, lock, connKey, jobs, op, testFailed, mixedWith>>
    PROVE  IInv'
BY DEF IInv, UnlockedByCurrentCode, CachedKeys, OpUsesStoredCode, JobsFirst, Closed,
       ClosedSoFar, Settled, SettledWith, Progress, LockedProgress, Aside, UnlockOpensAll,
       ChangedSoFar, Changing, IsMasterLocked, Idle, disk, lock

\* When the stored test becomes another one and no key follows, the keys are
\* still those of the codes on record; no connection uses the code before.
LEMMA SettledByTest ==
    ASSUME IInv, ~Changing, ~Changing', TypeInv',
           testCode' \in Codes \cup {Null, Unreadable},
           mixedWith' = MixedByTest(testCode'), UNCHANGED <<dbKey, dataKey>>,
           \A p \in Plugins : connKey'[p] \in {Null, connKey[p]},
           testCode \in Codes /\ testCode' # testCode =>
               \A p \in Plugins : connKey'[p] = Null
    PROVE  Settled'
<1> SUFFICES ASSUME mixedWith' # "lost", NEW p \in Plugins
             PROVE  SettledWith(p, mixedWith)'
  BY DEF Settled
<1>0. mixedWith # "lost"
  BY NoCodes DEF MixedByTest
<1>1. /\ SettledWith(p, mixedWith) /\ mixedWith \in Codes \cup {Null}
      /\ connKey'[p] \in {Null, connKey[p]}
      /\ {dbKey[p], dataKey[p]} \subseteq Keys \cup {Null}
      /\ testCode \in Codes \cup {Null, Unreadable}
  BY <1>0 DEF IInv, Settled, TypeInv, TypeOK
<1>2. CASE testCode' = testCode
  BY <1>1, <1>2, NoCodes DEF SettledWith, MixedByTest
<1>3. CASE testCode' # testCode /\ testCode \in Codes
  <2>1. mixedWith = Null /\ mixedWith' = testCode /\ connKey'[p] = Null
    BY <1>3 DEF MixedByTest
  <2> QED BY <1>1, <1>3, <2>1, NoCodes DEF SettledWith
<1>4. CASE testCode' # testCode /\ testCode \notin Codes
  <2>1. {dbKey[p], dataKey[p]} \subseteq {Null, mixedWith}
    BY <1>1, <1>4, NoCodes DEF SettledWith
  <2>2. \/ mixedWith = testCode' /\ mixedWith' = Null
        \/ mixedWith # testCode' /\ mixedWith' = mixedWith
    BY <1>4 DEF MixedByTest
  <2> QED BY <1>1, <2>1, <2>2, NoCodes DEF SettledWith
<1> QED BY <1>2, <1>3, <1>4

\* The beginning of a request that unlocks the daemon, and a start that does.
LEMMA InvBeginUnlock ==
    ASSUME IInv, TypeInv', op.kind \in {"none", "off"}, NEW code \in Codes,
           CompareTestCipherText(code), InitializeUnlock(code),
           op' = Op("unlock", code, {}), mixedWith' = MixedByTest(code),
           UNCHANGED <<dbKey, dataKey, connKey, jobs>>
    PROVE  IInv'
<1>1. /\ op'.kind = "unlock" /\ op'.new = code /\ op'.dbs = Plugins /\ op'.old = keyData
      /\ ~Changing /\ ~Changing'
  BY OpType DEF IInv, TypeInv, Changing
<1>2. /\ testCode' = code /\ ~m_locked' /\ keyData' = code /\ ~testFailed'
      /\ (m_noLockCode' => code = EmptyCode) /\ testCode \in {Null, code}
  BY DEF CompareTestCipherText, InitializeUnlock, Initialize
<1>3. Settled'
  BY <1>1, <1>2, NoCodes, SettledByTest DEF IInv, TypeInv, TypeOK
<1>4. JobsFirst'
  <2>1. mixedWith' # "lost" => mixedWith # "lost"
    BY NoCodes DEF MixedByTest
  <2>2. jobs # {} => ~m_locked
    BY OpKind DEF IInv, TypeInv, JobsFirst, Idle
  <2> QED BY <1>1, <2>1, <2>2 DEF IInv, JobsFirst, CachedKeys
<1> QED
  BY <1>1, <1>2, <1>3, <1>4
     DEF IInv, UnlockedByCurrentCode, CachedKeys, OpUsesStoredCode,
         ClosedSoFar, Progress, LockedProgress, UnlockOpensAll, Changing

\* The beginning of a change of the lock code whose test is written.  In an
\* unlocked daemon the cached keys are those of the code before.
LEMMA InvBeginModify ==
    ASSUME IInv, TypeInv', Idle, testCode \in Codes, NEW new \in Codes,
           InitializeModify(new), op' = Op("modify", new, Plugins),
           UNCHANGED <<dbKey, dataKey, connKey, jobs, mixedWith>>
    PROVE  IInv'
<1>1. /\ ~Changing /\ op'.kind = "modify" /\ op'.old = keyData /\ op'.new = new
      /\ op'.was = testCode /\ op'.dbs = Plugins /\ op'.data = Plugins /\ op.kind = "none"
      /\ Changing' <=> keyData # new
  BY OpType, OpKind DEF IInv, TypeInv, Changing
<1>2. /\ testCode' = new /\ keyData' = new /\ m_locked' = FALSE /\ testFailed' = FALSE
      /\ m_noLockCode' = (new = EmptyCode)
  BY DEF InitializeModify, Initialize
<1>3. ~m_locked /\ mixedWith # "lost" => keyData = testCode
  BY DEF IInv, UnlockedByCurrentCode, CachedKeys
<1>4. m_locked => keyData \in {DummyCode, Null} /\ keyData # new /\ keyData # testCode
  BY NoCodes DEF IInv, CachedKeys
<1>5. mixedWith # "lost" => \A p \in Plugins : SettledWith(p, mixedWith)
  BY <1>1 DEF IInv, Settled
<1>6. Settled'
  <2> SUFFICES ASSUME ~Changing', mixedWith # "lost", NEW p \in Plugins
               PROVE  SettledWith(p, mixedWith)'
    BY DEF Settled
  <2>1. testCode' = testCode
    BY <1>1, <1>2, <1>3, <1>4
  <2> QED BY <1>5, <2>1 DEF SettledWith
<1>7. Progress'
  <2> SUFFICES ASSUME mixedWith \in {Null, new}, testCode # new, keyData = testCode,
                      NEW p \in Plugins
               PROVE  ChangedSoFar(p)'
    BY <1>1 DEF Progress
  <2>1. mixedWith # "lost"
    BY NoCodes
  <2>2. /\ dbKey[p] \in {Null, testCode, mixedWith}
        /\ dataKey[p] \in {Null, testCode, new}
        /\ dataKey[p] = testCode => dbKey[p] \in {Null, testCode}
        /\ mixedWith = Null => dataKey[p] # new
    BY <1>5, <2>1, NoCodes DEF SettledWith
  <2> QED BY <1>1, <1>2, <2>2 DEF ChangedSoFar
<1>8. LockedProgress'
  <2> SUFFICES ASSUME keyData # testCode, mixedWith # "lost",
                      testCode = new \/ mixedWith = Null, NEW p \in Plugins
               PROVE  SettledWith(p, Aside)'
    BY <1>1 DEF LockedProgress
  <2>1. m_locked /\ SettledWith(p, mixedWith)
    BY <1>3, <1>5
  <2>2. CASE testCode = new
    BY <1>1, <1>2, <2>1, <2>2 DEF Aside, SettledWith
  <2>3. CASE testCode # new /\ mixedWith = Null
    <3>1. Aside' = testCode /\ {dbKey[p], dataKey[p]} \subseteq {Null, testCode}
      BY <1>1, <2>1, <2>3 DEF Aside, SettledWith
    <3>2. Closed(p)
      BY <1>1, <2>1 DEF IInv, ClosedSoFar
    <3>3. connKey[p] # testCode
      BY <2>1, <3>1, <3>2, NoCodes DEF Closed, IsMasterLocked, SettledWith
    <3> QED BY <1>2, <2>1, <2>3, <3>1, <3>3, NoCodes DEF SettledWith
  <2> QED BY <2>2, <2>3
<1>9. JobsFirst'
  BY <1>1 DEF IInv, JobsFirst, CachedKeys
<1> QED
  BY <1>1, <1>2, <1>3, <1>4, <1>6, <1>7, <1>8, <1>9
     DEF IInv, UnlockedByCurrentCode, CachedKeys, OpUsesStoredCode,
         ClosedSoFar, UnlockOpensAll

\* The beginning of a change of the lock code whose test could not be written:
\* it goes on with the cached keys, and the test may be another one.
LEMMA InvBeginFailing ==
    ASSUME IInv, TypeInv', Idle, testCode \in Codes,
           testFailed' = (testFailed \/ testCode' # testCode),
           mixedWith' = IF testCode' # testCode \/ m_locked THEN "lost" ELSE mixedWith,
           op' = Op("modify", keyData, Plugins),
           UNCHANGED <<lock, dbKey, dataKey, connKey, jobs>>
    PROVE  IInv'
<1>1. /\ ~Changing /\ ~Changing' /\ op'.kind = "modify" /\ op'.old = keyData
      /\ op'.new = keyData /\ op'.dbs = Plugins /\ op.kind = "none"
  BY OpType, OpKind DEF IInv, TypeInv, TypeOK, Changing
<1>2. mixedWith' # "lost" => /\ mixedWith' = mixedWith /\ testCode' = testCode /\ ~m_locked
                             /\ ~testFailed /\ keyData = testCode
  BY DEF IInv, CachedKeys, UnlockedByCurrentCode
<1>3. Settled'
  BY <1>1, <1>2 DEF IInv, Settled, SettledWith
<1>4. JobsFirst' /\ CachedKeys' /\ ClosedSoFar'
  BY <1>1, <1>2 DEF IInv, JobsFirst, CachedKeys, ClosedSoFar, Closed, IsMasterLocked, lock
<1>5. UnlockedByCurrentCode' /\ OpUsesStoredCode'
  BY <1>1, <1>2 DEF IInv, UnlockedByCurrentCode, OpUsesStoredCode, lock
<1> QED
  BY <1>1, <1>3, <1>4, <1>5 DEF IInv, Progress, LockedProgress, UnlockOpensAll

\* The beginning of forgetLockCode.
LEMMA InvForgetLockCode ==
    ASSUME IInv, TypeInv', ForgetLockCode
    PROVE  IInv'
<1>1. /\ op'.kind = "lock" /\ op'.dbs = Plugins /\ op'.old = keyData
      /\ op.kind = "none" /\ ~Changing /\ ~Changing'
  BY OpType, OpKind DEF IInv, TypeInv, ForgetLockCode, Changing
<1>2. /\ m_locked' = TRUE /\ keyData' = DummyCode
      /\ UNCHANGED <<testCode, m_noLockCode, dbKey, dataKey, connKey, jobs, mixedWith, testFailed>>
  BY DEF ForgetLockCode, InitializeLock, history
<1>3. Settled'
  BY <1>1, <1>2 DEF IInv, Settled, SettledWith
<1>4. JobsFirst'
  BY <1>1, <1>2 DEF IInv, JobsFirst, CachedKeys
<1> QED
  BY <1>1, <1>2, <1>3, <1>4
     DEF IInv, UnlockedByCurrentCode, CachedKeys, OpUsesStoredCode, ClosedSoFar,
         Progress, LockedProgress, UnlockOpensAll

\* masterUnlockPlugins: the connection gets the stored code's key, if it opens.
LEMMA InvUnlockPlugin ==
    ASSUME IInv, TypeInv', NEW p \in Plugins, UnlockPlugin(p)
    PROVE  IInv'
<1>1. /\ op.kind = "unlock" /\ op.new = testCode /\ ~m_locked /\ ~Changing /\ op \in Ops
      /\ testCode # Null /\ testCode \in Codes /\ jobs = {} /\ keyData = testCode
  BY NoCodes, OpKind DEF IInv, TypeInv, UnlockPlugin, OpUsesStoredCode, Changing, PoolFree
<1>2. /\ op'.kind = "unlock" /\ op'.new = op.new /\ op'.dbs = op.dbs \ {p}
      /\ op'.failed \in {op.failed, op.failed \cup {p}} /\ ~Changing'
      /\ UNCHANGED <<testCode, dataKey, lock, jobs, mixedWith, testFailed>>
  BY <1>1 DEF UnlockPlugin, Ops, Changing
<1>3. \A q \in Plugins : q # p => connKey'[q] = connKey[q] /\ dbKey'[q] = dbKey[q]
  BY DEF UnlockPlugin, IInv, TypeInv, TypeOK
<1>4. \/ /\ connKey'[p] = IF IsMasterLocked(p) THEN ConnUnlocked(p, testCode) ELSE connKey[p]
         /\ dbKey'[p] = IF IsMasterLocked(p) THEN FileUnlocked(p, testCode) ELSE dbKey[p]
      \/ UNCHANGED <<connKey, dbKey>> /\ op'.failed = op.failed \cup {p}
  BY <1>1 DEF UnlockPlugin, IInv, TypeInv, TypeOK, Ops
<1>5. /\ connKey'[p] = connKey[p] \/ (connKey'[p] = testCode /\ Opens(p, testCode))
      /\ dbKey'[p] = dbKey[p] \/ (dbKey[p] = Null /\ dbKey'[p] = testCode)
      /\ Opens(p, testCode) /\ connKey'[p] # connKey[p] /\ dbKey[p] = Null =>
            dbKey'[p] = testCode
  BY <1>1, <1>4 DEF ConnUnlocked, FileUnlocked, IsMasterLocked
<1>6. Settled'
  <2> SUFFICES ASSUME mixedWith # "lost", NEW q \in Plugins
               PROVE  SettledWith(q, mixedWith)'
    BY <1>2 DEF Settled
  <2>1. SettledWith(q, mixedWith) /\ SettledWith(p, mixedWith)
    BY <1>1 DEF IInv, Settled
  <2>2. CASE q # p
    BY <1>2, <1>3, <2>1, <2>2 DEF SettledWith
  <2>3. CASE q = p
    <3>1. connKey'[p] # Null => dbKey'[p] # Null
      BY <1>1, <1>5, <2>1 DEF SettledWith, Opens
    <3> QED BY <1>1, <1>2, <1>5, <2>1, <2>3, <3>1 DEF SettledWith
  <2> QED BY <2>2, <2>3
<1>7. UnlockOpensAll'
  <2> SUFFICES ASSUME mixedWith = Null, NEW q \in Plugins, q \notin op'.dbs, q \notin op'.failed
               PROVE  connKey'[q] # Null /\ connKey'[q] = dbKey'[q]
    BY <1>2 DEF UnlockOpensAll, IsMasterLocked
  <2>1. CASE q = p
    <3>1. dbKey[p] \in {Null, testCode}
      BY <1>1, NoCodes DEF IInv, Settled, SettledWith
    <3>2. /\ connKey'[p] = IF IsMasterLocked(p) THEN ConnUnlocked(p, testCode) ELSE connKey[p]
          /\ dbKey'[p] = IF IsMasterLocked(p) THEN FileUnlocked(p, testCode) ELSE dbKey[p]
      BY <1>4, <2>1
    <3> QED
      BY <1>1, <2>1, <3>1, <3>2 DEF ConnUnlocked, FileUnlocked, Opens, IsMasterLocked
  <2>2. CASE q # p
    <3>1. q \in Plugins \ (op.dbs \cup op.failed)
      BY <1>2, <2>2
    <3> QED BY <1>1, <1>3, <2>2, <3>1 DEF IInv, UnlockOpensAll, IsMasterLocked
  <2> QED BY <2>1, <2>2
<1> QED
  BY <1>1, <1>2, <1>6, <1>7
     DEF IInv, UnlockedByCurrentCode, CachedKeys, OpUsesStoredCode, JobsFirst,
         ClosedSoFar, Progress, LockedProgress, lock

\* masterLockPlugins: the connection is closed, or was of no use.
LEMMA InvLockPlugin ==
    ASSUME IInv, TypeInv', NEW p \in Plugins, LockPlugin(p)
    PROVE  IInv'
<1>1. op.kind = "lock" /\ ~Changing /\ op \in Ops /\ jobs = {}
  BY OpKind DEF IInv, TypeInv, LockPlugin, Changing, PoolFree
<1>2. /\ op'.kind = "lock" /\ op'.dbs = op.dbs \ {p} /\ ~Changing'
      /\ UNCHANGED <<disk, lock, jobs, mixedWith, testFailed>>
  BY <1>1 DEF LockPlugin, Ops, Changing, history
<1>3. /\ \A q \in Plugins : q # p => connKey'[q] = connKey[q]
      /\ connKey'[p] = Null \/ (connKey'[p] = connKey[p] /\ IsMasterLocked(p))
  BY DEF LockPlugin, ConnLocked, IInv, TypeInv, TypeOK
<1>4. Settled'
  <2> SUFFICES ASSUME mixedWith # "lost", NEW q \in Plugins
               PROVE  SettledWith(q, mixedWith)'
    BY <1>2 DEF Settled
  <2>1. SettledWith(q, mixedWith)
    BY <1>1 DEF IInv, Settled
  <2>2. connKey'[q] \in {Null, connKey[q]}
    BY <1>3
  <2> QED BY <1>2, <2>1, <2>2, NoCodes DEF SettledWith, disk
<1>5. ClosedSoFar'
  BY <1>1, <1>2, <1>3 DEF IInv, ClosedSoFar, Closed, IsMasterLocked, disk, lock
<1> QED
  BY <1>1, <1>2, <1>4, <1>5
     DEF IInv, UnlockedByCurrentCode, CachedKeys, OpUsesStoredCode, JobsFirst,
         UnlockOpensAll, Progress, LockedProgress, disk, lock

\* modifyMasterLockPlugins: the metadata database of plugin p is rekeyed, unless
\* it has the new key already (after a stop), or a key that is neither the old
\* nor the new one (in a locked daemon), or the write fails.
LEMMA InvRekeyPlugin ==
    ASSUME IInv, TypeInv', NEW p \in Plugins, RekeyPlugin(p)
    PROVE  IInv'
<1>1. op.kind = "modify" /\ p \in op.dbs /\ op \in Ops /\ jobs = {}
  BY OpKind DEF IInv, TypeInv, RekeyPlugin, PoolFree
<1>2. /\ op'.kind = "modify" /\ op'.old = op.old /\ op'.new = op.new /\ op'.was = op.was
      /\ op'.dbs = op.dbs \ {p} /\ op'.data = op.data
      /\ op'.failed = {} => op.failed = {}
      /\ Changing' <=> Changing
      /\ UNCHANGED <<testCode, dataKey, lock, jobs, mixedWith, testFailed>>
  BY <1>1 DEF RekeyPlugin, Ops, Changing
<1>3. \A q \in Plugins : q # p => connKey'[q] = connKey[q] /\ dbKey'[q] = dbKey[q]
  BY DEF RekeyPlugin, IInv, TypeInv, TypeOK
<1>4. \/ /\ op'.failed # {} /\ dbKey'[p] = op.old /\ connKey'[p] = op.old
         /\ Opens(p, op.old) /\ FileUnlocked(p, op.old) = op.old
      \/ /\ dbKey'[p] = op.new /\ connKey'[p] = op.new
         /\ Opens(p, op.old) /\ FileUnlocked(p, op.old) = op.old
      \/ /\ ~Opens(p, op.old) \/ FileUnlocked(p, op.old) # op.old
         /\ dbKey'[p] = dbKey[p] /\ connKey'[p] = ConnUnlocked(p, op.old)
  <2>1. [op EXCEPT !.dbs = @ \ {p}, !.failed = @ \cup {p}].failed = op.failed \cup {p}
    BY <1>1 DEF Ops
  <2>2. \A key : /\ [dbKey EXCEPT ![p] = key][p] = key
                 /\ [connKey EXCEPT ![p] = key][p] = key
    BY DEF IInv, TypeInv, TypeOK
  <2> QED BY <2>1, <2>2 DEF RekeyPlugin
<1>5. /\ Opens(p, op.old) => op.old # Null
      /\ FileUnlocked(p, op.old) = op.old => dbKey[p] \in {Null, op.old}
      /\ ConnUnlocked(p, op.old) # connKey[p] =>
            Opens(p, op.old) /\ ConnUnlocked(p, op.old) = op.old
      /\ Opens(p, op.old) /\ FileUnlocked(p, op.old) # op.old =>
            dbKey[p] # Null /\ dbKey[p] # op.old
  BY DEF FileUnlocked, Opens, ConnUnlocked
<1>6. ASSUME NEW w \in Codes \cup {Null}, op'.failed = {},
             \A q \in Plugins : SettledWith(q, w),
             op.new = testCode, testCode \in Codes, op.old \in {testCode, DummyCode, Null},
             NEW q \in Plugins
      PROVE  SettledWith(q, w)'
  <2>1. SettledWith(q, w) /\ SettledWith(p, w)
    BY <1>6
  <2>2. CASE q # p
    BY <1>2, <1>3, <2>1, <2>2 DEF SettledWith
  <2>3. CASE q = p
    <3>1. CASE dbKey'[p] = testCode /\ connKey'[p] = testCode /\ dbKey[p] \in {Null, op.old}
      BY <1>2, <1>6, <2>1, <2>3, <3>1, NoCodes DEF SettledWith
    <3>2. CASE dbKey'[p] = dbKey[p] /\ connKey'[p] = connKey[p]
      BY <1>2, <2>1, <2>3, <3>2 DEF SettledWith
    <3>3. CASE dbKey'[p] = dbKey[p] /\ connKey'[p] = op.old /\ dbKey[p] # Null
      BY <1>2, <1>6, <2>1, <2>3, <3>3, NoCodes DEF SettledWith
    <3> QED BY <1>4, <1>5, <1>6, <3>1, <3>2, <3>3
  <2> QED BY <2>2, <2>3
<1>7. Settled'
  <2> SUFFICES ASSUME ~Changing, mixedWith # "lost"
               PROVE  \A q \in Plugins : SettledWith(q, mixedWith)'
    BY <1>2 DEF Settled
  <2>1. op.old = op.new /\ op.old = testCode /\ testCode \in Codes
    BY <1>1 DEF IInv, OpUsesStoredCode, Changing
  <2> SUFFICES ASSUME NEW q \in Plugins PROVE SettledWith(q, mixedWith)'
    OBVIOUS
  <2>2. SettledWith(q, mixedWith) /\ SettledWith(p, mixedWith)
    BY DEF IInv, Settled
  <2>3. CASE q # p
    BY <1>2, <1>3, <2>2, <2>3 DEF SettledWith
  <2>4. CASE q = p
    <3>1. \/ dbKey'[p] = testCode /\ connKey'[p] = testCode /\ dbKey[p] \in {Null, testCode}
          \/ dbKey'[p] = dbKey[p] /\ connKey'[p] = connKey[p]
          \/ dbKey'[p] = dbKey[p] /\ connKey'[p] = testCode /\ dbKey[p] # Null
      BY <1>4, <1>5, <2>1
    <3> QED BY <1>2, <2>1, <2>2, <2>4, <3>1, NoCodes DEF SettledWith
  <2> QED BY <2>3, <2>4
<1>8. LockedProgress'
  <2> SUFFICES ASSUME Changing, op'.failed = {}, op.old # op.was, mixedWith # "lost",
                      op.was = op.new \/ mixedWith = Null
               PROVE  \A q \in Plugins : SettledWith(q, Aside)'
    BY <1>2 DEF LockedProgress, Aside
  <2>1. /\ op.new = testCode /\ testCode \in Codes /\ op.old \in {DummyCode, Null}
        /\ \A q \in Plugins : SettledWith(q, Aside)
        /\ Aside \in Codes \cup {Null} /\ Aside' = Aside
    BY <1>1, <1>2 DEF IInv, OpUsesStoredCode, LockedProgress, Aside, TypeInv, TypeOK
  <2> DEFINE w == Aside
  <2>2. \A q \in Plugins : SettledWith(q, w)'
    BY <1>6, <2>1
  <2> QED BY <2>1, <2>2
<1>9. Progress'
  <2> SUFFICES ASSUME Changing, op'.failed = {}, op.old = op.was, mixedWith \in {Null, op.new},
                      NEW q \in Plugins
               PROVE  ChangedSoFar(q)'
    BY <1>2 DEF Progress
  <2>0. /\ op.new = testCode /\ testCode \in Codes /\ op.old \in Codes
        /\ op.old # op.new /\ op.old # Null /\ op.new # Null
    BY <1>1, NoCodes DEF IInv, TypeInv, OpUsesStoredCode, Changing
  <2>1. ChangedSoFar(q) /\ ChangedSoFar(p)
    BY <1>2 DEF IInv, Progress
  <2>2. CASE q # p
    BY <1>1, <1>2, <1>3, <2>1, <2>2 DEF ChangedSoFar
  <2>3. CASE q = p
    <3>1. dbKey[p] \in {Null, op.old, mixedWith}
          /\ (dataKey[p] = op.old => dbKey[p] \in {Null, op.old})
          /\ dataKey[p] \in {Null, op.old, op.new}
          /\ p \in op.data
      BY <1>1, <2>1 DEF ChangedSoFar
    <3>2. dbKey'[p] = op.new /\ (dataKey[p] = op.old => connKey'[p] = op.new)
      <4>1. CASE dbKey[p] \in {Null, op.old}
        BY <1>4, <2>0, <4>1 DEF FileUnlocked, Opens
      <4>2. CASE dbKey[p] = op.new
        BY <1>4, <1>5, <2>0, <3>1, <4>2
      <4> QED BY <3>1, <4>1, <4>2
    <3> QED BY <1>1, <1>2, <2>1, <2>3, <3>1, <3>2 DEF ChangedSoFar
  <2> QED BY <2>2, <2>3
<1>10. ClosedSoFar'
  <2> SUFFICES ASSUME m_locked PROVE \A q \in Plugins : Closed(q)'
    BY <1>1, <1>2 DEF IInv, ClosedSoFar, lock
  <2>1. /\ op.old = op.new /\ op.old \in {DummyCode, Null}
        /\ \A q \in Plugins : Closed(q)
    BY <1>1 DEF IInv, ClosedSoFar, CachedKeys
  <2>2. Closed(p)'
    BY <1>4, <1>5, <2>1 DEF Closed, IsMasterLocked
  <2> QED BY <1>3, <2>1, <2>2 DEF Closed, IsMasterLocked
<1> QED
  BY <1>1, <1>2, <1>7, <1>8, <1>9, <1>10
     DEF IInv, UnlockedByCurrentCode, CachedKeys, OpUsesStoredCode, JobsFirst,
         UnlockOpensAll, lock

\* unlockDeviceLockedCollectionsAndReencrypt: the data of plugin p gets the new
\* key if it has the old one, unless the write fails.
LEMMA InvReencryptData ==
    ASSUME IInv, TypeInv', NEW p \in Plugins, ReencryptData(p)
    PROVE  IInv'
<1>1. op.kind = "modify" /\ op.dbs = {} /\ op \in Ops /\ jobs = {}
  BY OpKind DEF IInv, TypeInv, ReencryptData, PoolFree
<1>2. /\ op'.kind = "modify" /\ op'.old = op.old /\ op'.new = op.new /\ op'.was = op.was
      /\ op'.dbs = {} /\ op'.data = op.data \ {p}
      /\ op'.failed = {} => op.failed = {}
      /\ Changing' <=> Changing
      /\ UNCHANGED <<testCode, dbKey, connKey, lock, jobs, mixedWith, testFailed>>
  BY <1>1 DEF ReencryptData, Ops, Changing
<1>3. \A q \in Plugins : q # p => dataKey'[q] = dataKey[q]
  BY DEF ReencryptData, IInv, TypeInv, TypeOK
<1>4. \/ op'.failed # {} /\ dataKey'[p] = dataKey[p]
      \/ dataKey'[p] = IF ~IsMasterLocked(p) /\ dataKey[p] # Null /\ dataKey[p] = op.old
                       THEN op.new ELSE dataKey[p]
  <2>1. [op EXCEPT !.data = @ \ {p}, !.failed = @ \cup {p}].failed = op.failed \cup {p}
    BY <1>1 DEF Ops
  <2>2. \A key : [dataKey EXCEPT ![p] = key][p] = key
    BY DEF IInv, TypeInv, TypeOK
  <2> QED BY <2>1, <2>2 DEF ReencryptData
<1>5. Settled'
  <2> SUFFICES ASSUME ~Changing, mixedWith # "lost", NEW q \in Plugins
               PROVE  SettledWith(q, mixedWith)'
    BY <1>2 DEF Settled
  <2>1. dataKey'[q] = dataKey[q] /\ SettledWith(q, mixedWith)
    BY <1>1, <1>3, <1>4 DEF Changing, IInv, Settled
  <2> QED BY <1>2, <2>1 DEF SettledWith
<1>6. LockedProgress'
  <2> SUFFICES ASSUME Changing, op'.failed = {}, op.old # op.was, mixedWith # "lost",
                      op.was = op.new \/ mixedWith = Null, NEW q \in Plugins
               PROVE  SettledWith(q, Aside)'
    BY <1>2 DEF LockedProgress, Aside
  <2>1. /\ op.new = testCode /\ testCode \in Codes /\ op.old \in {DummyCode, Null}
        /\ SettledWith(q, Aside) /\ SettledWith(p, Aside)
        /\ Aside \in Codes \cup {Null} /\ Aside' = Aside
    BY <1>1, <1>2 DEF IInv, OpUsesStoredCode, LockedProgress, Aside, TypeInv, TypeOK
  <2>2. dataKey[p] \in {Null, testCode, Aside}
    BY <2>1 DEF SettledWith
  <2>3. dataKey'[q] = dataKey[q]
    BY <1>3, <1>4, <2>1, <2>2, NoCodes
  <2> QED BY <1>2, <2>1, <2>3 DEF SettledWith
<1>7. Progress'
  <2> SUFFICES ASSUME Changing, op'.failed = {}, op.old = op.was, mixedWith \in {Null, op.new},
                      NEW q \in Plugins
               PROVE  ChangedSoFar(q)'
    BY <1>2 DEF Progress
  <2>0. op.old \in Codes /\ op.old # op.new /\ op.old # Null /\ op.new # Null
    BY <1>1, NoCodes DEF IInv, TypeInv, OpUsesStoredCode, Changing
  <2>1. ChangedSoFar(q) /\ ChangedSoFar(p)
    BY <1>2 DEF IInv, Progress
  <2>2. CASE q # p
    BY <1>1, <1>2, <1>3, <2>1, <2>2 DEF ChangedSoFar
  <2>3. CASE q = p
    <3>1. dataKey[p] = op.old => ~IsMasterLocked(p)
      BY <1>1, <2>0, <2>1 DEF ChangedSoFar, IsMasterLocked
    <3>2. dataKey'[p] = IF dataKey[p] = op.old THEN op.new ELSE dataKey[p]
      BY <1>4, <2>0, <3>1
    <3> QED BY <1>1, <1>2, <2>0, <2>1, <2>3, <3>2 DEF ChangedSoFar
  <2> QED BY <2>2, <2>3
<1> QED
  BY <1>1, <1>2, <1>5, <1>6, <1>7
     DEF IInv, UnlockedByCurrentCode, CachedKeys, OpUsesStoredCode, JobsFirst,
         ClosedSoFar, Closed, IsMasterLocked, UnlockOpensAll, lock

\* A createCollection job: it writes with the stored code's key, on a database
\* that is open and so has that key too, or else the keys are lost.
LEMMA InvCreateCollectionJob ==
    ASSUME IInv, TypeInv', NEW p \in Plugins, CreateCollectionJob(p)
    PROVE  IInv'
<1>1. /\ jobs # {} /\ jobs' \subseteq jobs
      /\ UNCHANGED <<testCode, dbKey, lock, connKey, op, testFailed>>
      /\ \A q \in Plugins : q # p => dataKey'[q] = dataKey[q]
      /\ Changing' <=> Changing
      /\ \A q \in Plugins : IsMasterLocked(q)' <=> IsMasterLocked(q)
  BY DEF CreateCollectionJob, IInv, TypeInv, TypeOK, Changing, IsMasterLocked
<1>2. CASE dataKey' = dataKey /\ mixedWith' = mixedWith
  BY <1>1, <1>2
     DEF IInv, UnlockedByCurrentCode, CachedKeys, OpUsesStoredCode, JobsFirst, Closed,
         ClosedSoFar, Settled, SettledWith, Progress, LockedProgress, Aside,
         UnlockOpensAll, ChangedSoFar, Changing, Idle, lock
<1>3. CASE mixedWith' = "lost"
  BY <1>1, <1>3, NoCodes
     DEF IInv, TypeInv, TypeOK, UnlockedByCurrentCode, CachedKeys, OpUsesStoredCode,
         JobsFirst, Closed, ClosedSoFar, Settled, Progress, LockedProgress,
         UnlockOpensAll, Changing, Idle, lock
<1>4. CASE /\ Idle \/ op.old = keyData
           /\ dataKey'[p] = keyData /\ mixedWith' = mixedWith /\ mixedWith # "lost"
           /\ ~IsMasterLocked(p)
  <2>1. ~Changing /\ keyData = testCode /\ testCode \in Codes
    <3>1. CASE Idle
      BY <1>1, <1>4, <3>1, OpKind
         DEF IInv, TypeInv, JobsFirst, CachedKeys, UnlockedByCurrentCode, Changing
    <3>2. CASE ~Idle
      <4>1. op.kind \in {"unlock", "lock", "modify"} /\ op.old \in Codes /\ op.old = keyData
        BY <1>1, <1>4, <3>2 DEF IInv, JobsFirst
      <4>2. op.kind # "lock"
        BY <4>1, NoCodes DEF IInv, OpUsesStoredCode, CachedKeys
      <4>3. ~Changing
        BY <4>1 DEF IInv, OpUsesStoredCode, Changing
      <4> QED BY <1>4, <4>1, <4>2, <4>3 DEF IInv, OpUsesStoredCode
    <3> QED BY <3>1, <3>2
  <2>2. Settled'
    <3> SUFFICES ASSUME NEW q \in Plugins PROVE SettledWith(q, mixedWith)'
      BY <1>4 DEF Settled
    <3>1. SettledWith(q, mixedWith) /\ SettledWith(p, mixedWith)
      BY <1>4, <2>1 DEF IInv, Settled
    <3>2. CASE q # p
      BY <1>1, <1>4, <3>1, <3>2 DEF SettledWith
    <3>3. CASE q = p
      <4>1. mixedWith \in Codes => dbKey[p] = testCode
        BY <1>4, <3>1 DEF SettledWith, IsMasterLocked
      <4> QED BY <1>1, <1>4, <2>1, <3>1, <3>3, <4>1 DEF SettledWith
    <3> QED BY <3>2, <3>3
  <2> QED
    BY <1>1, <1>4, <2>1, <2>2
       DEF IInv, UnlockedByCurrentCode, CachedKeys, OpUsesStoredCode, JobsFirst, Closed,
           ClosedSoFar, Progress, LockedProgress, UnlockOpensAll, Changing, Idle, lock
<1>5. CASE mixedWith = "lost" /\ mixedWith' = mixedWith
  BY <1>3, <1>5
<1>6. ASSUME ~IsMasterLocked(p), NEW key \in KeysRead,
             dataKey' = [dataKey EXCEPT ![p] = key],
             mixedWith' = IF ~Idle /\ op.old # keyData THEN "lost" ELSE mixedWith
      PROVE  \/ mixedWith' = "lost"
             \/ (Idle \/ op.old = keyData) /\ dataKey'[p] = keyData /\ mixedWith' = mixedWith
  BY <1>6 DEF KeysRead, IInv, TypeInv, TypeOK
<1> QED BY <1>2, <1>3, <1>4, <1>5, <1>6 DEF CreateCollectionJob

\* What a change that has begun leaves, when it is done or cut short.
LEMMA SettledByChange ==
    ASSUME IInv, TypeInv', Changing, ~Changing', NEW done \in BOOLEAN,
           mixedWith' = Mixed(done), done => op.dbs = {} /\ op.data = {},
           UNCHANGED disk,
           \/ done /\ connKey' = connKey
           \/ \A p \in Plugins : connKey'[p] = Null
    PROVE  Settled'
<1> SUFFICES ASSUME mixedWith' # "lost", NEW p \in Plugins
             PROVE  SettledWith(p, mixedWith)'
  BY DEF Settled
<1>1. /\ op.old # op.new /\ op.new = testCode /\ testCode \in Codes /\ op.failed = {}
      /\ op.was \in Codes
  BY DEF Changing, Mixed, IInv, OpUsesStoredCode, TypeInv
<1>2. connKey'[p] \in {Null, connKey[p]} /\ dbKey'[p] = dbKey[p] /\ dataKey'[p] = dataKey[p]
      /\ testCode' = testCode
  BY DEF disk
<1>3. CASE op.was = op.new
  <2>1. mixedWith' = mixedWith /\ op.old # op.was
    BY <1>1, <1>3 DEF Mixed
  <2>2. SettledWith(p, mixedWith)
    BY <1>1, <1>3, <2>1 DEF IInv, LockedProgress, Aside
  <2> QED BY <1>2, <2>1, <2>2, NoCodes DEF SettledWith
<1>4. CASE op.was # op.new /\ op.old # op.was
  <2>1. mixedWith' = op.was /\ mixedWith = Null
    BY <1>1, <1>4 DEF Mixed
  <2>2. SettledWith(p, op.was)
    BY <1>1, <1>4, <2>1, NoCodes DEF IInv, LockedProgress, Aside
  <2> QED BY <1>2, <2>1, <2>2, NoCodes DEF SettledWith
<1>5. CASE op.was # op.new /\ op.old = op.was /\ done
  <2>1. mixedWith' = Null /\ mixedWith \in {Null, op.new}
    BY <1>1, <1>5 DEF Mixed
  <2>2. ChangedSoFar(p)
    BY <1>1, <1>5, <2>1 DEF IInv, Progress
  <2> QED BY <1>1, <1>2, <1>5, <2>1, <2>2, NoCodes DEF ChangedSoFar, SettledWith
<1>6. CASE op.was # op.new /\ op.old = op.was /\ ~done
  <2>1. mixedWith' = op.was /\ mixedWith = Null /\ connKey'[p] = Null
    BY <1>1, <1>6 DEF Mixed
  <2>2. ChangedSoFar(p)
    BY <1>1, <1>6, <2>1 DEF IInv, Progress
  <2>3. /\ dbKey[p] \in {Null, op.old, op.new} /\ dataKey[p] \in {Null, op.old, op.new}
        /\ dataKey[p] = op.new => dbKey[p] = op.new
    BY <1>1, <2>1, <2>2 DEF ChangedSoFar
  <2> QED BY <1>1, <1>2, <1>6, <2>1, <2>3, NoCodes DEF SettledWith
<1> QED BY <1>3, <1>4, <1>5, <1>6

\* A request that is not a change to another code ends with the keys settled.
LEMMA NotChanging ==
    ASSUME ~Changing, op.kind = "modify"
    PROVE  \A done \in BOOLEAN : Mixed(done) = mixedWith
BY DEF Changing, Mixed

\* The end of a request: after a change without a failing write the keys agree.
LEMMA InvEndOp ==
    ASSUME IInv, TypeInv', EndOp
    PROVE  IInv'
<1>1. /\ op.kind \in {"unlock", "lock", "modify"} /\ ~Idle /\ op.dbs = {} /\ op.data = {}
      /\ op'.kind = "none" /\ op'.dbs = {} /\ ~Changing'
      /\ UNCHANGED <<disk, lock, connKey, jobs, testFailed>>
  BY OpKind DEF EndOp, NoOp, IInv, TypeInv, Changing
<1>2. jobs = {}
  <2>1. Plugins = {} => jobs = {}
    BY DEF IInv, TypeInv, TypeOK
  <2> QED BY <1>1, <2>1 DEF IInv, JobsFirst
<1>3. Settled'
  <2>1. CASE ~Changing
    <3>1. mixedWith' = mixedWith
      BY <2>1, NotChanging DEF EndOp
    <3> QED BY <1>1, <2>1, <3>1 DEF IInv, Settled, SettledWith, disk
  <2>2. CASE Changing
    <3>1. mixedWith' = Mixed(TRUE) /\ connKey' = connKey
      BY <2>2 DEF EndOp, Changing
    <3> QED BY <1>1, <2>2, <3>1, SettledByChange
  <2> QED BY <2>1, <2>2
<1>4. CachedKeys'
  <2>1. mixedWith = "lost" => mixedWith' = "lost"
    BY NoCodes DEF EndOp, Mixed, IInv, OpUsesStoredCode, Changing
  <2> QED BY <1>1, <2>1 DEF IInv, CachedKeys, lock
<1>5. ClosedSoFar'
  BY <1>1 DEF IInv, ClosedSoFar, Closed, IsMasterLocked, disk, lock
<1> QED
  BY <1>1, <1>2, <1>3, <1>4, <1>5
     DEF IInv, UnlockedByCurrentCode, OpUsesStoredCode, JobsFirst, Progress,
         LockedProgress, UnlockOpensAll, disk, lock

\* A start.
LEMMA InvStart ==
    ASSUME IInv, TypeInv', Start
    PROVE  IInv'
<1>1. op.kind = "off" /\ op.dbs = {} /\ ~Changing /\ m_locked /\ ~m_noLockCode /\ jobs = {}
  BY OpKind DEF Start, IInv, TypeInv, Changing, CachedKeys, JobsFirst
<1>2. CASE /\ CompareTestCipherText(EmptyCode) /\ InitializeUnlock(EmptyCode)
           /\ op' = Op("unlock", EmptyCode, {}) /\ mixedWith' = MixedByTest(EmptyCode)
  BY <1>1, <1>2, NoCodes, InvBeginUnlock DEF Start
<1>3. CASE op' = NoOp
  <2>1. op'.kind = "none" /\ op'.dbs = {} /\ ~Changing'
    BY <1>3 DEF NoOp, Changing
  <2>2. /\ UNCHANGED <<lock, dbKey, dataKey, connKey, jobs, testFailed>>
        /\ mixedWith' = MixedByTest(testCode')
        /\ testCode' = testCode \/ testCode = Null
    <3>1. NoOp # Op("unlock", EmptyCode, {})
      BY DEF NoOp, Op
    <3>2. testCode' = testCode => MixedByTest(testCode') = mixedWith
      BY DEF MixedByTest
    <3> QED BY <1>3, <3>1, <3>2 DEF Start
  <2>3. Settled'
    <3>1. testCode' \in Codes \cup {Null, Unreadable}
      BY DEF TypeInv, TypeOK
    <3>2. testCode \in Codes => testCode' = testCode
      BY <2>2, NoCodes
    <3> QED BY <1>1, <2>1, <2>2, <3>1, <3>2, SettledByTest
  <2>4. CachedKeys' /\ ClosedSoFar'
    <3>1. mixedWith = "lost" => mixedWith' = "lost"
      BY <2>2, NoCodes DEF MixedByTest, TypeInv, TypeOK
    <3> QED
      BY <1>1, <2>1, <2>2, <3>1
         DEF IInv, CachedKeys, ClosedSoFar, Closed, IsMasterLocked, lock
  <2> QED
    BY <1>1, <2>1, <2>2, <2>3, <2>4
       DEF IInv, UnlockedByCurrentCode, OpUsesStoredCode, JobsFirst, Progress,
           LockedProgress, UnlockOpensAll, lock
<1> QED BY <1>2, <1>3 DEF Start

\* A stop: cut short, a change leaves keys of the old and of the new code, and
\* a test that was being written may be any of those.
LEMMA InvStop ==
    ASSUME IInv, TypeInv', Stop
    PROVE  IInv'
<1>1. /\ jobs' = {} /\ UNCHANGED <<dbKey, dataKey>> /\ op'.kind = "off" /\ op'.dbs = {}
      /\ m_locked' = TRUE /\ m_noLockCode' = FALSE /\ keyData' = Null /\ testFailed' = FALSE
      /\ ~Changing' /\ \A p \in Plugins : connKey'[p] = Null
  BY DEF Stop, Off, NoOp, Changing
<1>2. Settled'
  <2>1. CASE mixedWith' = (IF op.kind = "modify" THEN Mixed(FALSE) ELSE mixedWith)
             /\ UNCHANGED testCode
    <3>1. CASE ~Changing
      <4>1. mixedWith' = mixedWith
        BY <2>1, <3>1, NotChanging
      <4>2. MixedByTest(testCode') = mixedWith
        BY <2>1 DEF MixedByTest
      <4> QED BY <1>1, <2>1, <3>1, <4>1, <4>2, SettledByTest DEF TypeInv, TypeOK
    <3>2. CASE Changing
      <4>1. mixedWith' = Mixed(FALSE) /\ UNCHANGED disk
        BY <1>1, <2>1, <3>2 DEF Changing, disk
      <4> QED BY <1>1, <3>2, <4>1, SettledByChange
    <3> QED BY <3>1, <3>2
  <2>2. ASSUME NEW code \in Writing, mixedWith' = MixedByTest(testCode')
        PROVE  Settled'
    <3>1. ~Changing
      BY OpKind DEF Writing, IInv, TypeInv, Changing
    <3>2. testCode' \in Codes \cup {Null, Unreadable}
      BY DEF TypeInv, TypeOK
    <3> QED BY <1>1, <2>2, <3>1, <3>2, SettledByTest
  <2> QED BY <2>1, <2>2 DEF Stop
<1> QED
  BY <1>1, <1>2
     DEF IInv, UnlockedByCurrentCode, CachedKeys, OpUsesStoredCode, JobsFirst,
         ClosedSoFar, Closed, IsMasterLocked, UnlockOpensAll, Progress, LockedProgress

\* The invariant holds before the first start.
LEMMA InvInit == Init => IInv
<1> SUFFICES ASSUME Init PROVE IInv
  OBVIOUS
<1>1. TypeInv /\ op.kind = "off" /\ op.dbs = {}
  BY TypeInit DEF Init, Off, NoOp
<1>2. \A p \in Plugins : dbKey[p] = Null /\ dataKey[p] = Null /\ connKey[p] = Null
  BY DEF Init
<1>3. Settled
  BY <1>2, NoCodes DEF Init, Settled, SettledWith
<1> QED
  BY <1>1, <1>2, <1>3
     DEF Init, IInv, UnlockedByCurrentCode, CachedKeys, OpUsesStoredCode, JobsFirst,
         ClosedSoFar, Closed, IsMasterLocked, Progress, LockedProgress, UnlockOpensAll,
         Changing

\* Every step keeps the invariant.
LEMMA InvStep == IInv /\ [Next]_vars => IInv'
<1> SUFFICES ASSUME IInv, [Next]_vars PROVE IInv'
  OBVIOUS
<1>0. TypeInv' /\ TypeOK
  BY TypeStep DEF IInv, TypeInv
<1>1. ASSUME NEW r \in Requests, ProvideLockCode(r)
      PROVE  IInv'
  <2>1. CASE /\ m_noLockCode /\ CompareTestCipherText(EmptyCode)
             /\ InitializeUnlock(EmptyCode) /\ op' = Op("unlock", EmptyCode, {})
    <3>1. op.kind = "none" /\ UNCHANGED <<dbKey, dataKey, connKey, jobs, mixedWith>>
      BY <1>0, <1>1, OpKind DEF ProvideLockCode
    <3>2. MixedByTest(EmptyCode) = mixedWith
      <4>1. CASE testCode = EmptyCode
        BY <4>1 DEF MixedByTest
      <4>2. CASE testCode # EmptyCode
        BY <2>1, <4>2, NoCodes
           DEF MixedByTest, CompareTestCipherText, IInv, UnlockedByCurrentCode, CachedKeys
      <4> QED BY <4>1, <4>2
    <3> QED BY <1>0, <2>1, <3>1, <3>2, NoCodes, InvBeginUnlock
  <2>2. CASE UNCHANGED <<testCode, lock, op, testFailed>>
    BY <1>0, <1>1, <2>2, InvUnchanged DEF ProvideLockCode, disk
  <2> QED BY <1>1, <2>1, <2>2 DEF ProvideLockCode
<1>2. ASSUME NEW r \in Requests, ModifyLockCode(r) \/ RequestFails(r)
      PROVE  IInv'
  BY <1>0, <1>2, InvUnchanged DEF ModifyLockCode, RequestFails, history
<1>3. ASSUME NEW r \in Requests, NEW code \in Codes, ProvideLockCodeWithLockCode(r, code)
      PROVE  IInv'
  <2>1. op.kind = "none" /\ UNCHANGED <<dbKey, dataKey, connKey, jobs, mixedWith>>
    BY <1>0, <1>3, OpKind DEF ProvideLockCodeWithLockCode
  <2>2. MixedByTest(code) = mixedWith
    BY <1>3 DEF ProvideLockCodeWithLockCode, TestLockCode, MixedByTest
  <2> QED BY <1>0, <1>3, <2>1, <2>2, InvBeginUnlock DEF ProvideLockCodeWithLockCode
<1>4. ASSUME NEW r \in Requests, NEW code \in Codes, ModifyLockCodeWithLockCode(r, code)
      PROVE  IInv'
  BY <1>0, <1>4, InvUnchanged DEF ModifyLockCodeWithLockCode, history
<1>5. ASSUME NEW r \in Requests, NEW code \in Codes, ModifyLockCodeWithLockCodes(r, code)
      PROVE  IInv'
  <2>1. Idle /\ testCode \in Codes
    BY <1>0, <1>5, OldCodeAsked DEF ModifyLockCodeWithLockCodes, TestLockCode
  <2>2. CASE InitializeModify(code) /\ op' = Op("modify", code, Plugins)
             /\ UNCHANGED mixedWith
    BY <1>0, <1>5, <2>1, <2>2, InvBeginModify DEF ModifyLockCodeWithLockCodes
  <2>3. CASE /\ testFailed' = (testFailed \/ testCode' # testCode)
             /\ mixedWith' = (IF testCode' # testCode \/ m_locked THEN "lost" ELSE mixedWith)
             /\ op' = Op("modify", keyData, Plugins)
             /\ UNCHANGED lock
    BY <1>0, <1>5, <2>1, <2>3, InvBeginFailing DEF ModifyLockCodeWithLockCodes
  <2> QED BY <1>5, <2>2, <2>3 DEF ModifyLockCodeWithLockCodes
<1>6. ASSUME NEW p \in Plugins, CreateDeviceLockCollection(p)
      PROVE  IInv'
  <2>1. Idle /\ ~m_locked /\ UNCHANGED <<disk, lock, connKey, op, testFailed, mixedWith>>
    BY <1>6 DEF CreateDeviceLockCollection, history
  <2> QED
    BY <1>0, <2>1
       DEF IInv, UnlockedByCurrentCode, CachedKeys, OpUsesStoredCode, JobsFirst, Closed,
           ClosedSoFar, Settled, SettledWith, Progress, LockedProgress, Aside,
           UnlockOpensAll, ChangedSoFar, Changing, IsMasterLocked, Idle, disk, lock
<1>7. ASSUME NEW p \in Plugins, Pool(p)
      PROVE  IInv'
  BY <1>0, <1>7, InvUnlockPlugin, InvLockPlugin, InvRekeyPlugin, InvReencryptData,
     InvCreateCollectionJob DEF Pool
<1>8. CASE UNCHANGED vars
  BY <1>0, <1>8, InvUnchanged DEF vars, disk, lock
<1> QED
  BY <1>0, <1>1, <1>2, <1>3, <1>4, <1>5, <1>6, <1>7, <1>8, InvForgetLockCode, InvEndOp,
     InvStart, InvStop DEF Next, UserInput
-----------------------------------------------------------------------------
(* The safety properties. *)

\* The daemon is never unlocked with keys other than those of the stored code,
\* whatever codes are entered, changed or forgotten, and whenever it is stopped,
\* unless a write of the test was reported as failed and replaced it.
THEOREM AlwaysUnlockedByCurrentCode == Spec => []UnlockedByCurrentCode
<1>1. IInv => UnlockedByCurrentCode
  BY DEF IInv
<1> QED BY <1>1, InvInit, InvStep, PTL DEF Spec

\* Between requests, the keys of all databases and of all device-locked data
\* are the stored code's, or those of one code before it, to which the code can
\* be changed back, unless a write of a change failed or a job wrote data while
\* a request replaced the cached keys.
THEOREM KeysAlwaysAgree == Spec => []KeysAgree
<1>1. IInv => KeysAgree
  BY DEF IInv, KeysAgree, Settled, SettledWith, Changing
<1> QED BY <1>1, InvInit, InvStep, PTL DEF Spec

\* Between requests, a locked daemon has no readable metadata database but one
\* with the keys of no code.
THEOREM LockedAlwaysClosed == Spec => []LockedMeansClosed
<1>1. IInv => LockedMeansClosed
  BY OpKind DEF IInv, TypeInv, LockedMeansClosed, ClosedSoFar, Closed
<1> QED BY <1>1, InvInit, InvStep, PTL DEF Spec

\* Unlocking opens every metadata database that does not fail, as long as the
\* keys agree.
THEOREM UnlockAlwaysOpensAll == Spec => []UnlockOpensAll
<1>1. IInv => UnlockOpensAll
  BY DEF IInv
<1> QED BY <1>1, InvInit, InvStep, PTL DEF Spec
=============================================================================
