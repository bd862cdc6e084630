--------------------------- MODULE ServerAuthProofs ---------------------------
(***************************************************************************)
(* Type correctness, ownership of CDevice objects, the keys a server is    *)
(* checked against, and the revocation of a lone server in ServerAuth, for *)
(* every number of devices, addresses, scan tasks, attempts and keys.      *)
(***************************************************************************)
EXTENDS ServerAuth, TLAPS

ObjectRecord == [pc : ProbeStates \cup {"free", "kept"},
                 address : Addresses \cup {None},
                 attempt : 0..(MAX_ATTEMPTS - 1),
                 key : Generations,
                 queued : BOOLEAN]

LEMMA FreeObjectType == FreeObject \in ObjectRecord
  BY ServerAuthAssumption DEF FreeObject, ObjectRecord, Generations, ProbeStates

\* One field of one object changes: the objects stay typed, and the other fields
\* and the other objects are as they were.
LEMMA PcUpdate ==
  ASSUME NEW current \in [Objects -> ObjectRecord], NEW o \in Objects,
         NEW pc \in ProbeStates \cup {"free", "kept"}
  PROVE  [current EXCEPT ![o].pc = pc] \in [Objects -> ObjectRecord]
  BY DEF ObjectRecord

LEMMA KeyUpdate ==
  ASSUME NEW current \in [Objects -> ObjectRecord], NEW o \in Objects, NEW k \in Generations
  PROVE  [current EXCEPT ![o].key = k] \in [Objects -> ObjectRecord]
  BY DEF ObjectRecord

LEMMA QueuedUpdate ==
  ASSUME NEW current \in [Objects -> ObjectRecord], NEW o \in Objects, NEW b \in BOOLEAN
  PROVE  [current EXCEPT ![o].queued = b] \in [Objects -> ObjectRecord]
  BY DEF ObjectRecord

\* The coroutine of VerifyToken goes on with the key of the moment.
LEMMA CheckedType ==
  ASSUME NEW current \in [Objects -> ObjectRecord], NEW o \in Objects, NEW k \in Generations
  PROVE  [current EXCEPT ![o].pc = "check", ![o].key = k] \in [Objects -> ObjectRecord]
<1> DEFINE first == [current EXCEPT ![o].pc = "check"]
<1>1. first \in [Objects -> ObjectRecord]
  BY PcUpdate DEF ProbeStates
<1> HIDE DEF first
<1>2. [first EXCEPT ![o].key = k] \in [Objects -> ObjectRecord]
  BY <1>1, KeyUpdate
<1> QED
  BY <1>2, Zenon DEF first

\* Destroying objects and notifying handlers give records of the right type.
LEMMA DestroyType ==
  ASSUME NEW dropped, NEW current \in [Objects -> ObjectRecord], Destroy(dropped, current)
  PROVE  obj' \in [Objects -> ObjectRecord]
  BY FreeObjectType DEF Destroy

LEMMA EndProbeType ==
  ASSUME NEW o \in Objects, NEW current \in [Objects -> ObjectRecord], EndProbe(o, current)
  PROVE  obj' \in [Objects -> ObjectRecord]
  BY DestroyType, PcUpdate DEF EndProbe

LEMMA ReachedType ==
  ASSUME NEW a, NEW current \in [Objects -> ObjectRecord]
  PROVE  /\ Reached(a, current) \in [Objects -> ObjectRecord]
         /\ Notify(a, current) \in [Objects -> ObjectRecord]
         /\ \A o \in Objects : /\ Reached(a, current)[o].pc = current[o].pc
                               /\ Notify(a, current)[o].pc = current[o].pc
                               /\ Reached(a, current)[o].address = current[o].address
                               /\ Notify(a, current)[o].address = current[o].address
                               /\ Reached(a, current)[o].key = current[o].key
                               /\ Notify(a, current)[o].key = current[o].key
<1> DEFINE queued(o) == [current[o] EXCEPT !.queued = TRUE]
<1>1. \A o \in Objects : /\ queued(o) \in ObjectRecord
                         /\ queued(o).pc = current[o].pc
                         /\ queued(o).address = current[o].address
                         /\ queued(o).key = current[o].key
  <2> TAKE o \in Objects
  <2>1. current[o] \in ObjectRecord
    OBVIOUS
  <2> QED
    BY <2>1 DEF ObjectRecord
<1>2. Notify(a, current) =
        [o \in Objects |-> IF HasHandler(o) /\ obj[o].address = a THEN queued(o) ELSE current[o]]
  BY DEF Notify
<1> HIDE DEF queued
<1>3. \A o \in Objects : Notify(a, current)[o] \in {queued(o), current[o]}
  BY <1>2
<1>4. /\ Notify(a, current) \in [Objects -> ObjectRecord]
      /\ \A o \in Objects : /\ Notify(a, current)[o].pc = current[o].pc
                            /\ Notify(a, current)[o].address = current[o].address
                            /\ Notify(a, current)[o].key = current[o].key
  BY <1>1, <1>2, <1>3
<1>5. Reached(a, current) \in {current, Notify(a, current)}
  BY DEF Reached
<1> QED
  BY <1>4, <1>5

-----------------------------------------------------------------------------
\* Each helper and each action keeps the types.

LEMMA InitType == Init => TypeOK
<1> SUFFICES ASSUME Init PROVE TypeOK
  OBVIOUS
<1>1. obj \in [Objects -> ObjectRecord]
  BY FreeObjectType DEF Init
<1>2. keyFiles \in Generations
  BY ServerAuthAssumption DEF Init, Generations
<1>3. tokenKey \in Generations
  BY <1>2, ServerAuthAssumption DEF Init, Generations
<1>4. 0 \in 0..MaxErases
  BY ServerAuthAssumption
<1>5. loan \in [Loans -> [phase : LoanPhases, object : Objects \cup {None}]]
  BY DEF Init, NoLoan, LoanPhases
<1>6. handler \in [Objects -> HandlerStates]
  BY DEF Init, HandlerStates
<1> QED
  BY <1>1, <1>2, <1>3, <1>4, <1>5, <1>6 DEF Init, TypeOK, GuiStates, ObjectRecord

LEMMA ProbeType ==
  ASSUME TypeOK, NEW o \in Objects, ProbeStep(o)
  PROVE  TypeOK'
<1> USE DEF TypeOK, ProbeStates, Generations
<1>0. obj \in [Objects -> ObjectRecord]
  BY DEF ObjectRecord
<1>1. CASE MakeFails(o)
  <2>1. obj' \in [Objects -> ObjectRecord]
    BY <1>0, <1>1, EndProbeType DEF MakeFails
  <2> QED
    BY <1>1, <2>1 DEF MakeFails, ObjectRecord, keyVars, scanVars
<1>2. CASE ServicesQueried(o)
  <2>1. [obj EXCEPT ![o].pc = "made"] \in [Objects -> ObjectRecord]
    BY <1>0, PcUpdate DEF ProbeStates
  <2>2. obj' \in [Objects -> ObjectRecord]
    BY <1>2, <2>1, ReachedType DEF ServicesQueried
  <2> QED
    BY <1>2, <2>2 DEF ServicesQueried, ObjectRecord, keyVars, scanVars
<1>3. CASE RegisterHandler(o)
  <2>1. [obj EXCEPT ![o].pc = "verify"] \in [Objects -> ObjectRecord]
    BY <1>0, PcUpdate DEF ProbeStates
  <2> QED
    BY <1>3, <2>1 DEF RegisterHandler, ObjectRecord, keyVars, scanVars
<1>4. CASE ReadFails(o)
  <2>1. obj' \in [Objects -> ObjectRecord]
    <3>1. CASE obj[o].attempt + 1 < MAX_ATTEMPTS
      BY <1>0, <1>4, <3>1, ServerAuthAssumption DEF ReadFails, ObjectRecord
    <3>2. CASE ~(obj[o].attempt + 1 < MAX_ATTEMPTS)
      BY <1>0, <1>4, <3>2, EndProbeType DEF ReadFails
    <3> QED
      BY <3>1, <3>2
  <2> QED
    BY <1>4, <2>1 DEF ReadFails, ObjectRecord, keyVars, scanVars
<1>5. CASE RejectPeer(o)
  <2>1. obj' \in [Objects -> ObjectRecord]
    BY <1>0, <1>5, EndProbeType DEF RejectPeer
  <2> QED
    BY <1>5, <2>1 DEF RejectPeer, ObjectRecord, keyVars, scanVars
<1>6. CASE VerifyToken(o)
  <2>1. obj' \in [Objects -> ObjectRecord]
    <3>1. Reached(obj[o].address, obj) \in [Objects -> ObjectRecord]
      BY <1>0, ReachedType
    <3>2. [obj EXCEPT ![o].pc = "check", ![o].key = m_pServerKey] \in [Objects -> ObjectRecord]
      BY <1>0, CheckedType
    <3>3. Reached(obj[o].address, [obj EXCEPT ![o].pc = "check", ![o].key = m_pServerKey])
             \in [Objects -> ObjectRecord]
      BY <3>2, ReachedType
    <3>4. EndProbe(o, Reached(obj[o].address, obj)) => obj' \in [Objects -> ObjectRecord]
      BY <3>1, EndProbeType
    <3>5. CASE obj' = obj
      BY <1>0, <3>5
    <3> QED
      BY <1>6, <3>3, <3>4, <3>5 DEF VerifyToken
  <2> QED
    BY <1>6, <2>1 DEF VerifyToken, ObjectRecord, keyVars, scanVars
<1>7. CASE CheckAuthenticated(o)
  <2>1. obj' \in [Objects -> ObjectRecord]
    <3>1. CASE m_Server # None
      BY <1>0, <1>7, <3>1, EndProbeType DEF CheckAuthenticated
    <3>2. CASE m_Server = None
      BY <1>0, <1>7, <3>2 DEF CheckAuthenticated, ObjectRecord
    <3> QED
      BY <3>1, <3>2
  <2> QED
    BY <1>7, <2>1 DEF CheckAuthenticated, ObjectRecord, keyVars, scanVars
<1>8. CASE GrantAuthentication(o)
  <2>1. [obj EXCEPT ![o].pc = "kept"] \in [Objects -> ObjectRecord]
    BY <1>0, PcUpdate DEF ProbeStates
  <2>2. obj' \in [Objects -> ObjectRecord]
    BY <1>8, <2>1, DestroyType DEF GrantAuthentication
  <2> QED
    BY <1>8, <2>2 DEF GrantAuthentication, ObjectRecord, keyVars, scanVars
<1> QED
  BY <1>1, <1>2, <1>3, <1>4, <1>5, <1>6, <1>7, <1>8 DEF ProbeStep

LEMMA EnqueueType ==
  ASSUME TypeOK, NEW t \in ScanTasks, NEW o \in Objects, NEW a \in Addresses,
         EnqueueDevice(t, o, a)
  PROVE  TypeOK'
<1> USE DEF TypeOK
<1>1. [FreeObject EXCEPT !.pc = "making", !.address = a] \in ObjectRecord
  <2> DEFINE making == [FreeObject EXCEPT !.pc = "making"]
  <2>1. making \in ObjectRecord
    BY FreeObjectType DEF ObjectRecord, ProbeStates
  <2>2. [making EXCEPT !.address = a] \in ObjectRecord
    <3> HIDE DEF making
    <3> QED
      BY <2>1 DEF ObjectRecord
  <2> QED
    BY <2>2
<1>2. obj' \in [Objects -> ObjectRecord]
  BY <1>1 DEF EnqueueDevice, ObjectRecord
<1> QED
  BY <1>2 DEF EnqueueDevice, ObjectRecord, keyVars, scanVars

LEMMA HandlerType ==
  ASSUME TypeOK, NEW o \in Objects, HandlerStep(o)
  PROVE  TypeOK'
<1> USE DEF TypeOK
<1>0. obj \in [Objects -> ObjectRecord]
  BY DEF ObjectRecord
<1>1. obj' \in [Objects -> ObjectRecord]
  <2>1. CASE ReadConnectionStatus(o)
    <3>1. [obj EXCEPT ![o].queued = FALSE] \in [Objects -> ObjectRecord]
      BY <1>0, QueuedUpdate
    <3> QED
      BY <2>1, <3>1 DEF ReadConnectionStatus
  <2>2. CASE LockSelf(o)
    BY <1>0, <2>2 DEF LockSelf
  <2>3. CASE HandleDisconnected(o)
    BY <1>0, <2>3, DestroyType DEF HandleDisconnected, Revoke
  <2>4. CASE HandlerReturns(o)
    BY <1>0, <2>4, DestroyType DEF HandlerReturns
  <2> QED
    BY <2>1, <2>2, <2>3, <2>4 DEF HandlerStep
<1>2. handler' \in [Objects -> HandlerStates]
  BY DEF HandlerStep, ReadConnectionStatus, LockSelf, HandleDisconnected, HandlerReturns,
         HandlerStates
<1> QED
  BY <1>1, <1>2 DEF HandlerStep, ReadConnectionStatus, LockSelf, HandleDisconnected, Revoke,
                    HandlerReturns, ObjectRecord, keyVars, scanVars

LEMMA LinkType ==
  ASSUME TypeOK, NEW a \in Addresses, LinkLost(a) \/ LinkRestored(a)
  PROVE  TypeOK'
<1> USE DEF TypeOK
<1>1. obj' \in [Objects -> ObjectRecord]
  <2>1. obj \in [Objects -> ObjectRecord]
    BY DEF ObjectRecord
  <2> QED
    BY <2>1, ReachedType DEF LinkLost, LinkRestored
<1>2. linkUp' \in [Addresses -> BOOLEAN]
  BY DEF LinkLost, LinkRestored
<1> QED
  BY <1>1, <1>2 DEF LinkLost, LinkRestored, ObjectRecord, keyVars, scanVars

LEMMA DemandType ==
  ASSUME TypeOK, NEW l \in Loans, StartDemand(l) \/ DemandStep(l)
  PROVE  TypeOK'
<1> USE DEF TypeOK, DemandStep, WriteDemand, Subscribe
<1>1. obj' \in [Objects -> ObjectRecord]
  <2>1. obj \in [Objects -> ObjectRecord]
    BY DEF ObjectRecord
  <2> QED
    BY <2>1, DestroyType DEF StartDemand, BorrowServer, EndDemand, DemandUnreachable
<1>2. loan' \in [Loans -> [phase : LoanPhases, object : Objects \cup {None}]]
  BY DEF StartDemand, BorrowServer, EndDemand, DemandUnreachable, NoLoan, LoanPhases
<1> QED
  BY <1>1, <1>2 DEF StartDemand, BorrowServer, EndDemand, DemandUnreachable,
                    ObjectRecord, keyVars, scanVars

LEMMA ScanType ==
  ASSUME TypeOK, NEW t \in ScanTasks, ScanStep(t) \/ StopScan(t)
  PROVE  TypeOK'
<1> USE DEF TypeOK
<1> QED
  BY DEF ScanStep, StartScan, ContinueScan, PollDone, StopScan, EndScan, keyVars

LEMMA MainLoopType == ASSUME TypeOK, MainLoopStep PROVE TypeOK'
<1> USE DEF TypeOK, GuiStates
<1>1. CASE NotConnected
  BY <1>1 DEF NotConnected, keyVars, scanVars
<1>2. CASE NotAuthenticated
  BY <1>2 DEF NotAuthenticated, keyVars, scanVars
<1>3. CASE RecreateList
  <2>1. task' \in [ScanTasks -> {"idle", "spawned", "top", "poll", "ending"}]
    BY <1>3 DEF RecreateList
  <2> QED
    BY <1>3, <2>1 DEF RecreateList, keyVars
<1> QED
  BY <1>1, <1>2, <1>3 DEF MainLoopStep

\* TypeOK is not inductive alone: the room for one more generation is checked
\* when "Generate Keys" is clicked and used after the wait.
GenerationRoom == gui \in {"generateWait", "generateSend"} => generation < MaxKeys

LEMMA MenuType == ASSUME TypeOK, GenerationRoom, MenuStep PROVE TypeOK'
<1> USE DEF TypeOK, GuiStates
<1>1. CASE GenerateWaited \/ DeleteWaited \/ QuitWaited
  BY <1>1 DEF GenerateWaited, DeleteWaited, QuitWaited, WaitForAll, keyVars, scanVars
<1>2. CASE ReloadGenerated \/ ReloadDeleted
  BY <1>2 DEF ReloadGenerated, ReloadDeleted, LoadPublicKey, scanVars
<1>3. CASE DeleteStop \/ QuitStop
  BY <1>3 DEF DeleteStop, QuitStop, StopTimer, keyVars
<1>4. CASE ListCleared \/ ServerDestroyed
  BY <1>4 DEF ListCleared, ServerDestroyed, ScanStopped, keyVars, scanVars
<1>5. CASE EraseKeys
  BY <1>5, ServerAuthAssumption DEF EraseKeys, Generations, scanVars
<1>6. CASE SaveAndSend
  <2>1. generation + 1 \in Generations
    BY <1>6, ServerAuthAssumption DEF SaveAndSend, GenerationRoom, Generations
  <2> QED
    BY <1>6, <2>1 DEF SaveAndSend, scanVars
<1> QED
  BY <1>1, <1>2, <1>3, <1>4, <1>5, <1>6 DEF MenuStep

LEMMA UserType == ASSUME TypeOK, UserStep PROVE TypeOK'
<1> USE DEF TypeOK, GuiStates
<1>1. erases' \in 0..MaxErases
  BY ServerAuthAssumption DEF UserStep, ClickGenerate, ClickDelete, ClickQuit
<1> QED
  BY <1>1 DEF UserStep, ClickGenerate, ClickDelete, ClickQuit, Click, scanVars

LEMMA TypeStep == ASSUME TypeOK, GenerationRoom, [Next]_vars PROVE TypeOK' /\ GenerationRoom'
<1>1. TypeOK'
  <2>1. CASE UNCHANGED vars
    BY <2>1 DEF vars, keyVars, scanVars, TypeOK
  <2>2. CASE Next
    BY <2>2, ProbeType, HandlerType, EnqueueType, ScanType, LinkType, DemandType,
       MainLoopType, MenuType, UserType DEF Next
  <2> QED
    BY <2>1, <2>2
<1>2. GenerationRoom'
  <2>1. CASE UNCHANGED <<gui, generation>>
    BY <2>1 DEF GenerationRoom
  <2>2. CASE MainLoopStep
    BY <2>2 DEF MainLoopStep, NotConnected, NotAuthenticated, RecreateList, GenerationRoom
  <2>3. CASE MenuStep
    BY <2>3 DEF MenuStep, GenerateWaited, DeleteWaited, QuitWaited, WaitForAll, ReloadGenerated,
                ReloadDeleted, LoadPublicKey, DeleteStop, QuitStop, StopTimer, ListCleared,
                ServerDestroyed, ScanStopped, EraseKeys, SaveAndSend, keyVars, GenerationRoom
  <2>4. CASE UserStep
    BY <2>4 DEF UserStep, ClickGenerate, ClickDelete, ClickQuit, Click, GenerationRoom
  <2>5. (\E o \in Objects : ProbeStep(o) \/ HandlerStep(o)) => UNCHANGED <<gui, generation>>
    BY DEF ProbeStep, MakeFails, ServicesQueried, RegisterHandler, ReadFails, RejectPeer,
           VerifyToken, CheckAuthenticated, GrantAuthentication, HandlerStep,
           ReadConnectionStatus, LockSelf, HandleDisconnected, HandlerReturns, keyVars
  <2>6. (\E t \in ScanTasks, o \in Objects, a \in Addresses : EnqueueDevice(t, o, a))
          => UNCHANGED <<gui, generation>>
    BY DEF EnqueueDevice, keyVars
  <2>7. (\E t \in ScanTasks : ScanStep(t) \/ StopScan(t)) => UNCHANGED <<gui, generation>>
    BY DEF ScanStep, StartScan, ContinueScan, PollDone, EndScan, StopScan, keyVars
  <2>8. (\E a \in Addresses : LinkLost(a) \/ LinkRestored(a)) => UNCHANGED <<gui, generation>>
    BY DEF LinkLost, LinkRestored, keyVars
  <2>9. (\E l \in Loans : StartDemand(l) \/ DemandStep(l)) => UNCHANGED <<gui, generation>>
    BY DEF StartDemand, DemandStep, WriteDemand, Subscribe, BorrowServer, EndDemand,
           DemandUnreachable, keyVars
  <2> QED
    BY <2>1, <2>2, <2>3, <2>4, <2>5, <2>6, <2>7, <2>8, <2>9 DEF Next, vars, keyVars
<1> QED
  BY <1>1, <1>2

\* Every variable keeps its type: among others no device is read more than
\* MAX_ATTEMPTS times, and the generation of the keys stays within its bound.
THEOREM TypeCorrect == Spec => []TypeOK
<1>1. Init => TypeOK /\ GenerationRoom
  BY InitType DEF Init, GenerationRoom
<1>2. TypeOK /\ GenerationRoom /\ [Next]_vars => (TypeOK /\ GenerationRoom)'
  BY TypeStep
<1> QED
  BY <1>1, <1>2, PTL DEF Spec

-----------------------------------------------------------------------------
\* Ownership: which CDevice objects are alive, and who holds them.

\* A destroyed object has no event left that a handler could act on.
FreeInv == \A o \in Objects : obj[o].pc = "free" => ~obj[o].queued

OwnInv ==
    /\ Ownership
    /\ \A l \in Loans : loan[l].phase = "none" <=> loan[l].object = None
    /\ FreeInv

LEMMA LentObject == \A L \in SUBSET Loans : \A p : p \in Lent(L) <=> \E l \in L : loan[l].object = p
  BY DEF Lent

\* What OwnInv sees of a step of one coroutine: its object goes on, is destroyed,
\* or is left to its running handler.
LEMMA SameOwners ==
  ASSUME TypeOK, OwnInv, UNCHANGED <<m_Server, loan, handler>>, FreeInv',
         \A p \in Objects : obj[p].pc = "kept" => obj'[p].pc = "kept",
         \A p \in Objects : obj'[p].pc = "kept" => obj[p].pc = "kept" \/ p \in HeldByHandler,
         \A p \in HeldByHandler : obj'[p].pc # "free"
  PROVE  OwnInv'
<1>1. m_Server # None => m_Server \in Objects
  BY DEF TypeOK
<1>2. \A l \in Loans : loan[l].phase # "none" => loan[l].object \in Objects
  BY DEF TypeOK, OwnInv
<1>3. Lent(Loans)' = Lent(Loans) /\ HeldByHandler' = HeldByHandler
  BY DEF Lent, HeldByHandler
<1>4. \A p \in Objects : obj'[p].pc = "kept" => p \in {m_Server} \cup Lent(Loans) \cup HeldByHandler
  BY DEF OwnInv, Ownership
<1> QED
  BY <1>1, <1>2, <1>3, <1>4 DEF OwnInv, Ownership

\* A step that gives owners up, and lets the server be borrowed: what is dropped
\* is exactly what loses its last owner.
LEMMA Release ==
  ASSUME TypeOK, OwnInv, NEW dropped, Destroy(dropped, obj),
         m_Server' \in {m_Server, None},
         \A l \in Loans : loan'[l].phase = "none" <=> loan'[l].object = None,
         Lent(Loans)' \subseteq Lent(Loans) \cup {m_Server, None},
         HeldByHandler' \subseteq HeldByHandler,
         \A p \in Objects : p \in {m_Server'} \cup Lent(Loans)' \cup HeldByHandler' => p \notin dropped,
         \A p \in Objects : p \in {m_Server} \cup Lent(Loans) \cup HeldByHandler =>
             \/ p \in dropped
             \/ p \in {m_Server'} \cup Lent(Loans)' \cup HeldByHandler'
             \/ obj[p].pc # "kept"
  PROVE  OwnInv'
<1>1. \A p \in Objects : obj'[p] = IF p \in dropped THEN FreeObject ELSE obj[p]
  BY DEF Destroy
<1>2. FreeObject.pc = "free" /\ FreeObject.queued = FALSE
  BY DEF FreeObject
<1>3. \A p \in Objects \cap ({m_Server} \cup Lent(Loans)) : p # None /\ obj[p].pc = "kept"
  <2>1. None \notin Objects
    BY ServerAuthAssumption
  <2> QED
    BY <2>1, LentObject DEF OwnInv, Ownership
<1>4. m_Server' # None => obj'[m_Server'].pc = "kept"
  <2>1. m_Server' # None => m_Server' = m_Server /\ m_Server \in Objects
    BY DEF TypeOK
  <2> QED
    BY <1>1, <1>3, <2>1
<1>5. \A l \in Loans : loan'[l].phase # "none" => obj'[loan'[l].object].pc = "kept"
  <2> SUFFICES ASSUME NEW l \in Loans, loan'[l].phase # "none"
               PROVE  obj'[loan'[l].object].pc = "kept"
    OBVIOUS
  <2>1. loan'[l].object \in Lent(Loans)' /\ loan'[l].object # None
    BY DEF Lent
  <2>2. loan'[l].object \in Objects
    <3>1. \A q \in Lent(Loans) \cup {m_Server, None} : q \in Objects \cup {None}
      BY LentObject DEF TypeOK
    <3> QED
      BY <2>1, <3>1
  <2>3. obj[loan'[l].object].pc = "kept"
    BY <1>3, <2>1, <2>2
  <2> QED
    BY <1>1, <2>1, <2>2, <2>3
<1>6. \A p \in HeldByHandler' : obj'[p].pc # "free"
  BY <1>1 DEF HeldByHandler, OwnInv, Ownership
<1>7. \A p \in Objects : obj'[p].pc = "kept" =>
          p \in {m_Server'} \cup Lent(Loans)' \cup HeldByHandler'
  BY <1>1, <1>2 DEF OwnInv, Ownership
<1>8. FreeInv'
  BY <1>1, <1>2 DEF OwnInv, FreeInv
<1> QED
  BY <1>4, <1>5, <1>6, <1>7, <1>8 DEF OwnInv, Ownership

LEMMA GrantOwn ==
  ASSUME TypeOK, OwnInv, NEW o \in Objects, GrantAuthentication(o)
  PROVE  OwnInv'
<1> DEFINE current == [obj EXCEPT ![o].pc = "kept"]
           dropped == {m_Server} \ (Lent(Loans) \cup HeldByHandler)
<1>0. obj \in [Objects -> ObjectRecord]
  BY DEF TypeOK, ObjectRecord
<1>1. \A p \in Objects : obj'[p] = IF p \in dropped THEN FreeObject ELSE current[p]
  BY DEF GrantAuthentication, Destroy
<1>2. m_Server # o /\ o # None /\ \A l \in Loans : loan[l].object # o
  BY ServerAuthAssumption DEF GrantAuthentication, OwnInv, Ownership
<1>3. /\ current[o].pc = "kept"
      /\ \A p \in Objects \ {o} : current[p] = obj[p]
  BY <1>0 DEF ObjectRecord
<1>4. m_Server' = o /\ UNCHANGED <<loan, handler>>
  BY DEF GrantAuthentication
<1>5. Lent(Loans)' = Lent(Loans) /\ HeldByHandler' = HeldByHandler
  BY <1>4 DEF Lent, HeldByHandler
<1> HIDE DEF current
<1>6. FreeObject.pc = "free" /\ FreeObject.queued = FALSE
  BY DEF FreeObject
<1>7. obj'[o].pc = "kept"
  BY <1>1, <1>2, <1>3
<1>8. \A l \in Loans : loan[l].phase # "none" => obj'[loan[l].object].pc = "kept"
  <2> SUFFICES ASSUME NEW l \in Loans, loan[l].phase # "none"
               PROVE  obj'[loan[l].object].pc = "kept"
    OBVIOUS
  <2>1. loan[l].object \in Objects /\ loan[l].object \in Lent(Loans)
    BY DEF TypeOK, OwnInv, Lent
  <2>2. loan[l].object # o /\ obj[loan[l].object].pc = "kept"
    BY <1>2 DEF OwnInv, Ownership
  <2> QED
    BY <1>1, <1>3, <2>1, <2>2
<1>9. \A p \in HeldByHandler : obj'[p].pc # "free"
  BY <1>1, <1>3 DEF HeldByHandler, OwnInv, Ownership
<1>10. \A p \in Objects : obj'[p].pc = "kept" => p \in {o} \cup Lent(Loans) \cup HeldByHandler
  BY <1>1, <1>3, <1>6 DEF OwnInv, Ownership
<1>11. FreeInv'
  BY <1>1, <1>3, <1>6 DEF OwnInv, FreeInv
<1> QED
  BY <1>4, <1>5, <1>7, <1>8, <1>9, <1>10, <1>11 DEF OwnInv, Ownership

\* Handlers: one locks its object, one that revokes or returns gives it up.
LEMMA HandlerOwn ==
  ASSUME TypeOK, OwnInv, NEW o \in Objects, HandlerStep(o)
  PROVE  OwnInv'
<1>0. obj \in [Objects -> ObjectRecord]
  BY DEF TypeOK, ObjectRecord
<1>1. ASSUME ReadConnectionStatus(o) \/ LockSelf(o) PROVE OwnInv'
  <2>1. \A p \in Objects : /\ obj'[p].pc = obj[p].pc
                           /\ obj'[p].queued => obj[p].queued
    BY <1>0, <1>1 DEF ReadConnectionStatus, LockSelf, ObjectRecord
  <2>2. UNCHANGED <<m_Server, loan>>
    BY <1>1 DEF ReadConnectionStatus, LockSelf
  <2>3. Lent(Loans)' = Lent(Loans)
    BY <2>2 DEF Lent
  <2>4. HeldByHandler \subseteq HeldByHandler'
    BY <1>1 DEF ReadConnectionStatus, LockSelf, HeldByHandler, TypeOK
  <2>5. \A p \in HeldByHandler' : p \in HeldByHandler \/ (p = o /\ obj[p].pc # "free")
    BY <1>1 DEF ReadConnectionStatus, LockSelf, HeldByHandler, TypeOK, OwnInv, FreeInv
  <2>6. FreeInv'
    BY <2>1 DEF OwnInv, FreeInv
  <2>7. \A l \in Loans : loan[l].phase # "none" => loan[l].object \in Objects
    BY DEF TypeOK, OwnInv
  <2>8. m_Server # None => m_Server \in Objects
    BY DEF TypeOK
  <2>9. \A p \in HeldByHandler' : p \in Objects /\ obj'[p].pc # "free"
    BY <2>1, <2>5 DEF HeldByHandler, OwnInv, Ownership
  <2> QED
    BY <2>1, <2>2, <2>3, <2>4, <2>6, <2>7, <2>8, <2>9 DEF OwnInv, Ownership
<1>2. ASSUME HandleDisconnected(o) PROVE OwnInv'
  <2> DEFINE dropped == {m_Server} \ (Lent(Loans) \cup HeldByHandler)
  <2>1. Destroy(dropped, obj) /\ m_Server' = None /\ UNCHANGED loan
    BY <1>2 DEF HandleDisconnected, Revoke
  <2>2. Lent(Loans)' = Lent(Loans)
    BY <2>1 DEF Lent
  <2>3. HeldByHandler' = HeldByHandler
    BY <1>2 DEF HandleDisconnected, HeldByHandler, TypeOK
  <2>4. None \notin Objects
    BY ServerAuthAssumption
  <2>5. \A l \in Loans : loan'[l].phase = "none" <=> loan'[l].object = None
    BY <2>1 DEF OwnInv
  <2>6. \A p \in Objects : p \in {m_Server'} \cup Lent(Loans)' \cup HeldByHandler' => p \notin dropped
    BY <2>1, <2>2, <2>3, <2>4
  <2>7. \A p \in Objects : p \in {m_Server} \cup Lent(Loans) \cup HeldByHandler =>
             p \in dropped \/ p \in {m_Server'} \cup Lent(Loans)' \cup HeldByHandler'
    BY <2>2, <2>3
  <2> HIDE DEF dropped
  <2> QED
    BY <2>1, <2>2, <2>3, <2>5, <2>6, <2>7, Release
<1>3. ASSUME HandlerReturns(o) PROVE OwnInv'
  <2> DEFINE dropped == {o} \ ({p \in Objects : InFlight(p)} \cup {m_Server} \cup Lent(Loans))
  <2>1. Destroy(dropped, obj) /\ UNCHANGED <<m_Server, loan>>
    BY <1>3 DEF HandlerReturns
  <2>2. Lent(Loans)' = Lent(Loans)
    BY <2>1 DEF Lent
  <2>3. HeldByHandler' = HeldByHandler \ {o}
    BY <1>3 DEF HandlerReturns, HeldByHandler, TypeOK
  <2>4. obj[o].pc = "kept" => o \in dropped \/ o \in {m_Server} \cup Lent(Loans)
    BY DEF InFlight, ProbeStates
  <2>5. \A l \in Loans : loan'[l].phase = "none" <=> loan'[l].object = None
    BY <2>1 DEF OwnInv
  <2>6. \A p \in Objects : p \in {m_Server'} \cup Lent(Loans)' \cup HeldByHandler' => p \notin dropped
    BY <2>1, <2>2, <2>3
  <2> HIDE DEF dropped
  <2>7. \A p \in Objects : p \in {m_Server} \cup Lent(Loans) \cup HeldByHandler =>
             \/ p \in dropped
             \/ p \in {m_Server'} \cup Lent(Loans)' \cup HeldByHandler'
             \/ obj[p].pc # "kept"
    BY <2>1, <2>2, <2>3, <2>4
  <2> QED
    BY <2>1, <2>2, <2>3, <2>5, <2>6, <2>7, Release
<1> QED
  BY <1>1, <1>2, <1>3 DEF HandlerStep

\* The coroutines of the demander: what l lets go survives only with another owner.
LEMMA DemandOwn ==
  ASSUME TypeOK, OwnInv, NEW l \in Loans, StartDemand(l) \/ DemandStep(l)
  PROVE  OwnInv'
<1> DEFINE others == Lent(Loans \ {l})
<1>0. None \notin Objects
  BY ServerAuthAssumption
<1>1. \A p : p \in Lent(Loans) <=> p = loan[l].object \/ p \in others
  <2>1. \A p : p \in Lent(Loans) <=> \E k \in Loans : loan[k].object = p
    BY DEF Lent
  <2>2. \A p : p \in others <=> \E k \in Loans \ {l} : loan[k].object = p
    BY DEF Lent
  <2> HIDE DEF others
  <2> QED
    BY <2>1, <2>2
<1>2. ASSUME \A k \in Loans \ {l} : loan'[k] = loan[k]
      PROVE  \A p : p \in Lent(Loans)' <=> p = loan'[l].object \/ p \in others
  <2>1. \A p : p \in Lent(Loans)' <=> \E k \in Loans : loan'[k].object = p
    BY DEF Lent
  <2>2. \A p : p \in others <=> \E k \in Loans \ {l} : loan'[k].object = p
    BY <1>2 DEF Lent
  <2> HIDE DEF others
  <2> QED
    BY <2>1, <2>2
<1>3. ASSUME UNCHANGED handler PROVE HeldByHandler' = HeldByHandler
  BY <1>3 DEF HeldByHandler
<1>4. CASE StartDemand(l)
  <2>1. /\ \A k \in Loans \ {l} : loan'[k] = loan[k]
        /\ loan'[l] = [phase |-> "query", object |-> m_Server]
        /\ loan[l].phase = "none"
        /\ m_Server # None /\ UNCHANGED <<m_Server, obj, handler>>
    BY <1>4 DEF StartDemand, TypeOK
  <2>2. \A k \in Loans : loan'[k].phase = "none" <=> loan'[k].object = None
    BY <2>1 DEF OwnInv
  <2>3. loan[l].object = None
    BY <2>1 DEF OwnInv
  <2> HIDE DEF others
  <2>4. Destroy({}, obj)
    BY <2>1 DEF Destroy, TypeOK
  <2>5. /\ Lent(Loans)' \subseteq Lent(Loans) \cup {m_Server, None}
        /\ \A p \in Objects : p \in Lent(Loans) => p \in Lent(Loans)'
    BY <1>0, <1>1, <1>2, <2>1, <2>3
  <2> QED
    BY <1>3, <2>1, <2>2, <2>4, <2>5, Release
<1>5. CASE WriteDemand(l) \/ Subscribe(l)
  <2> DEFINE dropped == {loan[l].object} \ ({m_Server} \cup others \cup HeldByHandler)
  <2>1. /\ \A k \in Loans \ {l} : loan'[k] = loan[k]
        /\ loan'[l].object = m_Server /\ loan'[l].phase # "none"
        /\ m_Server # None /\ UNCHANGED <<m_Server, handler>>
        /\ Destroy(dropped, obj)
    BY <1>5 DEF WriteDemand, Subscribe, BorrowServer, TypeOK
  <2>2. \A k \in Loans : loan'[k].phase = "none" <=> loan'[k].object = None
    BY <2>1 DEF OwnInv
  <2> HIDE DEF others
  <2>3. Lent(Loans)' \subseteq Lent(Loans) \cup {m_Server, None}
    BY <1>1, <1>2, <2>1
  <2>4. \A p : p \in {m_Server'} \cup Lent(Loans)' \cup HeldByHandler' => p \notin dropped
    BY <1>2, <1>3, <2>1
  <2>5. \A p : p \in {m_Server} \cup Lent(Loans) \cup HeldByHandler =>
            p \in dropped \/ p \in {m_Server'} \cup Lent(Loans)' \cup HeldByHandler'
    BY <1>1, <1>2, <1>3, <2>1
  <2> HIDE DEF dropped
  <2> QED
    BY <1>3, <2>1, <2>2, <2>3, <2>4, <2>5, Release
<1>6. CASE EndDemand(l)
  <2> DEFINE dropped == {loan[l].object} \ ({m_Server} \cup others \cup HeldByHandler)
  <2>1. /\ \A k \in Loans \ {l} : loan'[k] = loan[k]
        /\ loan'[l].object = None /\ loan'[l].phase = "none"
        /\ UNCHANGED <<m_Server, handler>>
        /\ Destroy(dropped, obj)
    BY <1>6 DEF EndDemand, NoLoan, TypeOK
  <2>2. \A k \in Loans : loan'[k].phase = "none" <=> loan'[k].object = None
    BY <2>1 DEF OwnInv
  <2> HIDE DEF others
  <2>3. Lent(Loans)' \subseteq Lent(Loans) \cup {m_Server, None}
    BY <1>1, <1>2, <2>1
  <2>4. \A p \in Objects : p \in {m_Server'} \cup Lent(Loans)' \cup HeldByHandler' => p \notin dropped
    BY <1>0, <1>2, <1>3, <2>1
  <2>5. \A p \in Objects : p \in {m_Server} \cup Lent(Loans) \cup HeldByHandler =>
            p \in dropped \/ p \in {m_Server'} \cup Lent(Loans)' \cup HeldByHandler'
    BY <1>1, <1>2, <1>3, <2>1
  <2> HIDE DEF dropped
  <2> QED
    BY <1>3, <2>1, <2>2, <2>3, <2>4, <2>5, Release
<1>7. CASE DemandUnreachable(l)
  <2> DEFINE dropped == {m_Server, loan[l].object} \ (others \cup HeldByHandler)
  <2>1. /\ \A k \in Loans \ {l} : loan'[k] = loan[k]
        /\ loan'[l].object = None /\ loan'[l].phase = "none"
        /\ m_Server' = None /\ UNCHANGED handler
        /\ Destroy(dropped, obj)
    BY <1>7 DEF DemandUnreachable, NoLoan, TypeOK
  <2>2. \A k \in Loans : loan'[k].phase = "none" <=> loan'[k].object = None
    BY <2>1 DEF OwnInv
  <2> HIDE DEF others
  <2>3. Lent(Loans)' \subseteq Lent(Loans) \cup {m_Server, None}
    BY <1>1, <1>2, <2>1
  <2>4. \A p \in Objects : p \in {m_Server'} \cup Lent(Loans)' \cup HeldByHandler' => p \notin dropped
    BY <1>0, <1>2, <1>3, <2>1
  <2>5. \A p \in Objects : p \in {m_Server} \cup Lent(Loans) \cup HeldByHandler =>
            p \in dropped \/ p \in {m_Server'} \cup Lent(Loans)' \cup HeldByHandler'
    BY <1>1, <1>2, <1>3, <2>1
  <2> HIDE DEF dropped
  <2> QED
    BY <1>3, <2>1, <2>2, <2>3, <2>4, <2>5, Release
<1> QED
  BY <1>4, <1>5, <1>6, <1>7 DEF DemandStep

LEMMA NotifyFree ==
  ASSUME NEW a, NEW current \in [Objects -> ObjectRecord], NEW p \in Objects
  PROVE  /\ Notify(a, current)[p] = current[p] \/ HasHandler(p)
         /\ Reached(a, current)[p] = current[p] \/ HasHandler(p)
  BY DEF Notify, Reached

\* The coroutine of o goes on.
LEMMA AdvanceOwn ==
  ASSUME TypeOK, OwnInv, NEW o \in Objects, UNCHANGED <<m_Server, loan, handler>>,
         obj[o].pc # "kept", obj'[o].pc \notin {"free", "kept"},
         \A p \in Objects \ {o} : obj'[p].pc = obj[p].pc,
         \A p \in Objects \ {o} : obj'[p].queued => obj[p].queued \/ HasHandler(p)
  PROVE  OwnInv'
<1>1. FreeInv'
  BY DEF OwnInv, FreeInv, HasHandler
<1>2. \A p \in HeldByHandler : p \in Objects /\ obj'[p].pc # "free"
  BY DEF OwnInv, Ownership, HeldByHandler
<1> QED
  BY <1>1, <1>2, SameOwners

\* The coroutine of o ends: the object goes unless its handler holds it.
LEMMA EndProbeOwn ==
  ASSUME TypeOK, OwnInv, NEW o \in Objects, UNCHANGED <<m_Server, loan, handler>>,
         obj[o].pc # "kept", NEW current \in [Objects -> ObjectRecord],
         \A p \in Objects : current[p].pc = obj[p].pc,
         \A p \in Objects : current[p].queued => obj[p].queued \/ HasHandler(p),
         EndProbe(o, current)
  PROVE  OwnInv'
<1>1. CASE o \in HeldByHandler
  <2>1. /\ obj'[o].pc = "kept"
        /\ \A p \in Objects \ {o} : obj'[p] = current[p]
    BY <1>1 DEF EndProbe, ObjectRecord
  <2>2. FreeInv'
    BY <2>1 DEF OwnInv, FreeInv, HasHandler
  <2>3. \A p \in HeldByHandler : p \in Objects /\ obj'[p].pc # "free"
    BY <2>1 DEF OwnInv, Ownership, HeldByHandler
  <2> QED
    BY <1>1, <2>1, <2>2, <2>3, SameOwners
<1>2. CASE o \notin HeldByHandler
  <2>1. /\ obj'[o] = FreeObject
        /\ \A p \in Objects \ {o} : obj'[p] = current[p]
    BY <1>2 DEF EndProbe, Destroy
  <2>2. FreeInv'
    BY <2>1 DEF OwnInv, FreeInv, HasHandler, FreeObject
  <2>3. \A p \in HeldByHandler : p \in Objects /\ obj'[p].pc # "free"
    BY <1>2, <2>1 DEF OwnInv, Ownership, HeldByHandler
  <2> QED
    BY <2>1, <2>2, <2>3, SameOwners DEF FreeObject
<1> QED
  BY <1>1, <1>2

LEMMA ProbeOwn ==
  ASSUME TypeOK, OwnInv, NEW o \in Objects, ProbeStep(o)
  PROVE  OwnInv'
<1>0. obj \in [Objects -> ObjectRecord]
  BY DEF TypeOK, ObjectRecord
<1>1. CASE GrantAuthentication(o)
  BY <1>1, GrantOwn
<1>2. CASE ~GrantAuthentication(o)
  <2>1. UNCHANGED <<m_Server, loan, handler>>
    BY <1>2 DEF ProbeStep, MakeFails, ServicesQueried, RegisterHandler, ReadFails, RejectPeer,
                VerifyToken, CheckAuthenticated
  <2>2. obj[o].pc \notin {"free", "kept"}
    BY <1>2 DEF ProbeStep, MakeFails, ServicesQueried, RegisterHandler, ReadFails, RejectPeer,
                VerifyToken, CheckAuthenticated
  <2>3. CASE EndProbe(o, obj)
    BY <1>0, <2>1, <2>2, <2>3, EndProbeOwn
  <2>4. CASE ServicesQueried(o)
    <3> DEFINE made == [obj EXCEPT ![o].pc = "made"]
    <3>1. made \in [Objects -> ObjectRecord]
      BY <1>0, PcUpdate DEF ProbeStates
    <3>2. made[o].pc = "made" /\ \A p \in Objects \ {o} : made[p] = obj[p]
      BY <1>0 DEF ObjectRecord
    <3>3. obj' = Reached(obj[o].address, made)
      BY <2>4 DEF ServicesQueried
    <3> HIDE DEF made
    <3>4. \A p \in Objects : obj'[p].pc = made[p].pc /\ (obj'[p] = made[p] \/ HasHandler(p))
      BY <3>1, <3>3, ReachedType, NotifyFree
    <3> QED
      BY <2>1, <2>2, <3>2, <3>4, AdvanceOwn
  <2>5. CASE RegisterHandler(o) \/ (ReadFails(o) /\ ~EndProbe(o, obj))
             \/ (CheckAuthenticated(o) /\ ~EndProbe(o, obj))
    <3>1. obj'[o].pc \notin {"free", "kept"} /\ \A p \in Objects \ {o} : obj'[p] = obj[p]
      BY <1>0, <2>2, <2>5 DEF RegisterHandler, ReadFails, CheckAuthenticated, ObjectRecord
    <3> QED
      BY <2>1, <2>2, <3>1, AdvanceOwn
  <2>6. CASE VerifyToken(o) /\ EndProbe(o, Reached(obj[o].address, obj))
    <3> DEFINE reached == Reached(obj[o].address, obj)
    <3>1. /\ reached \in [Objects -> ObjectRecord]
          /\ \A p \in Objects : reached[p].pc = obj[p].pc /\ (reached[p] = obj[p] \/ HasHandler(p))
      BY <1>0, ReachedType, NotifyFree
    <3> HIDE DEF reached
    <3>2. EndProbe(o, reached)
      BY <2>6 DEF reached
    <3>3. \A p \in Objects : reached[p].queued => obj[p].queued \/ HasHandler(p)
      BY <3>1
    <3> QED
      BY <2>1, <2>2, <3>1, <3>2, <3>3, EndProbeOwn
  <2>7. CASE obj' = Reached(obj[o].address, [obj EXCEPT ![o].pc = "check", ![o].key = m_pServerKey])
    <3> DEFINE checked == [obj EXCEPT ![o].pc = "check", ![o].key = m_pServerKey]
    <3>1. checked \in [Objects -> ObjectRecord]
      BY <1>0, CheckedType DEF TypeOK
    <3>2. checked[o].pc = "check" /\ \A p \in Objects \ {o} : checked[p] = obj[p]
      BY <1>0 DEF ObjectRecord
    <3>3. obj' = Reached(obj[o].address, checked)
      BY <2>7
    <3> HIDE DEF checked
    <3>4. \A p \in Objects : obj'[p].pc = checked[p].pc /\ (obj'[p] = checked[p] \/ HasHandler(p))
      BY <3>1, <3>3, ReachedType, NotifyFree
    <3> QED
      BY <2>1, <2>2, <3>2, <3>4, AdvanceOwn
  <2>8. CASE VerifyToken(o) /\ UNCHANGED obj
    BY <2>1, <2>2, <2>8, AdvanceOwn
  <2>9. MakeFails(o) \/ RejectPeer(o) => EndProbe(o, obj)
    BY DEF MakeFails, RejectPeer
  <2>10. VerifyToken(o) =>
            \/ UNCHANGED obj
            \/ EndProbe(o, Reached(obj[o].address, obj))
            \/ obj' = Reached(obj[o].address, [obj EXCEPT ![o].pc = "check", ![o].key = m_pServerKey])
    BY DEF VerifyToken
  <2> QED
    BY <1>2, <2>3, <2>4, <2>5, <2>6, <2>7, <2>8, <2>9, <2>10, Zenon DEF ProbeStep
<1> QED
  BY <1>1, <1>2

LEMMA OwnStep == ASSUME TypeOK, OwnInv, [Next]_vars PROVE OwnInv'
<1>0. obj \in [Objects -> ObjectRecord]
  BY DEF TypeOK, ObjectRecord
<1>h. \A p \in HeldByHandler : p \in Objects /\ obj[p].pc # "free"
  BY DEF OwnInv, Ownership, HeldByHandler
<1>1. CASE UNCHANGED <<m_Server, loan, handler, obj>>
  <2>1. FreeInv'
    BY <1>1 DEF OwnInv, FreeInv
  <2> QED
    BY <1>1, <1>h, <2>1, SameOwners
<1>3. ASSUME NEW t \in ScanTasks, NEW o \in Objects, NEW a \in Addresses, EnqueueDevice(t, o, a)
      PROVE  OwnInv'
  <2>1. /\ obj[o].pc = "free" /\ obj'[o].pc = "making"
        /\ \A p \in Objects \ {o} : obj'[p] = obj[p]
    BY <1>0, <1>3 DEF EnqueueDevice, FreeObject
  <2> QED
    BY <1>3, <2>1, AdvanceOwn DEF EnqueueDevice
<1>4. ASSUME NEW a \in Addresses, LinkLost(a) \/ LinkRestored(a) PROVE OwnInv'
  <2>1. obj' = Notify(a, obj) /\ UNCHANGED <<m_Server, loan, handler>>
    BY <1>4 DEF LinkLost, LinkRestored
  <2>2. \A p \in Objects : obj'[p].pc = obj[p].pc /\ (obj'[p] = obj[p] \/ HasHandler(p))
    BY <1>0, <2>1, ReachedType, NotifyFree
  <2>3. FreeInv'
    BY <2>2 DEF OwnInv, FreeInv, HasHandler
  <2> QED
    BY <1>h, <2>1, <2>2, <2>3, SameOwners
<1>5. (\E t \in ScanTasks : ScanStep(t) \/ StopScan(t)) => UNCHANGED <<m_Server, loan, handler, obj>>
  BY DEF ScanStep, StartScan, ContinueScan, PollDone, EndScan, StopScan
<1>6. MainLoopStep \/ UserStep => UNCHANGED <<m_Server, loan, handler, obj>>
  BY DEF MainLoopStep, NotConnected, NotAuthenticated, RecreateList,
         UserStep, ClickGenerate, ClickDelete, ClickQuit, Click
<1>7. MenuStep => UNCHANGED <<m_Server, loan, handler, obj>>
  BY DEF MenuStep, GenerateWaited, DeleteWaited, QuitWaited, WaitForAll, ReloadGenerated,
         ReloadDeleted, LoadPublicKey, DeleteStop, QuitStop, StopTimer, ListCleared,
         ServerDestroyed, ScanStopped, EraseKeys, SaveAndSend
<1> QED
  BY <1>1, <1>3, <1>4, <1>5, <1>6, <1>7, ProbeOwn, HandlerOwn, DemandOwn DEF Next, vars

LEMMA OwnInit == Init => OwnInv
  BY ServerAuthAssumption DEF Init, OwnInv, Ownership, FreeInv, NoLoan, FreeObject, HeldByHandler

\* The server, the objects the demander's coroutines work on and the objects
\* running handlers have locked are never destroyed while they are used, and an
\* object that survives its coroutine has one of these owners.
THEOREM OwnershipHolds == Spec => []Ownership
<1>1. Init => TypeOK /\ GenerationRoom /\ OwnInv
  BY InitType, OwnInit DEF Init, GenerationRoom
<1>2. TypeOK /\ GenerationRoom /\ OwnInv /\ [Next]_vars => (TypeOK /\ GenerationRoom /\ OwnInv)'
  BY TypeStep, OwnStep
<1>3. OwnInv => Ownership
  BY DEF OwnInv
<1> QED
  BY <1>1, <1>2, <1>3, PTL DEF Spec

-----------------------------------------------------------------------------
\* The key behind the authenticated server, until "Delete Keys" is used.

\* The peer has been verified: its coroutine has it still to grant, or it is the server.
Passed(o) == obj[o].pc \in {"check", "grant"} \/ o = m_Server

\* Without a key in memory nothing scans and nothing is verified.
NoKey ==
    /\ \A t \in ScanTasks : task[t] = "idle"
    /\ \A o \in Objects : obj[o].pc = "free"
    /\ m_Server = None
    /\ gui \notin {"checkAuthenticated", "checkScan"}

KeyInv ==
    erases = 0 =>
        /\ ~trapped
        /\ gui \notin {"deleteWait", "deleteErase", "deleteReload", "deleteStop", "deleteSpin"}
        /\ gui \in {"generateWait", "generateSend"} => keyFiles = 0
        /\ gui = "generateReload" => m_pServerKey = 0
        /\ keyFiles # m_pServerKey => m_pServerKey = 0 /\ gui = "generateReload"
        /\ m_pServerKey = 0 => NoKey
        /\ \A o \in Objects : Passed(o) =>
               obj[o].address \in Tokens /\ obj[o].key = m_pServerKey

\* A step of the objects alone: no free object is taken, no unverified one passes.
LEMMA ObjectKeys ==
  ASSUME KeyInv, UNCHANGED <<keyVars, task, gui, trapped>>,
         NoKey => m_Server' = None,
         \A p \in Objects : obj[p].pc = "free" => obj'[p].pc = "free",
         \A p \in Objects : Passed(p)' /\ erases = 0 =>
             obj'[p].address \in Tokens /\ obj'[p].key = m_pServerKey
  PROVE  KeyInv'
  BY DEF KeyInv, NoKey, keyVars

\* The same for steps that destroy some objects, leave some to a handler, and
\* do not touch the keys of the others.
LEMMA KeptKeys ==
  ASSUME KeyInv, UNCHANGED <<keyVars, task, gui, trapped>>,
         OwnInv', m_Server' \in {m_Server, None},
         \A p \in Objects : \/ obj'[p] = FreeObject
                            \/ /\ obj'[p].pc = obj[p].pc
                               /\ obj'[p].address = obj[p].address
                               /\ obj'[p].key = obj[p].key
                            \/ /\ obj'[p].pc = "kept"
                               /\ obj[p].pc # "free"
                               /\ p # m_Server
  PROVE  KeyInv'
<1>1. \A p \in Objects : obj[p].pc = "free" => obj'[p].pc = "free"
  BY DEF FreeObject
<1>2. \A p \in Objects : Passed(p)' => \/ obj'[p].pc \in {"check", "grant"}
                                       \/ p = m_Server /\ obj'[p].pc = "kept"
  BY ServerAuthAssumption DEF Passed, OwnInv, Ownership
<1>3. \A p \in Objects : Passed(p)' => /\ Passed(p)
                                       /\ obj'[p].address = obj[p].address
                                       /\ obj'[p].key = obj[p].key
  BY <1>2 DEF Passed, FreeObject
<1>4. \A p \in Objects : Passed(p)' /\ erases = 0 =>
             obj'[p].address \in Tokens /\ obj'[p].key = m_pServerKey
  BY <1>3 DEF KeyInv
<1>5. NoKey => m_Server' = None
  BY DEF NoKey
<1> QED
  BY <1>1, <1>4, <1>5, ObjectKeys

\* The coroutine of an object that is not the server ends.
LEMMA EndProbeKeys ==
  ASSUME KeyInv, UNCHANGED <<keyVars, task, gui, trapped, m_Server>>, OwnInv',
         NEW o \in Objects, obj[o].pc # "free", o # m_Server,
         NEW current \in [Objects -> ObjectRecord],
         \A p \in Objects : /\ current[p].pc = obj[p].pc
                            /\ current[p].address = obj[p].address
                            /\ current[p].key = obj[p].key,
         EndProbe(o, current)
  PROVE  KeyInv'
<1>1. \A p \in Objects : \/ obj'[p] = FreeObject
                         \/ obj'[p] = current[p]
                         \/ p = o /\ obj'[p].pc = "kept"
  BY DEF EndProbe, Destroy, ObjectRecord
<1> QED
  BY <1>1, KeptKeys

LEMMA ProbeKeys ==
  ASSUME TypeOK, OwnInv, OwnInv', KeyInv, NEW o \in Objects, ProbeStep(o)
  PROVE  KeyInv'
<1>0. obj \in [Objects -> ObjectRecord]
  BY DEF TypeOK, ObjectRecord
<1>s. o # m_Server /\ obj[o].pc # "free"
  <2>1. obj[o].pc \notin {"kept", "free"}
    BY DEF ProbeStep, MakeFails, ServicesQueried, RegisterHandler, ReadFails, RejectPeer,
           VerifyToken, CheckAuthenticated, GrantAuthentication
  <2> QED
    BY <2>1, ServerAuthAssumption DEF OwnInv, Ownership
<1>1. CASE EndProbe(o, obj) /\ UNCHANGED <<keyVars, task, gui, trapped, m_Server>>
  BY <1>0, <1>1, <1>s, EndProbeKeys
<1>2. CASE ServicesQueried(o)
  <2> DEFINE made == [obj EXCEPT ![o].pc = "made"]
  <2>1. made \in [Objects -> ObjectRecord]
    BY <1>0 DEF ObjectRecord, ProbeStates
  <2>2. made[o].pc = "made" /\ \A p \in Objects \ {o} : made[p] = obj[p]
    BY <1>0 DEF ObjectRecord
  <2>3. obj' = Reached(obj[o].address, made)
    BY <1>2 DEF ServicesQueried
  <2> HIDE DEF made
  <2>4. \A p \in Objects : /\ obj'[p].pc = made[p].pc
                           /\ obj'[p].address = made[p].address
                           /\ obj'[p].key = made[p].key
    BY <2>1, <2>3, ReachedType
  <2>5. obj[o].pc # "free"
    BY <1>2 DEF ServicesQueried
  <2>6. \A p \in Objects : obj[p].pc = "free" => obj'[p].pc = "free"
    BY <2>2, <2>4, <2>5
  <2>7. \A p \in Objects : Passed(p)' /\ erases = 0 =>
             obj'[p].address \in Tokens /\ obj'[p].key = m_pServerKey
    <3>1. UNCHANGED m_Server
      BY <1>2 DEF ServicesQueried
    <3>2. \A p \in Objects : Passed(p)' => p # o
      BY <1>s, <2>2, <2>4, <3>1 DEF Passed
    <3>3. \A p \in Objects : Passed(p)' => /\ Passed(p)
                                           /\ obj'[p].address = obj[p].address
                                           /\ obj'[p].key = obj[p].key
      BY <2>2, <2>4, <3>1, <3>2 DEF Passed
    <3> QED
      BY <3>3 DEF KeyInv
  <2> QED
    BY <1>2, <2>6, <2>7, ObjectKeys DEF ServicesQueried, NoKey, scanVars
<1>3. CASE RegisterHandler(o)
  <2>1. obj'[o].pc = "verify" /\ obj[o].pc # "free" /\ \A p \in Objects \ {o} : obj'[p] = obj[p]
    BY <1>0, <1>3 DEF RegisterHandler, ObjectRecord
  <2>2. \A p \in Objects : Passed(p)' /\ erases = 0 =>
             obj'[p].address \in Tokens /\ obj'[p].key = m_pServerKey
    BY <1>3, <1>s, <2>1 DEF RegisterHandler, KeyInv, Passed
  <2> QED
    BY <1>3, <2>1, <2>2, ObjectKeys DEF RegisterHandler, NoKey, scanVars
<1>4. CASE ReadFails(o) /\ ~EndProbe(o, obj)
  <2>1. \A p \in Objects : /\ obj'[p].pc = obj[p].pc
                           /\ obj'[p].address = obj[p].address
                           /\ obj'[p].key = obj[p].key
    BY <1>0, <1>4 DEF ReadFails, ObjectRecord
  <2> QED
    BY <1>4, <2>1, KeptKeys DEF ReadFails, scanVars
<1>5. CASE VerifyToken(o)
  <2>1. CASE m_pServerKey = 0
    BY <1>5, <2>1 DEF VerifyToken, KeyInv, NoKey, keyVars
  <2>2. CASE EndProbe(o, Reached(obj[o].address, obj)) /\ UNCHANGED trapped
    <3> DEFINE reached == Reached(obj[o].address, obj)
    <3>1. /\ reached \in [Objects -> ObjectRecord]
          /\ \A p \in Objects : /\ reached[p].pc = obj[p].pc
                                /\ reached[p].address = obj[p].address
                                /\ reached[p].key = obj[p].key
      BY <1>0, ReachedType
    <3> HIDE DEF reached
    <3>2. EndProbe(o, reached)
      BY <2>2 DEF reached
    <3>3. UNCHANGED <<keyVars, task, gui, trapped, m_Server>>
      BY <1>5, <2>2 DEF VerifyToken, scanVars
    <3> QED
      BY <1>s, <3>1, <3>2, <3>3, EndProbeKeys
  <2>3. CASE /\ obj' = Reached(obj[o].address, [obj EXCEPT ![o].pc = "check", ![o].key = m_pServerKey])
             /\ UNCHANGED trapped
    <3> DEFINE first == [obj EXCEPT ![o].pc = "check"]
               checked == [first EXCEPT ![o].key = m_pServerKey]
    <3>1. first \in [Objects -> ObjectRecord]
      BY <1>0, PcUpdate DEF ProbeStates
    <3>2. checked \in [Objects -> ObjectRecord]
      <4> HIDE DEF first
      <4> QED
        BY <3>1, KeyUpdate DEF TypeOK
    <3>3. /\ checked[o].key = m_pServerKey /\ checked[o].address = obj[o].address
          /\ \A p \in Objects \ {o} : checked[p] = obj[p]
      BY <1>0 DEF ObjectRecord
    <3>4. obj' = Reached(obj[o].address, checked)
      BY <2>3
    <3> HIDE DEF first, checked
    <3>5. \A p \in Objects : /\ obj'[p].pc = checked[p].pc
                             /\ obj'[p].address = checked[p].address
                             /\ obj'[p].key = checked[p].key
      BY <3>2, <3>4, ReachedType
    <3>6. obj[o].pc # "free" /\ obj[o].address \in Tokens
      BY <1>5 DEF VerifyToken
    <3>7. \A p \in Objects : obj[p].pc = "free" => obj'[p].pc = "free"
      BY <3>3, <3>5, <3>6
    <3>8. \A p \in Objects : Passed(p)' /\ erases = 0 =>
             obj'[p].address \in Tokens /\ obj'[p].key = m_pServerKey
      BY <1>5, <1>s, <3>3, <3>5, <3>6 DEF VerifyToken, KeyInv, Passed
    <3> QED
      BY <1>5, <2>3, <3>7, <3>8, ObjectKeys DEF VerifyToken, NoKey, scanVars
  <2> QED
    BY <1>5, <2>1, <2>2, <2>3 DEF VerifyToken
<1>6. CASE CheckAuthenticated(o) /\ ~EndProbe(o, obj)
  <2>1. /\ obj[o].pc = "check"
        /\ obj'[o].address = obj[o].address /\ obj'[o].key = obj[o].key
        /\ \A p \in Objects \ {o} : obj'[p] = obj[p]
    BY <1>0, <1>6 DEF CheckAuthenticated, ObjectRecord
  <2>2. \A p \in Objects : Passed(p)' /\ erases = 0 =>
             obj'[p].address \in Tokens /\ obj'[p].key = m_pServerKey
    BY <1>6, <1>s, <2>1 DEF CheckAuthenticated, KeyInv, Passed
  <2>3. \A p \in Objects : obj[p].pc = "free" => obj'[p].pc = "free"
    BY <2>1
  <2> QED
    BY <1>6, <2>2, <2>3, ObjectKeys DEF CheckAuthenticated, NoKey, scanVars
<1>7. CASE GrantAuthentication(o)
  <2> DEFINE kept == [obj EXCEPT ![o].pc = "kept"]
  <2>1. /\ kept[o].address = obj[o].address /\ kept[o].key = obj[o].key
        /\ \A p \in Objects \ {o} : kept[p] = obj[p]
    BY <1>0 DEF ObjectRecord
  <2>2. \A p \in Objects : obj'[p] \in {FreeObject, kept[p]}
    BY <1>7 DEF GrantAuthentication, Destroy
  <2> HIDE DEF kept
  <2>3. obj[o].pc = "grant"
    BY <1>7 DEF GrantAuthentication
  <2>4. \A p \in Objects : obj[p].pc = "free" => obj'[p].pc = "free"
    BY <2>1, <2>2, <2>3 DEF FreeObject
  <2>5. \A p \in Objects : Passed(p)' /\ erases = 0 =>
             obj'[p].address \in Tokens /\ obj'[p].key = m_pServerKey
    <3>1. m_Server' = o /\ obj'[o].pc = "kept" /\ Passed(o)
      BY <1>7, <2>3, ServerAuthAssumption DEF GrantAuthentication, OwnInv, Ownership, Passed
    <3>2. \A p \in Objects : Passed(p)' => Passed(p) /\ obj'[p] = kept[p]
      BY <2>1, <2>2, <3>1 DEF Passed, FreeObject
    <3> QED
      BY <2>1, <3>2 DEF KeyInv
  <2> QED
    BY <1>7, <2>3, <2>4, <2>5, ObjectKeys DEF GrantAuthentication, NoKey, scanVars
<1> QED
  BY <1>1, <1>2, <1>3, <1>4, <1>5, <1>6, <1>7
     DEF ProbeStep, MakeFails, ReadFails, RejectPeer, CheckAuthenticated, scanVars

LEMMA HandlerKeys ==
  ASSUME TypeOK, OwnInv', KeyInv, NEW o \in Objects, HandlerStep(o)
  PROVE  KeyInv'
<1>0. obj \in [Objects -> ObjectRecord]
  BY DEF TypeOK, ObjectRecord
<1>1. CASE ReadConnectionStatus(o) \/ LockSelf(o)
  <2>1. \A p \in Objects : /\ obj'[p].pc = obj[p].pc
                           /\ obj'[p].address = obj[p].address
                           /\ obj'[p].key = obj[p].key
    BY <1>0, <1>1 DEF ReadConnectionStatus, LockSelf, ObjectRecord
  <2> QED
    BY <1>1, <2>1, KeptKeys DEF ReadConnectionStatus, LockSelf, scanVars
<1>2. CASE HandleDisconnected(o) \/ HandlerReturns(o)
  <2>1. \A p \in Objects : obj'[p] = FreeObject \/ obj'[p] = obj[p]
    BY <1>2 DEF HandleDisconnected, Revoke, HandlerReturns, Destroy
  <2>2. m_Server' \in {m_Server, None} /\ UNCHANGED <<keyVars, task, gui, trapped>>
    BY <1>2 DEF HandleDisconnected, Revoke, HandlerReturns, scanVars
  <2> QED
    BY <2>1, <2>2, KeptKeys
<1> QED
  BY <1>1, <1>2 DEF HandlerStep

LEMMA LinkKeys ==
  ASSUME TypeOK, OwnInv', KeyInv, NEW a \in Addresses, LinkLost(a) \/ LinkRestored(a)
  PROVE  KeyInv'
<1>1. obj \in [Objects -> ObjectRecord] /\ obj' = Notify(a, obj)
  BY DEF TypeOK, ObjectRecord, LinkLost, LinkRestored
<1>2. \A p \in Objects : /\ obj'[p].pc = obj[p].pc
                         /\ obj'[p].address = obj[p].address
                         /\ obj'[p].key = obj[p].key
  BY <1>1, ReachedType
<1> QED
  BY <1>2, KeptKeys DEF LinkLost, LinkRestored, scanVars

LEMMA DemandKeys ==
  ASSUME TypeOK, OwnInv', KeyInv, NEW l \in Loans, StartDemand(l) \/ DemandStep(l)
  PROVE  KeyInv'
<1> USE DEF DemandStep, WriteDemand, Subscribe
<1>1. \A p \in Objects : obj'[p] = FreeObject \/ obj'[p] = obj[p]
  BY DEF StartDemand, BorrowServer, EndDemand, DemandUnreachable, Destroy
<1>2. m_Server' \in {m_Server, None} /\ UNCHANGED <<keyVars, task, gui, trapped>>
  BY DEF StartDemand, BorrowServer, EndDemand, DemandUnreachable, scanVars
<1> QED
  BY <1>1, <1>2, KeptKeys

\* A device is taken, or a task moves, only by a task that is not idle: there is a key.
LEMMA ScanKeys ==
  ASSUME TypeOK, OwnInv, KeyInv, NEW t \in ScanTasks,
         \/ ScanStep(t) \/ StopScan(t)
         \/ \E o \in Objects, a \in Addresses : EnqueueDevice(t, o, a)
  PROVE  KeyInv'
<1>1. task[t] # "idle" /\ UNCHANGED <<keyVars, m_Server, gui, trapped>>
  BY DEF ScanStep, StartScan, ContinueScan, PollDone, EndScan, StopScan, EnqueueDevice
<1>2. \A p \in Objects : Passed(p)' => Passed(p) /\ obj'[p] = obj[p]
  <2>1. CASE ScanStep(t) \/ StopScan(t)
    BY <2>1 DEF ScanStep, StartScan, ContinueScan, PollDone, EndScan, StopScan, Passed
  <2>2. ASSUME NEW o \in Objects, NEW a \in Addresses, EnqueueDevice(t, o, a)
        PROVE  \A p \in Objects : Passed(p)' => Passed(p) /\ obj'[p] = obj[p]
    <3> DEFINE taken == [FreeObject EXCEPT !.pc = "making", !.address = a]
    <3>1. taken.pc = "making"
      BY DEF FreeObject
    <3>2. obj' = [obj EXCEPT ![o] = taken]
      BY <2>2 DEF EnqueueDevice
    <3>3. o # m_Server /\ UNCHANGED m_Server
      BY <2>2, ServerAuthAssumption DEF EnqueueDevice, OwnInv, Ownership
    <3> HIDE DEF taken
    <3> QED
      BY <3>1, <3>2, <3>3 DEF Passed, TypeOK
  <2> QED
    BY <2>1, <2>2
<1> QED
  BY <1>1, <1>2 DEF KeyInv, NoKey, keyVars

LEMMA MainLoopKeys == ASSUME TypeOK, KeyInv, MainLoopStep PROVE KeyInv'
<1>1. CASE NotConnected
  BY <1>1 DEF NotConnected, KeyInv, NoKey, Passed, keyVars, scanVars
<1>2. CASE NotAuthenticated
  BY <1>2 DEF NotAuthenticated, KeyInv, NoKey, Passed, keyVars, scanVars
<1>3. CASE RecreateList
  BY <1>3 DEF RecreateList, KeyInv, NoKey, Passed, keyVars
<1> QED
  BY <1>1, <1>2, <1>3 DEF MainLoopStep

LEMMA MenuKeys == ASSUME TypeOK, KeyInv, MenuStep \/ UserStep PROVE KeyInv'
<1>1. CASE GenerateWaited \/ DeleteWaited \/ QuitWaited
  <2>1. CASE GenerateWaited
    BY <2>1 DEF GenerateWaited, WaitForAll, keyVars, scanVars, KeyInv, NoKey, Passed
  <2>2. CASE DeleteWaited
    BY <2>2 DEF DeleteWaited, WaitForAll, keyVars, scanVars, KeyInv
  <2>3. CASE QuitWaited
    BY <2>3 DEF QuitWaited, WaitForAll, keyVars, scanVars, KeyInv, NoKey, Passed
  <2> QED
    BY <1>1, <2>1, <2>2, <2>3
<1>2. CASE ReloadGenerated
  BY <1>2, ServerAuthAssumption DEF ReloadGenerated, LoadPublicKey, scanVars, KeyInv, NoKey, Passed
<1>3. CASE DeleteStop \/ QuitStop
  BY <1>3 DEF DeleteStop, QuitStop, StopTimer, keyVars, KeyInv, NoKey, Passed
<1>4. CASE ListCleared \/ ServerDestroyed
  BY <1>4 DEF ListCleared, ServerDestroyed, ScanStopped, keyVars, scanVars, KeyInv, NoKey, Passed
<1>5. CASE EraseKeys \/ ReloadDeleted
  BY <1>5 DEF EraseKeys, ReloadDeleted, LoadPublicKey, KeyInv
<1>6. CASE SaveAndSend
  BY <1>6 DEF SaveAndSend, scanVars, KeyInv, NoKey, Passed
<1>7. CASE ClickGenerate \/ ClickQuit
  BY <1>7 DEF ClickGenerate, ClickQuit, Click, scanVars, KeyInv, NoKey, Passed
<1>8. CASE ClickDelete
  BY <1>8, ServerAuthAssumption DEF ClickDelete, KeyInv, TypeOK
<1> QED
  BY <1>1, <1>2, <1>3, <1>4, <1>5, <1>6, <1>7, <1>8 DEF MenuStep, UserStep

LEMMA KeyStep == ASSUME TypeOK, OwnInv, KeyInv, [Next]_vars PROVE KeyInv'
<1>1. CASE UNCHANGED vars
  BY <1>1 DEF vars, keyVars, scanVars, KeyInv, NoKey, Passed
<1>0. OwnInv'
  BY OwnStep
<1>2. CASE Next
  BY <1>0, <1>2, ProbeKeys, HandlerKeys, ScanKeys, LinkKeys, DemandKeys, MainLoopKeys, MenuKeys DEF Next
<1> QED
  BY <1>1, <1>2

KeyIInv == TypeOK /\ GenerationRoom /\ OwnInv /\ KeyInv

LEMMA KeyInvHolds == Spec => []KeyIInv
<1>1. Init => KeyIInv
  <2>1. Init => KeyInv
    BY ServerAuthAssumption DEF Init, KeyInv, NoKey, Passed, FreeObject
  <2> QED
    BY <2>1, OwnInit, InitType DEF Init, GenerationRoom, KeyIInv
<1>2. KeyIInv /\ [Next]_vars => KeyIInv'
  BY TypeStep, OwnStep, KeyStep DEF KeyIInv
<1> QED
  BY <1>1, <1>2, PTL DEF Spec

\* Without "Delete Keys", the authenticated server always is a token that was
\* verified with the key in memory, however scans, verifications, disconnects
\* and "Generate Keys" interleave.
THEOREM ServerKeyCorrect == Spec => []ServerMatchesKey
<1>1. KeyIInv => ServerMatchesKey
  BY ServerAuthAssumption DEF KeyIInv, KeyInv, NoKey, Passed, ServerMatchesKey, TypeOK
<1> QED
  BY <1>1, KeyInvHolds, PTL

\* The key is missing in a verification only after "Delete Keys".
THEOREM KeyPresent == Spec => []KeyPresentUntilDelete
<1>1. KeyIInv => KeyPresentUntilDelete
  BY ServerAuthAssumption DEF KeyIInv, KeyInv, KeyPresentUntilDelete, TypeOK
<1> QED
  BY <1>1, KeyInvHolds, PTL

-----------------------------------------------------------------------------
\* What ends an authentication when the server is the only CDevice.

\* The only two steps that leave the client without a server.
LEMMA RevocationSteps ==
  ASSUME OwnInv, TypeOK, m_Server # None, m_Server' = None, [Next]_vars
  PROVE  (\E o \in Objects : HandleDisconnected(o)) \/ (\E l \in Loans : DemandUnreachable(l))
<1>1. (\E o \in Objects : ProbeStep(o)) => UNCHANGED m_Server \/ m_Server' \in Objects
  BY DEF ProbeStep, MakeFails, ServicesQueried, RegisterHandler, ReadFails, RejectPeer,
         VerifyToken, CheckAuthenticated, GrantAuthentication
<1>2. (\E o \in Objects : ReadConnectionStatus(o) \/ LockSelf(o) \/ HandlerReturns(o))
      \/ (\E l \in Loans : StartDemand(l) \/ WriteDemand(l) \/ Subscribe(l) \/ EndDemand(l))
        => UNCHANGED m_Server
  BY DEF ReadConnectionStatus, LockSelf, HandlerReturns, StartDemand, WriteDemand, Subscribe,
         BorrowServer, EndDemand
<1>3. (\E t \in ScanTasks, o \in Objects, a \in Addresses : EnqueueDevice(t, o, a))
      \/ (\E a \in Addresses : LinkLost(a) \/ LinkRestored(a)) => UNCHANGED m_Server
  BY DEF EnqueueDevice, LinkLost, LinkRestored
<1>4. MainLoopStep \/ MenuStep \/ UserStep \/ (\E t \in ScanTasks : ScanStep(t) \/ StopScan(t))
        => UNCHANGED m_Server
  BY DEF MainLoopStep, NotConnected, NotAuthenticated, RecreateList,
         UserStep, ClickGenerate, ClickDelete, ClickQuit, Click,
         MenuStep, GenerateWaited, DeleteWaited, QuitWaited, WaitForAll, ReloadGenerated,
         ReloadDeleted, LoadPublicKey, DeleteStop, QuitStop, StopTimer, ListCleared,
         ServerDestroyed, ScanStopped, EraseKeys, SaveAndSend,
         ScanStep, StartScan, ContinueScan, PollDone, EndScan, StopScan
<1> QED
  BY <1>1, <1>2, <1>3, <1>4, ServerAuthAssumption DEF Next, HandlerStep, DemandStep, vars

\* A server that is the only CDevice loses its authentication only because its
\* own handler saw its link down or its own characteristic was unreachable: a
\* handler past its lock is an owner, so that its object is not gone.
THEOREM LoneServer == Spec => LoneServerRevocation
<1>1. Init => TypeOK /\ GenerationRoom /\ OwnInv
  BY InitType, OwnInit DEF Init, GenerationRoom
<1>2. TypeOK /\ GenerationRoom /\ OwnInv /\ [Next]_vars => (TypeOK /\ GenerationRoom /\ OwnInv)'
  BY TypeStep, OwnStep
<1>3. TypeOK /\ GenerationRoom /\ OwnInv /\ [Next]_vars =>
        [ /\ m_Server # None
          /\ m_Server' = None
          /\ \A o \in Objects \ {m_Server} : obj[o].pc = "free"
          => \/ handler[m_Server] = "revoking"
             \/ \E l \in Loans : loan[l] = [phase |-> "write", object |-> m_Server] ]_vars
  <2> SUFFICES ASSUME TypeOK, OwnInv, [Next]_vars, m_Server # None, m_Server' = None,
                      \A o \in Objects \ {m_Server} : obj[o].pc = "free"
               PROVE  \/ handler[m_Server] = "revoking"
                      \/ \E l \in Loans : loan[l] = [phase |-> "write", object |-> m_Server]
    OBVIOUS
  <2>1. ASSUME NEW o \in Objects, HandleDisconnected(o) PROVE handler[m_Server] = "revoking"
    <3>1. handler[o] = "revoking" /\ o \in HeldByHandler
      BY <2>1 DEF HandleDisconnected, HeldByHandler
    <3> QED
      BY <3>1 DEF OwnInv, Ownership
  <2>2. ASSUME NEW l \in Loans, DemandUnreachable(l)
        PROVE  loan[l] = [phase |-> "write", object |-> m_Server]
    <3>1. loan[l] \in [phase : LoanPhases, object : Objects \cup {None}]
      BY DEF TypeOK
    <3>2. loan[l].phase = "write" /\ obj[loan[l].object].pc = "kept"
      BY <2>2 DEF DemandUnreachable, OwnInv, Ownership
    <3>3. loan[l].object \in Objects
      BY <3>1, <3>2 DEF OwnInv
    <3>4. loan[l].object = m_Server
      BY <3>2, <3>3
    <3> QED
      BY <3>1, <3>2, <3>4
  <2> QED
    BY <2>1, <2>2, RevocationSteps
<1> QED
  BY <1>1, <1>2, <1>3, PTL DEF Spec, LoneServerRevocation
=============================================================================
