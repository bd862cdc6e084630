------------------------------ MODULE ServerAuth ------------------------------
(***************************************************************************)
(* How the client comes to trust a token, and how it loses that trust.     *)
(*                                                                         *)
(* The threads: the GUI thread (main loop, "Generate Keys", "Delete Keys", *)
(* quit), the executor threads that run CDeviceList's time limited scans,  *)
(* one coroutine per scanned device (CServer::process_queue), the thread   *)
(* pool that delivers ConnectionStatusChanged, and the coroutines of the   *)
(* RSSI demander, each of which borrows the server's CDevice.  A CDevice   *)
(* lives while its own coroutine, m_Server, a borrower or its running      *)
(* connection handler holds a shared_ptr to it.                            *)
(***************************************************************************)
EXTENDS Naturals

CONSTANTS
    Objects,        \* CDevice objects, with the coroutine that makes each
    Addresses,      \* Bluetooth addresses in range
    Tokens,         \* the addresses that belong to an access token
    Loans,          \* RSSI coroutines that can hold a CDevice at a time (bound)
    ScanTasks,      \* scan tasks the executor can hold at a time (bound)
    None,           \* std::nullopt, nullptr
    MAX_ATTEMPTS,   \* reads of the authenticate characteristic per device
    MaxKeys,        \* key generations (bound)
    MaxErases       \* uses of "Delete Keys" (bound)

ASSUME ServerAuthAssumption ==
    /\ Tokens \subseteq Addresses
    /\ None \notin Objects \cup Addresses
    /\ MAX_ATTEMPTS \in Nat \ {0}
    /\ MaxKeys \in Nat \ {0}
    /\ MaxErases \in Nat

VARIABLES
    m_Server,       \* the authenticated CDevice, or None
    m_pServerKey,   \* generation of the key in memory, 0 for nullptr
    keyFiles,       \* generation of the key files on disk, 0 for none
    generation,     \* newest generation made so far
    tokenKey,       \* generation the tokens were provisioned with
    obj,            \* obj[o]: the CDevice o and its coroutine
    linkUp,         \* linkUp[a]: BluetoothLEDevice::ConnectionStatus of a
    handler,        \* handler[o]: where the running handler of o is
    loan,           \* loan[l]: an RSSI coroutine and the CDevice it holds
    task,           \* task[t]: where a scan task is
    m_ScanTimer,    \* CDeviceList::m_ScanTimer.active()
    scanning,       \* the advertisement watcher is started
    m_DeviceCache,  \* addresses this scan has reported already
    gui,            \* where the GUI thread is
    erases,         \* number of "Delete Keys" so far
    trapped         \* the assertion on m_pServerKey has failed

keyVars  == <<m_pServerKey, keyFiles, generation, tokenKey, erases>>
scanVars == <<task, m_ScanTimer, scanning, m_DeviceCache>>
vars == <<m_Server, keyVars, obj, linkUp, handler, loan, scanVars, gui, trapped>>

-----------------------------------------------------------------------------
Generations == 0..MaxKeys

ProbeStates == {"making", "made", "verify", "check", "grant"}

GuiStates == {"frame", "checkAuthenticated", "checkScan",
              "generateWait", "generateSend", "generateReload",
              "deleteWait", "deleteErase", "deleteReload", "deleteStop", "deleteSpin",
              "quitWait", "quitStop", "quitSpin", "gone"}

FreeObject == [pc |-> "free", address |-> None, attempt |-> 0, key |-> 0,
               queued |-> FALSE]

HandlerStates == {"idle", "sawDown", "revoking", "leaving"}

LoanPhases == {"none", "query", "write", "subscribe"}

NoLoan == [phase |-> "none", object |-> None]

TypeOK ==
    /\ m_Server \in Objects \cup {None}
    /\ m_pServerKey \in Generations
    /\ keyFiles \in Generations
    /\ generation \in Generations
    /\ tokenKey \in Generations
    /\ obj \in [Objects -> [pc : ProbeStates \cup {"free", "kept"},
                            address : Addresses \cup {None},
                            attempt : 0..(MAX_ATTEMPTS - 1),
                            key : Generations,
                            queued : BOOLEAN]]
    /\ linkUp \in [Addresses -> BOOLEAN]
    /\ handler \in [Objects -> HandlerStates]
    /\ loan \in [Loans -> [phase : LoanPhases, object : Objects \cup {None}]]
    /\ task \in [ScanTasks -> {"idle", "spawned", "top", "poll", "ending"}]
    /\ m_ScanTimer \in BOOLEAN
    /\ scanning \in BOOLEAN
    /\ m_DeviceCache \subseteq Addresses
    /\ gui \in GuiStates
    /\ erases \in 0..MaxErases
    /\ trapped \in BOOLEAN

Init ==
    /\ m_Server = None
    /\ keyFiles \in {0, 1}
    /\ m_pServerKey = keyFiles
    /\ generation = keyFiles
    /\ tokenKey \in {0, keyFiles}
    /\ obj = [o \in Objects |-> FreeObject]
    /\ linkUp = [a \in Addresses |-> FALSE]
    /\ handler = [o \in Objects |-> "idle"]
    /\ loan = [l \in Loans |-> NoLoan]
    /\ task = [t \in ScanTasks |-> "idle"]
    /\ m_ScanTimer = FALSE
    /\ scanning = FALSE
    /\ m_DeviceCache = {}
    /\ gui = "frame"
    /\ erases = 0
    /\ trapped = FALSE

-----------------------------------------------------------------------------
\* Helpers.

\* The coroutine of o has not returned.
InFlight(o) == obj[o].pc \in ProbeStates

\* o has a ConnectionStatusChanged handler.
HasHandler(o) == obj[o].pc \in {"verify", "check", "grant", "kept"}

\* CCoroutineManager::m_ActiveCoroutines is 0.
AllCoroutinesFinished ==
    /\ \A l \in Loans : loan[l].phase = "none"
    /\ \A o \in Objects : ~InFlight(o)

\* What the coroutines L of the demander hold, and what running handlers hold.
Lent(L) == {loan[l].object : l \in L}
HeldByHandler == {o \in Objects : handler[o] \in {"revoking", "leaving"}}

\* The objects of "dropped" lose their last shared_ptr; ~CDevice takes the
\* handler back, so that queued events are never delivered.
Destroy(dropped, current) ==
    obj' = [o \in Objects |-> IF o \in dropped THEN FreeObject ELSE current[o]]

\* The coroutine of o returns; its running handler may still hold the object.
EndProbe(o, current) ==
    IF o \in HeldByHandler
    THEN obj' = [current EXCEPT ![o].pc = "kept"]
    ELSE Destroy({o}, current)

\* WinRT queues a ConnectionStatusChanged event on every handler of a.
Notify(a, current) ==
    [o \in Objects |-> IF HasHandler(o) /\ obj[o].address = a
                       THEN [current[o] EXCEPT !.queued = TRUE]
                       ELSE current[o]]

\* A GATT call answered by a: the link is up, whatever it was before.
Reached(a, current) == IF linkUp[a] THEN current ELSE Notify(a, current)

Connected == m_Server # None /\ linkUp[obj[m_Server].address]

\* Mutant of Revoke: the device goes although a coroutine holds it.
RevokeIgnoresBorrower(current) == m_Server' = None /\ Destroy({m_Server}, current)

\* CServer::revoke_authentication, whoever calls it: the server of the moment goes.
Revoke(current) ==
    /\ m_Server' = None
    /\ Destroy({m_Server} \ (Lent(Loans) \cup HeldByHandler), current)

-----------------------------------------------------------------------------
\* The coroutine of a scanned device: CServer::process_queue, CDevice::make.

\* CServer::enqueue_devices, for one new DeviceInfo of the scan.
EnqueueDevice(t, o, a) ==
    /\ task[t] = "poll"
    /\ a \notin m_DeviceCache
    /\ obj[o].pc = "free"
    /\ handler[o] = "idle"
    /\ m_DeviceCache' = m_DeviceCache \cup {a}
    /\ obj' = [obj EXCEPT ![o] = [FreeObject EXCEPT !.pc = "making", !.address = a]]
    /\ UNCHANGED <<m_Server, keyVars, linkUp, handler, loan, task, m_ScanTimer, scanning, gui, trapped>>

\* No such peripheral, no services, or an exception.
MakeFails(o) ==
    /\ obj[o].pc = "making"
    /\ EndProbe(o, obj)
    /\ UNCHANGED <<m_Server, keyVars, linkUp, handler, loan, scanVars, gui, trapped>>

\* query_services has succeeded; the handler is not registered yet.
ServicesQueried(o) ==
    LET a == obj[o].address IN
    /\ obj[o].pc = "making"
    /\ linkUp' = [linkUp EXCEPT ![a] = TRUE]
    /\ obj' = Reached(a, [obj EXCEPT ![o].pc = "made"])
    /\ UNCHANGED <<m_Server, keyVars, handler, loan, scanVars, gui, trapped>>

RegisterHandler(o) ==
    /\ obj[o].pc = "made"
    /\ obj' = [obj EXCEPT ![o].pc = "verify"]
    /\ UNCHANGED <<m_Server, keyVars, linkUp, handler, loan, scanVars, gui, trapped>>

\* Mutants of ReadFails: one attempt too many; the attempts start over for ever.
ReadFailsOffByOne(o) ==
    /\ obj[o].pc = "verify"
    /\ IF obj[o].attempt < MAX_ATTEMPTS
       THEN obj' = [obj EXCEPT ![o].attempt = @ + 1]
       ELSE EndProbe(o, obj)
    /\ UNCHANGED <<m_Server, keyVars, linkUp, handler, loan, scanVars, gui, trapped>>

ReadFailsForever(o) ==
    /\ obj[o].pc = "verify"
    /\ obj' = [obj EXCEPT ![o].attempt = (@ + 1) % MAX_ATTEMPTS]
    /\ UNCHANGED <<m_Server, keyVars, linkUp, handler, loan, scanVars, gui, trapped>>

\* read_value of the authenticate characteristic fails, at most MAX_ATTEMPTS times.
ReadFails(o) ==
    /\ obj[o].pc = "verify"
    /\ IF obj[o].attempt + 1 < MAX_ATTEMPTS
       THEN obj' = [obj EXCEPT ![o].attempt = @ + 1]
       ELSE EndProbe(o, obj)
    /\ UNCHANGED <<m_Server, keyVars, linkUp, handler, loan, scanVars, gui, trapped>>

\* The peer has no authenticate characteristic, or its packet is malformed.
RejectPeer(o) ==
    /\ obj[o].pc = "verify"
    /\ obj[o].address \notin Tokens
    /\ EndProbe(o, obj)
    /\ UNCHANGED <<m_Server, keyVars, linkUp, handler, loan, scanVars, gui, trapped>>

\* A token's packet arrives: the signature is checked with whatever key is in
\* memory now.  Without a key the assertion before the check fails.
VerifyToken(o) ==
    LET a == obj[o].address IN
    /\ obj[o].pc = "verify"
    /\ a \in Tokens
    /\ linkUp' = [linkUp EXCEPT ![a] = TRUE]
    /\ \/ /\ m_pServerKey = 0
          /\ trapped' = TRUE
          /\ UNCHANGED obj
       \/ /\ m_pServerKey # 0
          /\ m_pServerKey # tokenKey
          /\ EndProbe(o, Reached(a, obj))
          /\ UNCHANGED trapped
       \/ /\ m_pServerKey # 0
          /\ m_pServerKey = tokenKey
          /\ obj' = Reached(a, [obj EXCEPT ![o].pc = "check", ![o].key = m_pServerKey])
          /\ UNCHANGED trapped
    /\ UNCHANGED <<m_Server, keyVars, handler, loan, scanVars, gui>>

\* is_authenticated(), under its own lock.
CheckAuthenticated(o) ==
    /\ obj[o].pc = "check"
    /\ IF m_Server # None
       THEN EndProbe(o, obj)
       ELSE obj' = [obj EXCEPT ![o].pc = "grant"]
    /\ UNCHANGED <<m_Server, keyVars, linkUp, handler, loan, scanVars, gui, trapped>>

\* grant_authentication(), under another lock: emplace drops the old server.
GrantAuthentication(o) ==
    /\ obj[o].pc = "grant"
    /\ m_Server' = o
    /\ Destroy({m_Server} \ (Lent(Loans) \cup HeldByHandler), [obj EXCEPT ![o].pc = "kept"])
    /\ UNCHANGED <<keyVars, linkUp, handler, loan, scanVars, gui, trapped>>

ProbeStep(o) ==
    \/ MakeFails(o) \/ ServicesQueried(o) \/ RegisterHandler(o)
    \/ ReadFails(o) \/ RejectPeer(o) \/ VerifyToken(o)
    \/ CheckAuthenticated(o) \/ GrantAuthentication(o)

-----------------------------------------------------------------------------
\* Links, and CDevice::connection_changed_handler.

LinkLost(a) ==
    /\ linkUp[a]
    /\ linkUp' = [linkUp EXCEPT ![a] = FALSE]
    /\ obj' = Notify(a, obj)
    /\ UNCHANGED <<m_Server, keyVars, handler, loan, scanVars, gui, trapped>>

\* Windows reconnects a device some CDevice refers to.
LinkRestored(a) ==
    /\ ~linkUp[a]
    /\ \E o \in Objects : obj[o].address = a /\ obj[o].pc # "making"
    /\ linkUp' = [linkUp EXCEPT ![a] = TRUE]
    /\ obj' = Notify(a, obj)
    /\ UNCHANGED <<m_Server, keyVars, handler, loan, scanVars, gui, trapped>>

\* The handler reads the status the link has now.  Connected is only logged;
\* the object is locked for it all the same.
ReadConnectionStatus(o) ==
    /\ obj[o].queued
    /\ handler[o] = "idle"
    /\ obj' = [obj EXCEPT ![o].queued = FALSE]
    /\ handler' = [handler EXCEPT ![o] =
                     IF linkUp[obj[o].address] THEN "leaving" ELSE "sawDown"]
    /\ UNCHANGED <<m_Server, keyVars, linkUp, loan, scanVars, gui, trapped>>

\* Mutant of LockSelf: the handler captures a plain pointer to its CDevice.
LockSelfUnchecked(o) ==
    /\ handler[o] = "sawDown"
    /\ handler' = [handler EXCEPT ![o] = "revoking"]
    /\ UNCHANGED <<m_Server, keyVars, obj, linkUp, loan, scanVars, gui, trapped>>

\* wpSelf.lock(): from here on the handler is an owner of its CDevice.
LockSelf(o) ==
    /\ handler[o] = "sawDown"
    /\ handler' = [handler EXCEPT ![o] = IF obj[o].pc = "free" THEN "idle" ELSE "revoking"]
    /\ UNCHANGED <<m_Server, keyVars, obj, linkUp, loan, scanVars, gui, trapped>>

\* Mutant of HandleDisconnected: the disconnected case only logs.
HandleDisconnectedOnlyLogs(o) ==
    /\ handler[o] = "revoking"
    /\ handler' = [handler EXCEPT ![o] = "leaving"]
    /\ UNCHANGED <<m_Server, keyVars, obj, linkUp, loan, scanVars, gui, trapped>>

\* disconnected: the callback revokes whichever server there is by now.
HandleDisconnected(o) ==
    /\ handler[o] = "revoking"
    /\ Revoke(obj)
    /\ handler' = [handler EXCEPT ![o] = "leaving"]
    /\ UNCHANGED <<keyVars, linkUp, loan, scanVars, gui, trapped>>

\* The handler returns and drops what may be the last shared_ptr.
HandlerReturns(o) ==
    /\ handler[o] = "leaving"
    /\ handler' = [handler EXCEPT ![o] = "idle"]
    /\ Destroy({o} \ ({p \in Objects : InFlight(p)} \cup {m_Server} \cup Lent(Loans)), obj)
    /\ UNCHANGED <<m_Server, keyVars, linkUp, loan, scanVars, gui, trapped>>

HandlerStep(o) ==
    ReadConnectionStatus(o) \/ LockSelf(o) \/ HandleDisconnected(o) \/ HandlerReturns(o)

-----------------------------------------------------------------------------
\* The coroutines of the demander as CServer sees them: has_subscribed() and
\* device() copy the shared_ptr, subscribe() locks its weak_ptr at once.

\* has_subscribed(): one query at a time is in flight for a device, a second
\* one returns without an await.
StartDemand(l) ==
    /\ gui = "frame"
    /\ loan[l].phase = "none"
    /\ m_Server # None
    /\ \A other \in Loans : loan[other] # [phase |-> "query", object |-> m_Server]
    /\ loan' = [loan EXCEPT ![l] = [phase |-> "query", object |-> m_Server]]
    /\ UNCHANGED <<m_Server, keyVars, obj, linkUp, handler, scanVars, gui, trapped>>

\* The query has its answer; the next coroutine takes the server there is by now.
BorrowServer(l, phase) ==
    /\ loan[l].phase = "query"
    /\ m_Server # None
    /\ loan' = [loan EXCEPT ![l] = [phase |-> phase, object |-> m_Server]]
    /\ Destroy({loan[l].object} \ ({m_Server} \cup Lent(Loans \ {l}) \cup HeldByHandler), obj)
    /\ UNCHANGED <<m_Server, keyVars, linkUp, handler, scanVars, gui, trapped>>

WriteDemand(l) == BorrowServer(l, "write")
Subscribe(l) == BorrowServer(l, "subscribe")

EndDemand(l) ==
    /\ loan[l].phase # "none"
    /\ loan' = [loan EXCEPT ![l] = NoLoan]
    /\ Destroy({loan[l].object} \ ({m_Server} \cup Lent(Loans \ {l}) \cup HeldByHandler), obj)
    /\ UNCHANGED <<m_Server, keyVars, linkUp, handler, scanVars, gui, trapped>>

\* A write to an unreachable peer revokes the server of the moment.
DemandUnreachable(l) ==
    /\ loan[l].phase = "write"
    /\ m_Server' = None
    /\ loan' = [loan EXCEPT ![l] = NoLoan]
    /\ Destroy({m_Server, loan[l].object} \ (Lent(Loans \ {l}) \cup HeldByHandler), obj)
    /\ UNCHANGED <<keyVars, linkUp, handler, scanVars, gui, trapped>>

DemandStep(l) == WriteDemand(l) \/ Subscribe(l) \/ EndDemand(l) \/ DemandUnreachable(l)

-----------------------------------------------------------------------------
\* CDeviceList::time_limited_scan.

StartScan(t) ==
    /\ task[t] = "spawned"
    /\ task' = [task EXCEPT ![t] = "top"]
    /\ m_ScanTimer' = TRUE
    /\ scanning' = TRUE
    /\ m_DeviceCache' = {}
    /\ UNCHANGED <<m_Server, keyVars, obj, linkUp, handler, loan, gui, trapped>>

ContinueScan(t) ==
    /\ task[t] = "top"
    /\ m_ScanTimer
    /\ m_Server = None
    /\ task' = [task EXCEPT ![t] = "poll"]
    /\ UNCHANGED <<m_Server, keyVars, obj, linkUp, handler, loan, m_ScanTimer, scanning,
                   m_DeviceCache, gui, trapped>>

PollDone(t) ==
    /\ task[t] = "poll"
    /\ task' = [task EXCEPT ![t] = "top"]
    /\ UNCHANGED <<m_Server, keyVars, obj, linkUp, handler, loan, m_ScanTimer, scanning,
                   m_DeviceCache, gui, trapped>>

\* Mutant of StopScan: the task leaves its loop with the timer running.
StopScanKeepsTimer(t) ==
    /\ task[t] = "top"
    /\ task' = [task EXCEPT ![t] = "ending"]
    /\ UNCHANGED <<m_Server, keyVars, obj, linkUp, handler, loan, m_ScanTimer, scanning,
                   m_DeviceCache, gui, trapped>>

\* The timer was stopped, 25 s are over, or a server is authenticated.
StopScan(t) ==
    /\ task[t] = "top"
    /\ m_ScanTimer' = FALSE
    /\ task' = [task EXCEPT ![t] = "ending"]
    /\ UNCHANGED <<m_Server, keyVars, obj, linkUp, handler, loan, scanning, m_DeviceCache, gui, trapped>>

EndScan(t) ==
    /\ task[t] = "ending"
    /\ scanning' = FALSE
    /\ task' = [task EXCEPT ![t] = "idle"]
    /\ UNCHANGED <<m_Server, keyVars, obj, linkUp, handler, loan, m_ScanTimer, m_DeviceCache, gui, trapped>>

-----------------------------------------------------------------------------
\* The GUI thread: the main loop.

\* keys_exists() and not server.connected().
NotConnected ==
    /\ gui = "frame"
    /\ keyFiles # 0
    /\ ~Connected
    /\ gui' = "checkAuthenticated"
    /\ UNCHANGED <<m_Server, keyVars, obj, linkUp, handler, loan, scanVars, trapped>>

NotAuthenticated ==
    /\ gui = "checkAuthenticated"
    /\ gui' = IF m_Server = None THEN "checkScan" ELSE "frame"
    /\ UNCHANGED <<m_Server, keyVars, obj, linkUp, handler, loan, scanVars, trapped>>

\* CDeviceList::recreate_list: no new scan while one runs.
RecreateList ==
    /\ gui = "checkScan"
    /\ gui' = "frame"
    /\ \/ /\ ~m_ScanTimer /\ ~scanning
          /\ \E t \in ScanTasks : /\ task[t] = "idle"
                                  /\ task' = [task EXCEPT ![t] = "spawned"]
       \/ /\ m_ScanTimer \/ scanning \/ \A t \in ScanTasks : task[t] # "idle"
          /\ UNCHANGED task
    /\ UNCHANGED <<m_Server, keyVars, obj, linkUp, handler, loan, m_ScanTimer, scanning,
                   m_DeviceCache, trapped>>

\* CCoroutineManager::wait_for_all lets the GUI thread go on.
WaitForAll(from, to) ==
    /\ gui = from
    /\ AllCoroutinesFinished
    /\ gui' = to
    /\ UNCHANGED <<m_Server, keyVars, obj, linkUp, handler, loan, scanVars, trapped>>

Click(to) ==
    /\ gui = "frame"
    /\ gui' = to
    /\ UNCHANGED <<m_Server, m_pServerKey, keyFiles, generation, tokenKey, obj, linkUp,
                   handler, loan, scanVars, trapped>>

\* end_time_limited_scan: stop the timer, then spin until the watcher stops.
StopTimer(from, spin) ==
    /\ gui = from
    /\ scanning
    /\ m_ScanTimer' = FALSE
    /\ gui' = spin
    /\ UNCHANGED <<m_Server, keyVars, obj, linkUp, handler, loan, task, scanning, m_DeviceCache, trapped>>

ScanStopped(states, to) ==
    /\ gui \in states
    /\ ~scanning
    /\ gui' = to
    /\ UNCHANGED <<m_Server, keyVars, obj, linkUp, handler, loan, scanVars, trapped>>

LoadPublicKey(from, to) ==
    /\ gui = from
    /\ m_pServerKey' = keyFiles
    /\ gui' = to
    /\ UNCHANGED <<m_Server, keyFiles, generation, tokenKey, erases, obj, linkUp, handler, loan,
                   scanVars, trapped>>

-----------------------------------------------------------------------------
\* Mutant of ClickGenerate: the menu item is enabled while keys exist.
ClickGenerateAnytime == generation < MaxKeys /\ Click("generateWait") /\ UNCHANGED erases

\* "Generate Keys": offered only while there are no keys.
ClickGenerate == keyFiles = 0 /\ generation < MaxKeys /\ Click("generateWait") /\ UNCHANGED erases
GenerateWaited == WaitForAll("generateWait", "generateSend")

\* Both pairs are saved and sent; a failed send is only logged.
SaveAndSend ==
    /\ gui = "generateSend"
    /\ generation' = generation + 1
    /\ keyFiles' = generation + 1
    /\ tokenKey' \in {tokenKey, generation + 1}
    /\ gui' = "generateReload"
    /\ UNCHANGED <<m_Server, m_pServerKey, erases, obj, linkUp, handler, loan, scanVars, trapped>>

ReloadGenerated == LoadPublicKey("generateReload", "frame")

\* "Delete Keys": always offered.
ClickDelete == erases < MaxErases /\ Click("deleteWait") /\ erases' = erases + 1
DeleteWaited == WaitForAll("deleteWait", "deleteErase")

EraseKeys ==
    /\ gui = "deleteErase"
    /\ keyFiles' = 0
    /\ gui' = "deleteReload"
    /\ UNCHANGED <<m_Server, m_pServerKey, generation, tokenKey, erases, obj, linkUp, handler, loan,
                   scanVars, trapped>>

ReloadDeleted == LoadPublicKey("deleteReload", "deleteStop")
DeleteStop == StopTimer("deleteStop", "deleteSpin")
ListCleared == ScanStopped({"deleteStop", "deleteSpin"}, "frame")

\* Leaving main: wait, ~CDeviceList, then ~CServer.
ClickQuit == Click("quitWait") /\ UNCHANGED erases
QuitWaited == WaitForAll("quitWait", "quitStop")
QuitStop == StopTimer("quitStop", "quitSpin")
ServerDestroyed == ScanStopped({"quitStop", "quitSpin"}, "gone")

MainLoopStep == NotConnected \/ NotAuthenticated \/ RecreateList

MenuStep ==
    \/ GenerateWaited \/ SaveAndSend \/ ReloadGenerated
    \/ DeleteWaited \/ EraseKeys \/ ReloadDeleted \/ DeleteStop \/ ListCleared
    \/ QuitWaited \/ QuitStop \/ ServerDestroyed

UserStep == ClickGenerate \/ ClickDelete \/ ClickQuit

ScanStep(t) == StartScan(t) \/ ContinueScan(t) \/ PollDone(t) \/ EndScan(t)

Next ==
    /\ ~trapped
    /\ \/ \E o \in Objects : ProbeStep(o) \/ HandlerStep(o)
       \/ \E t \in ScanTasks, o \in Objects, a \in Addresses : EnqueueDevice(t, o, a)
       \/ \E t \in ScanTasks : ScanStep(t) \/ StopScan(t)
       \/ \E a \in Addresses : LinkLost(a) \/ LinkRestored(a)
       \/ \E l \in Loans : StartDemand(l) \/ DemandStep(l)
       \/ MainLoopStep \/ MenuStep \/ UserStep

Spec == Init /\ [][Next]_vars

-----------------------------------------------------------------------------
\* Fairness.  Every co_await of a GATT operation completes, queued events are
\* delivered, executor tasks run, and the GUI thread runs.  The 25 s of a scan
\* pass: a task that comes back to its loop condition again and again finds the
\* time over.  Users, links and the peers' answers owe nothing.
Fairness ==
    /\ \A o \in Objects : WF_vars(~trapped /\ ProbeStep(o)) /\ WF_vars(~trapped /\ HandlerStep(o))
    /\ \A t \in ScanTasks : WF_vars(~trapped /\ ScanStep(t)) /\ SF_vars(~trapped /\ StopScan(t))
    /\ \A l \in Loans : WF_vars(~trapped /\ DemandStep(l))
    /\ WF_vars(~trapped /\ MainLoopStep)
    /\ WF_vars(~trapped /\ MenuStep)

FairSpec == Spec /\ Fairness

-----------------------------------------------------------------------------
\* Properties.

\* shared_ptr ownership across the threads: the server, the object a coroutine
\* of the demander works on and the object a handler has locked exist, and an
\* object that outlives its coroutine is held by one of these three: no
\* interleaving frees it too early or leaves it behind (CServer.cpp:133-187,
\* 265-306, 322-374, CDevice.cpp:121-127).
Ownership ==
    /\ m_Server # None => obj[m_Server].pc = "kept"
    /\ \A l \in Loans : loan[l].phase # "none" => obj[loan[l].object].pc = "kept"
    /\ \A o \in HeldByHandler : obj[o].pc # "free"
    /\ \A o \in Objects : obj[o].pc = "kept" => o \in {m_Server} \cup Lent(Loans) \cup HeldByHandler

\* As long as "Delete Keys" has not been used, the authenticated server is a
\* token whose signature was checked with the very key that is in memory, no
\* matter how scans, verifications and "Generate Keys" interleave.
ServerMatchesKey ==
    m_Server # None /\ erases = 0 =>
        /\ obj[m_Server].address \in Tokens
        /\ obj[m_Server].key = m_pServerKey
        /\ m_pServerKey # 0

\* The assertion in verify_server_address can fail only after "Delete Keys":
\* without it no scan reports a device while there is no key in memory.
KeyPresentUntilDelete == trapped => erases > 0

\* The text of that assertion (CServer.cpp:413): "This should always be valid -
\* key reload waits for coro to finnish".
KeyAlwaysValid == ~trapped

\* Handlers of destroyed objects are harmless: when the server is the only
\* CDevice there is, its authentication ends only because its own handler saw
\* its link down or its own characteristic could not be reached, although
\* handlers of objects that are gone may still be running (CDevice.cpp:95-127).
LoneServerRevocation ==
    [][ /\ m_Server # None
        /\ m_Server' = None
        /\ \A o \in Objects \ {m_Server} : obj[o].pc = "free"
        => \/ handler[m_Server] = "revoking"
           \/ \E l \in Loans : loan[l] = [phase |-> "write", object |-> m_Server] ]_vars

\* A server whose handler has an event waiting does not stay authenticated
\* over a dead link: it is revoked or the link is back.
LostServerNoticed ==
    \A o \in Objects :
        (m_Server = o /\ obj[o].queued) ~> (m_Server # o \/ linkUp[obj[o].address] \/ trapped)

\* wait_for_all always lets the GUI thread go on, although a running scan keeps
\* starting coroutines during the wait: scans are limited in time, no new one
\* starts, and every coroutine gives up after MAX_ATTEMPTS reads.
WaitReturns ==
    \A s \in {"generateWait", "deleteWait", "quitWait"} : gui = s ~> (gui # s \/ trapped)

\* With keys on disk and nobody authenticated, the main loop gets a scan going.
UnauthenticatedRescans ==
    (keyFiles # 0 /\ m_Server = None /\ gui = "frame") ~>
        (keyFiles = 0 \/ m_Server # None \/ gui \in {"quitWait", "quitStop", "quitSpin", "gone"}
            \/ scanning \/ trapped)
=============================================================================
