------------------------------ MODULE TokenBle ------------------------------
(***************************************************************************)
(* The token's Bluetooth: CNimble starts the NimBLE host and waits for it, *)
(* registers the profiles and makes CGap, which advertises and keeps one   *)
(* connection.                                                             *)
(*                                                                         *)
(* Threads: the main task, which runs the constructors, and the host task, *)
(* which runs sync_callback and every GAP and GATT callback.  The          *)
(* controller answers by events, which the host task takes one by one.  A  *)
(* connection handle is used again as soon as its link is down.            *)
(***************************************************************************)
EXTENDS Naturals, Sequences

CONSTANTS
    Handles,        \* connection handles of the controller
    None,           \* std::nullopt of CConnection::m_Handle
    MaxEvents,      \* events waiting for the host task (bound)
    MaxFaults       \* calls that fail, spurious wake-ups, resets (bound)

ASSUME HandlesAssumption == None \notin Handles
ASSUME BoundsAssumption == MaxEvents \in Nat /\ MaxFaults \in Nat

VARIABLES
    main,                   \* where the main task is
    host,                   \* the host task and its state of synchronisation
    address,                \* where each cell is, see Cells
    held,                   \* the addresses NimBLE has taken
    m_SignedMacData,        \* CWhoAmI has signed the address
    advertising,            \* ble_gap_adv_active()
    link,                   \* the controller's links
    events,                 \* events the host task has not taken yet
    connections,            \* handles the host knows (ble_hs_conn_find)
    terminating,            \* handles ble_gap_terminate was called for
    m_ActiveConnection,     \* CGap's one connection
    faults,                 \* faults so far
    unstarted,              \* history: a failed begin_advertise was only logged
    undropped,              \* history: both attempts to drop a connection failed
    unhidden,               \* history: end_advertise failed for the kept connection
    wasReset                \* history: the reset callback has run

mainVars == <<main, address, held, m_SignedMacData>>
gapVars  == <<advertising, connections, m_ActiveConnection>>
linkVars == <<link, events, terminating>>
history  == <<unstarted, undropped, unhidden, wasReset>>
vars == <<mainVars, host, gapVars, linkVars, faults, history>>

\* What NimBLE points into.  A characteristic: its callback, in the Model that a
\* CCharacteristic points to, and its data, which the CGattCharacteristic in that
\* Model points to.
Characteristics(p) == {<<p, "callback">>, <<p, "data">>}

\* A service: the elements of its vector of definitions, which point to the
\* above, and its identifier.
Service(p) == {<<p, "characteristics">>, <<p, "uuid">>}

\* The elements of CProfileCache::m_Services, which point to the services.
ServiceArray == <<"cache", "services">>

\* CGap::m_EventCallback, like m_Params a member of the object itself.
EventCallback == <<"gap", "eventCallback">>

ProfileCells == Characteristics("whoami") \cup Service("whoami")
                \cup Characteristics("whereami") \cup Service("whereami")

Cells == ProfileCells \cup {ServiceArray, EventCallback}

\* A cell that is not allocated; any other address names one place in memory.
Nowhere == 0

At(cs) == {<<c, address[c]>> : c \in cs}

\* Places in CNimble::CNimble; "unwinding" is app_main's handler of the exception
\* that leaves it, "loop" app_main's loop after it.
Places == {"boot", "whoami", "whereami", "build", "return", "start", "started", "wait",
           "gap", "advertise", "unwinding", "loop"}

\* An event the controller has posted; stops: the link ended the advertising.
Event == [kind : {"connect", "disconnect"}, handle : Handles, stops : BOOLEAN]

TypeOK ==
    /\ main \in Places
    /\ host \in {"off", "running", "syncing", "synced"}
    /\ address \in [Cells -> Nat]
    /\ held \subseteq Cells \X Nat
    /\ m_SignedMacData \in BOOLEAN
    /\ advertising \in BOOLEAN
    /\ link \in [Handles -> {"up", "down"}]
    /\ events \in Seq(Event)
    /\ connections \subseteq Handles
    /\ terminating \subseteq {h \in Handles : link[h] = "up"}
    /\ m_ActiveConnection \in Handles \cup {None}
    /\ faults \in 0..MaxFaults
    /\ unstarted \in BOOLEAN
    /\ undropped \in BOOLEAN
    /\ unhidden \in BOOLEAN
    /\ wasReset \in BOOLEAN

Init ==
    /\ main = "boot"
    /\ host = "off"
    /\ address = [c \in Cells |-> Nowhere]
    /\ held = {}
    /\ m_SignedMacData = FALSE
    /\ advertising = FALSE
    /\ link = [h \in Handles |-> "down"]
    /\ events = <<>>
    /\ connections = {}
    /\ terminating = {}
    /\ m_ActiveConnection = None
    /\ faults = 0
    /\ unstarted = FALSE
    /\ undropped = FALSE
    /\ unhidden = FALSE
    /\ wasReset = FALSE

\* n faults, at most MaxFaults in all.
Faults(n) ==
    /\ faults + n <= MaxFaults
    /\ faults' = faults + n

\* esp_restart, or a reboot after an exception that nobody catches.
Restart ==
    /\ main' = "boot"
    /\ host' = "off"
    /\ address' = [c \in Cells |-> Nowhere]
    /\ held' = {}
    /\ m_SignedMacData' = FALSE
    /\ advertising' = FALSE
    /\ link' = [h \in Handles |-> "down"]
    /\ events' = <<>>
    /\ connections' = {}
    /\ terminating' = {}
    /\ m_ActiveConnection' = None
    /\ unstarted' = FALSE
    /\ undropped' = FALSE
    /\ unhidden' = FALSE
    /\ wasReset' = FALSE

-----------------------------------------------------------------------------
\* The main task: CNimble::CNimble.

MainMoves(from, to) ==
    /\ main = from
    /\ main' = to

\* LOG_FATAL throws out of CNimble::CNimble.  Its members are destroyed, the cache
\* with all profiles and the CGap that is being made; the host task, if it runs,
\* runs on and knows their addresses.
Unwind ==
    /\ main' = "unwinding"
    /\ address' = [c \in Cells |-> Nowhere]
    /\ UNCHANGED <<host, held, m_SignedMacData, gapVars, linkVars, history>>

Fatal(place) ==
    /\ main = place
    /\ Faults(1)
    /\ Unwind

\* app_main has caught the exception and restarts.
Reboot ==
    /\ main = "unwinding"
    /\ Restart
    /\ UNCHANGED faults

Allocate(cs) == address' = [c \in Cells |-> IF c \in cs THEN 1 ELSE address[c]]

\* The object with these cells in it is moved: they are somewhere else now.
Relocate(cs) == address' = [c \in Cells |-> IF c \in cs THEN address[c] + 1 ELSE address[c]]

\* nimble_port_init; then the lock is taken and the host configured.
InitPort ==
    /\ MainMoves("boot", "whoami")
    /\ UNCHANGED <<host, address, held, m_SignedMacData, gapVars, linkVars, faults, history>>

\* add_whoami().add_whereami(): a profile is made, which loads its keys, put into
\* its shared_ptr and only then registered: it makes its characteristics and the
\* service that takes their addresses.
AddProfile(p, next) ==
    /\ MainMoves(p, next)
    /\ Allocate(Characteristics(p) \cup Service(p))
    /\ UNCHANGED <<host, held, m_SignedMacData, gapVars, linkVars, faults, history>>

AddProfiles == AddProfile("whoami", "whereami") \/ AddProfile("whereami", "build")

\* CProfileCache::CProfileCache collects the services in its array, which
\* points to their parts, and hands the array over: ble_gatts_count_cfg,
\* ble_gatts_add_svcs.
BuildProfileCache ==
    /\ MainMoves("build", "return")
    /\ Allocate({ServiceArray})
    /\ held' = At(ProfileCells) \cup {<<ServiceArray, address'[ServiceArray]>>}
    /\ UNCHANGED <<host, m_SignedMacData, gapVars, linkVars, faults, history>>

\* Mutant of CellsInCache: m_Services is an array in the object.
CellsInCacheByValue == {ServiceArray}

\* The cells that are part of a CProfileCache object: none, its vector has its
\* elements and its map the profiles on the heap, and a move hands them over.
CellsInCache == {}

\* The cache, already known to NimBLE, is moved into an optional and from there
\* to the heap.
ReturnProfileCache ==
    /\ MainMoves("return", "start")
    /\ Relocate(CellsInCache)
    /\ UNCHANGED <<host, held, m_SignedMacData, gapVars, linkVars, faults, history>>

StartHostTask ==
    /\ MainMoves("start", "started")
    /\ host' = "running"
    /\ UNCHANGED <<address, held, m_SignedMacData, gapVars, linkVars, faults, history>>

\* The wait gives the mutex back.
Wait ==
    /\ MainMoves("started", "wait")
    /\ UNCHANGED <<host, address, held, m_SignedMacData, gapVars, linkVars, faults, history>>

\* The wait has no predicate.
SpuriousWakeup ==
    /\ MainMoves("wait", "gap")
    /\ Faults(1)
    /\ UNCHANGED <<host, address, held, m_SignedMacData, gapVars, linkVars, history>>

\* make_unique<CGap> makes the object where it stays: CGap::CGap up to its
\* advertising, an address, a name, the fields.  It needs a synchronised host;
\* fields that are too large or busy are only logged.
MakeGap ==
    /\ main = "gap"
    /\ IF host \in {"syncing", "synced"}
       THEN /\ main' = "advertise"
            /\ Allocate({EventCallback})
            /\ UNCHANGED <<host, held, m_SignedMacData, gapVars, linkVars, history>>
       ELSE Unwind
    /\ UNCHANGED faults

\* The end of CGap::CGap: begin_advertise, which tells NimBLE the address of the
\* event callback; fatal if it fails.
FirstAdvertise ==
    /\ main = "advertise"
    /\ IF host \in {"syncing", "synced"}
       THEN /\ main' = "loop"
            /\ advertising' = TRUE
            /\ held' = held \cup At({EventCallback})
            /\ UNCHANGED <<host, address, m_SignedMacData, connections,
                           m_ActiveConnection, linkVars, history>>
       ELSE Unwind
    /\ UNCHANGED faults

MainFails ==
    \E place \in {"boot", "whoami", "whereami", "build", "gap", "advertise"} : Fatal(place)

MainStep ==
    \/ InitPort \/ AddProfiles \/ BuildProfileCache \/ ReturnProfileCache
    \/ StartHostTask \/ Wait \/ MakeGap \/ FirstAdvertise \/ Reboot

-----------------------------------------------------------------------------
\* The host task: synchronisation.

\* The constructor holds the mutex except while it waits; an exception releases it.
MutexTaken == main \notin {"wait", "unwinding", "loop"}

HostSyncs ==
    /\ host = "running"
    /\ host' = "syncing"
    /\ UNCHANGED <<mainVars, gapVars, linkVars, faults, history>>

\* Mutant of SyncCallback: it does not take the mutex.
SyncCallbackUnlocked ==
    /\ host = "syncing"
    /\ host' = "synced"
    /\ main' = IF main = "wait" THEN "gap" ELSE main
    /\ UNCHANGED <<address, held, m_SignedMacData, gapVars, linkVars, faults, history>>

\* notify_one, which nobody hears unless the main task waits.
SyncCallback ==
    /\ host = "syncing"
    /\ ~MutexTaken
    /\ host' = "synced"
    /\ main' = IF main = "wait" THEN "gap" ELSE main
    /\ UNCHANGED <<address, held, m_SignedMacData, gapVars, linkVars, faults, history>>

\* The host loses the controller: links and advertising end, and the disconnect
\* event of each link finds a host that cannot advertise.  The reset callback
\* logs that the device is restarted; the host synchronises again.
HostReset ==
    /\ host = "synced"
    /\ Faults(1)
    /\ host' = "running"
    /\ advertising' = FALSE
    /\ link' = [h \in Handles |-> "down"]
    /\ events' = <<>>
    /\ connections' = {}
    /\ terminating' = {}
    /\ m_ActiveConnection' = None
    /\ unhidden' = FALSE
    /\ wasReset' = TRUE
    /\ UNCHANGED <<mainVars, unstarted, undropped>>

-----------------------------------------------------------------------------
\* The controller.

IsConnectStopping(e) == e.kind = "connect" /\ e.stops

\* The controller advertises until a link that ends it is made; the host learns
\* of it from the event.
RadioOn == advertising /\ \A i \in 1..Len(events) : ~IsConnectStopping(events[i])

Post(kind, h, stops) ==
    /\ Len(events) < MaxEvents
    /\ events' = Append(events, [kind |-> kind, handle |-> h, stops |-> stops])

\* A connection normally ends the advertising.  That it may not is what the
\* handler of the event provides for.
PeerConnects(h) ==
    /\ RadioOn
    /\ link[h] = "down"
    /\ \E stops \in BOOLEAN : Post("connect", h, stops)
    /\ link' = [link EXCEPT ![h] = "up"]
    /\ UNCHANGED <<mainVars, host, gapVars, terminating, faults, history>>

\* The peer leaves, the link is lost or it is terminated.
LinkEnds(h) ==
    /\ link[h] = "up"
    /\ Post("disconnect", h, FALSE)
    /\ link' = [link EXCEPT ![h] = "down"]
    /\ terminating' = terminating \ {h}
    /\ UNCHANGED <<mainVars, host, gapVars, faults, history>>

-----------------------------------------------------------------------------
\* The host task: CGap's event callback.

NextEvent(kind, h) ==
    /\ host = "synced"
    /\ events # <<>>
    /\ Head(events).kind = kind
    /\ Head(events).handle = h
    /\ events' = Tail(events)

StillAdvertising == advertising /\ ~Head(events).stops

\* Mutant of KeepConnection: end_advertise is not called.
KeepConnectionAdvertising(h) ==
    /\ m_ActiveConnection' = h
    /\ advertising' = StillAdvertising
    /\ UNCHANGED <<faults, terminating, undropped, unhidden>>

\* set_connection; if the token still advertises, end_advertise, whose failure is
\* only logged.
KeepConnection(h) ==
    /\ m_ActiveConnection' = h
    /\ \/ advertising' = FALSE /\ UNCHANGED <<faults, unhidden>>
       \/ StillAdvertising /\ advertising' = TRUE /\ unhidden' = TRUE /\ Faults(1)
    /\ UNCHANGED <<terminating, undropped>>

\* Mutant of DropSecond: the connection is forgotten but not dropped.
DropSecondForgotten(h) ==
    /\ advertising' = StillAdvertising
    /\ UNCHANGED <<m_ActiveConnection, faults, terminating, undropped, unhidden>>

\* drop(busy), then the destructor of the handler's CConnection tries again; a
\* handle whose link is down already is not found by the controller.
DropSecond(h) ==
    /\ advertising' = StillAdvertising
    /\ UNCHANGED <<m_ActiveConnection, unhidden>>
    /\ \/ /\ terminating' = IF link[h] = "up" THEN terminating \cup {h} ELSE terminating
          /\ UNCHANGED <<faults, undropped>>
       \/ /\ Faults(2)
          /\ undropped' = TRUE
          /\ UNCHANGED terminating

\* Mutant of HandleConnect: every connection is kept.
HandleConnectAlways(h) ==
    /\ NextEvent("connect", h)
    /\ connections' = connections \cup {h}
    /\ KeepConnection(h)
    /\ UNCHANGED <<mainVars, host, link, unstarted, wasReset>>

HandleConnect(h) ==
    /\ NextEvent("connect", h)
    /\ connections' = connections \cup {h}
    /\ IF m_ActiveConnection = None THEN KeepConnection(h) ELSE DropSecond(h)
    /\ UNCHANGED <<mainVars, host, link, unstarted, wasReset>>

\* begin_advertise, unless the token advertises; a failure is only logged.
AdvertiseAgain ==
    \/ advertising' = TRUE /\ UNCHANGED <<faults, unstarted>>
    \/ /\ ~advertising
       /\ Faults(1)
       /\ unstarted' = TRUE
       /\ UNCHANGED advertising

\* Mutant of HandleDisconnect: only a handle that is not the kept one is looked
\* at, and the connection is not cleared.
HandleDisconnectOther(h) ==
    /\ NextEvent("disconnect", h)
    /\ connections' = connections \ {h}
    /\ IF m_ActiveConnection = h
       THEN AdvertiseAgain
       ELSE UNCHANGED <<advertising, faults, unstarted>>
    /\ UNCHANGED <<mainVars, host, link, terminating, m_ActiveConnection, undropped,
                   unhidden, wasReset>>

\* Mutant of HandleDisconnect: nothing is advertised afterwards.
HandleDisconnectQuietly(h) ==
    /\ NextEvent("disconnect", h)
    /\ connections' = connections \ {h}
    /\ m_ActiveConnection' = IF m_ActiveConnection = h THEN None ELSE m_ActiveConnection
    /\ UNCHANGED <<mainVars, host, advertising, link, terminating, faults, history>>

\* NimBLE forgets the connection, then calls back.  The handler's own CConnection
\* of the same handle is destroyed at its end and finds no connection.
HandleDisconnect(h) ==
    /\ NextEvent("disconnect", h)
    /\ connections' = connections \ {h}
    /\ IF m_ActiveConnection = h
       THEN m_ActiveConnection' = None /\ unhidden' = FALSE /\ AdvertiseAgain
       ELSE UNCHANGED <<m_ActiveConnection, unhidden, advertising, faults, unstarted>>
    /\ UNCHANGED <<mainVars, host, link, terminating, undropped, wasReset>>

\* The authenticate characteristic is read: the address is signed once.  Without
\* an address the exception leaves the host task.
ReadAuthenticate(h) ==
    /\ host = "synced"
    /\ h \in connections
    /\ \/ /\ m_SignedMacData' = TRUE
          /\ UNCHANGED <<main, address, held, host, gapVars, linkVars, faults, history>>
       \/ ~m_SignedMacData /\ Faults(1) /\ Restart

HandleEvent == \E h \in Handles : HandleConnect(h) \/ HandleDisconnect(h)

Next ==
    \/ MainStep \/ MainFails \/ SpuriousWakeup
    \/ HostSyncs \/ SyncCallback \/ HostReset
    \/ HandleEvent
    \/ \E h \in Handles : PeerConnects(h) \/ LinkEnds(h) \/ ReadAuthenticate(h)

Spec == Init /\ [][Next]_vars

\* Both tasks run, a controller synchronises, a terminated link ends.
Fairness ==
    /\ WF_vars(MainStep)
    /\ WF_vars(HostSyncs) /\ WF_vars(SyncCallback) /\ WF_vars(HandleEvent)
    /\ \A h \in Handles : WF_vars(h \in terminating /\ LinkEnds(h))

FairSpec == Spec /\ Fairness

-----------------------------------------------------------------------------
\* Properties.

Pending(kind, h) == \E i \in 1..Len(events) : events[i].kind = kind /\ events[i].handle = h

\* The kept connection is one the host knows: a handle that was kept after its
\* link is gone would never be cleared, and the token would stay silent
\* (CGap.cpp:360-407).
KeptIsKnown == m_ActiveConnection # None => m_ActiveConnection \in connections

\* Every other connection is on its way out, unless both attempts to drop it
\* failed (CGap.cpp:374-381, CConnection.cpp:18-46).
OthersLeave ==
    \A h \in connections \ {m_ActiveConnection} :
        h \in terminating \/ Pending("disconnect", h) \/ undropped

\* A token that neither advertises nor has a connection, once started, is one
\* whose begin_advertise failed or whose host was reset (CGap.cpp:236-241,
\* 398-407).
SilenceExplained ==
    main = "loop" /\ ~advertising /\ m_ActiveConnection = None => unstarted \/ wasReset

\* What a peer can make the host call or read is where NimBLE was told, although
\* the cache is moved after it was registered, and a start that fails destroys
\* everything while the host task runs: no peer gets in before the start is over
\* (CProfileCache.cpp:20 and 66, CProfileCacheBuilder.cpp:32, CNimble.cpp:127-133).
CallbacksLive ==
    advertising \/ connections # {} =>
        /\ held = At(Cells)
        /\ \A c \in Cells : address[c] # Nowhere

\* Advertising and a connection exclude each other, except after a failed
\* end_advertise: the peer that connects next is dropped (CGap.cpp:364-372).
ConnectedIsHidden ==
    advertising /\ m_ActiveConnection # None => unhidden

\* Whatever fails during the start, the token gets to serve: the notification is
\* never lost although the wait has no predicate, and a fatal error starts it
\* again (CNimble.cpp:123-133, main.cpp:156-161).
TokenServes ==
    []<>(advertising \/ m_ActiveConnection # None \/ unstarted \/ wasReset)
=============================================================================
