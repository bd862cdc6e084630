--------------------------- MODULE TokenBleProofs ---------------------------
(***************************************************************************)
(* Proofs about TokenBle for any number of handles, events and faults.     *)
(***************************************************************************)
EXTENDS TokenBle, SequenceTheorems, TLAPS

Profiles == {"whoami", "whereami"}

AfterBuild == {"return", "start", "started", "wait", "gap", "advertise", "loop"}

\* The token is not on the air before its start is over.
Quiet ==
    main # "loop" =>
        /\ ~advertising
        /\ m_ActiveConnection = None
        /\ events = <<>>
        /\ connections = {}
        /\ \A h \in Handles : link[h] = "down"

Owned(p) == Characteristics(p) \cup Service(p)

\* How far the profiles, the cache and CGap are, and what NimBLE was told of them.
Built ==
    /\ main \in {"whereami", "build"} =>
           \A c \in Owned("whoami") : address[c] # Nowhere
    /\ main = "build" => \A c \in Owned("whereami") : address[c] # Nowhere
    /\ main \in AfterBuild =>
           \A c \in ProfileCells \cup {ServiceArray} : address[c] # Nowhere
    /\ main \in AfterBuild \ {"loop"} => held = At(ProfileCells \cup {ServiceArray})
    /\ main = "advertise" => address[EventCallback] # Nowhere
    /\ main = "loop" => held = At(Cells) /\ address[EventCallback] # Nowhere

\* A link that is down has told so after its last connect event.
Announced ==
    \A i \in 1..Len(events) :
        events[i].kind = "connect" /\ link[events[i].handle] = "down" =>
            \E j \in i + 1..Len(events) :
                events[j].kind = "disconnect" /\ events[j].handle = events[i].handle

-----------------------------------------------------------------------------
\* The queue after the controller has posted an event.
LEMMA Posted ==
    ASSUME NEW s \in Seq(Event), NEW e \in Event
    PROVE  /\ Append(s, e) \in Seq(Event)
           /\ Len(Append(s, e)) = Len(s) + 1
           /\ Len(s) \in Nat
           /\ \A i \in 1..Len(s) : Append(s, e)[i] = s[i] /\ s[i] \in Event
           /\ Append(s, e)[Len(s) + 1] = e
  BY AppendProperties, LenProperties, ElementOfSeq

\* The queue after the host task has taken an event.
LEMMA Taken ==
    ASSUME NEW s \in Seq(Event), s # <<>>
    PROVE  /\ Tail(s) \in Seq(Event)
           /\ Len(s) \in Nat \ {0}
           /\ Len(Tail(s)) = Len(s) - 1
           /\ Head(s) = s[1] /\ Head(s) \in Event
           /\ \A i \in 1..Len(Tail(s)) : Tail(s)[i] = s[i + 1] /\ s[i + 1] \in Event
<1>1. /\ Tail(s) \in Seq(Event)
      /\ Len(Tail(s)) = Len(s) - 1
      /\ Head(s) = s[1] /\ Head(s) \in Event
      /\ \A i \in 1..Len(Tail(s)) : Tail(s)[i] = s[i + 1]
  BY HeadTailProperties
<1>2. Len(s) \in Nat \ {0} /\ \A i \in 1..Len(s) : s[i] \in Event
  BY EmptySeq, LenProperties, ElementOfSeq
<1>3. QED
  BY <1>1, <1>2

-----------------------------------------------------------------------------
\* The cells: those of the two profiles, the array of the cache and the callback
\* of CGap, which are none of a profile's.
LEMMA OwnedCells ==
    /\ \A p \in Profiles : Owned(p) \subseteq ProfileCells
    /\ ProfileCells = Owned("whoami") \cup Owned("whereami")
    /\ Cells = ProfileCells \cup {ServiceArray, EventCallback}
    /\ ServiceArray \notin ProfileCells
    /\ EventCallback \notin ProfileCells
    /\ ServiceArray # EventCallback
<1>1. \A c \in ProfileCells : c[1] \in {"whoami", "whereami"}
  BY DEF ProfileCells, Characteristics, Service
<1>2. ServiceArray[1] = "cache" /\ EventCallback[1] = "gap"
  BY DEF ServiceArray, EventCallback
<1>3. QED
  BY <1>1, <1>2 DEF Cells, ProfileCells, Owned, Profiles

\* A restarted token is in its types.
LEMMA Restarted ==
    ASSUME Restart, faults' \in 0..MaxFaults
    PROVE  TypeOK'
<1>1. events' \in Seq(Event)
  BY EmptySeq DEF Restart
<1>2. QED
  BY <1>1 DEF Restart, TypeOK, Places, Nowhere

\* So is one whose start has thrown.
LEMMA Unwound ==
    ASSUME TypeOK, Unwind, faults' \in 0..MaxFaults
    PROVE  TypeOK'
  BY DEF Unwind, TypeOK, Places, Nowhere, gapVars, linkVars, history

\* The addresses NimBLE takes are addresses of cells.
LEMMA AtType ==
    ASSUME TypeOK, NEW cs \in SUBSET Cells
    PROVE  At(cs) \subseteq Cells \X Nat
  BY DEF TypeOK, At

\* Every variable stays in its type; what is terminated is up.
THEOREM TypeCorrect == Spec => []TypeOK
<1>1. Init => TypeOK
  <2>1. <<>> \in Seq(Event)
    BY EmptySeq
  <2>2. 0 \in 0..MaxFaults
    BY BoundsAssumption
  <2>3. [c \in Cells |-> Nowhere] \in [Cells -> Nat]
    BY DEF Nowhere
  <2>4. QED
    BY <2>1, <2>2, <2>3 DEF Init, TypeOK, Places
<1>2. TypeOK /\ [Next]_vars => TypeOK'
  <2> SUFFICES ASSUME TypeOK, [Next]_vars PROVE TypeOK'
    OBVIOUS
  <2> USE BoundsAssumption
  <2>1. CASE MainStep
    <3>1. CASE InitPort \/ StartHostTask \/ Wait
      BY <3>1 DEF TypeOK, InitPort, StartHostTask, Wait, MainMoves, Places, gapVars,
         linkVars, history
    <3>2. CASE AddProfiles
      BY <3>2 DEF TypeOK, AddProfiles, AddProfile, Allocate, MainMoves, Places, gapVars,
         linkVars, history
    <3>3. CASE BuildProfileCache
      <4>1. address' \in [Cells -> Nat] /\ address'[ServiceArray] \in Nat
        BY <3>3, OwnedCells DEF TypeOK, BuildProfileCache, Allocate
      <4>2. held' \subseteq Cells \X Nat
        BY <3>3, <4>1, OwnedCells, AtType DEF BuildProfileCache
      <4>3. QED
        BY <3>3, <4>1, <4>2 DEF TypeOK, BuildProfileCache, MainMoves, Places, gapVars,
           linkVars, history
    <3>4. CASE ReturnProfileCache
      BY <3>4 DEF TypeOK, ReturnProfileCache, Relocate, CellsInCache, MainMoves, Places,
         gapVars, linkVars, history
    <3>5. CASE MakeGap
      <4>1. CASE Unwind
        BY <3>5, <4>1, Unwound DEF TypeOK, MakeGap
      <4>2. CASE ~Unwind
        <5>1. main' = "advertise" /\ address' \in [Cells -> Nat]
          BY <3>5, <4>2 DEF TypeOK, MakeGap, Allocate
        <5>2. UNCHANGED <<host, held, m_SignedMacData, gapVars, linkVars, history, faults>>
          BY <3>5, <4>2 DEF MakeGap
        <5>3. QED
          BY <5>1, <5>2 DEF TypeOK, Places, gapVars, linkVars, history
      <4>3. QED
        BY <4>1, <4>2
    <3>6. CASE FirstAdvertise
      <4>1. CASE Unwind
        BY <3>6, <4>1, Unwound DEF TypeOK, FirstAdvertise
      <4>2. CASE ~Unwind
        <5>1. held' = held \cup At({EventCallback}) /\ {EventCallback} \subseteq Cells
          BY <3>6, <4>2, OwnedCells DEF FirstAdvertise
        <5>2. At({EventCallback}) \subseteq Cells \X Nat
          BY <5>1, AtType
        <5>3. held' \subseteq Cells \X Nat
          BY <5>1, <5>2 DEF TypeOK
        <5>4. UNCHANGED <<host, address, m_SignedMacData, connections, m_ActiveConnection,
                          link, events, terminating, unstarted, undropped, unhidden,
                          wasReset, faults>>
          BY <3>6, <4>2 DEF FirstAdvertise, linkVars, history
        <5>5. main' = "loop" /\ advertising' = TRUE
          BY <3>6, <4>2 DEF FirstAdvertise
        <5>6. QED
          BY <5>3, <5>4, <5>5 DEF TypeOK, Places
      <4>3. QED
        BY <4>1, <4>2
    <3>7. CASE Reboot
      BY <3>7, Restarted DEF TypeOK, Reboot
    <3>8. QED
      BY <2>1, <3>1, <3>2, <3>3, <3>4, <3>5, <3>6, <3>7 DEF MainStep
  <2>2. CASE MainFails
    BY <2>2, Unwound DEF TypeOK, MainFails, Fatal, Faults
  <2>3. CASE SpuriousWakeup
    BY <2>3 DEF TypeOK, SpuriousWakeup, Faults, MainMoves, Places, gapVars, linkVars, history
  <2>4. CASE HostSyncs \/ SyncCallback
    BY <2>4 DEF TypeOK, HostSyncs, SyncCallback, Places, mainVars, gapVars, linkVars, history
  <2>5. CASE HostReset
    <3>1. events' \in Seq(Event)
      BY <2>5, EmptySeq DEF HostReset
    <3>2. faults' \in 0..MaxFaults
      BY <2>5 DEF HostReset, Faults, TypeOK
    <3>3. QED
      BY <2>5, <3>1, <3>2 DEF TypeOK, HostReset, mainVars
  <2>6. ASSUME NEW h \in Handles, HandleConnect(h)
        PROVE  TypeOK'
    <3>1. events \in Seq(Event) /\ events # <<>> /\ events' = Tail(events)
      BY <2>6 DEF HandleConnect, NextEvent, TypeOK
    <3>2. events' \in Seq(Event) /\ Head(events) \in Event
      BY <3>1, Taken
    <3>3. StillAdvertising \in BOOLEAN
      BY <3>2 DEF StillAdvertising, TypeOK, Event
    <3>4. faults' \in 0..MaxFaults
      BY <2>6 DEF HandleConnect, KeepConnection, DropSecond, Faults, TypeOK
    <3>5. /\ advertising' \in BOOLEAN /\ undropped' \in BOOLEAN /\ unhidden' \in BOOLEAN
          /\ m_ActiveConnection' \in Handles \cup {None}
      BY <2>6, <3>3 DEF HandleConnect, KeepConnection, DropSecond, TypeOK
    <3>6. terminating' \subseteq {x \in Handles : link'[x] = "up"}
      BY <2>6 DEF HandleConnect, KeepConnection, DropSecond, TypeOK
    <3>7. QED
      BY <3>2, <3>4, <3>5, <3>6, <2>6 DEF TypeOK, HandleConnect, mainVars
  <2>7. ASSUME NEW h \in Handles, HandleDisconnect(h)
        PROVE  TypeOK'
    <3>1. events \in Seq(Event) /\ events # <<>> /\ events' = Tail(events)
      BY <2>7 DEF HandleDisconnect, NextEvent, TypeOK
    <3>2. events' \in Seq(Event)
      BY <3>1, Taken
    <3>3. faults' \in 0..MaxFaults
      BY <2>7 DEF HandleDisconnect, AdvertiseAgain, Faults, TypeOK
    <3>4. /\ advertising' \in BOOLEAN /\ unstarted' \in BOOLEAN /\ unhidden' \in BOOLEAN
          /\ m_ActiveConnection' \in Handles \cup {None}
      BY <2>7 DEF HandleDisconnect, AdvertiseAgain, TypeOK
    <3>5. QED
      BY <3>2, <3>3, <3>4, <2>7 DEF TypeOK, HandleDisconnect, mainVars
  <2>8. ASSUME NEW h \in Handles, PeerConnects(h)
        PROVE  TypeOK'
    <3>1. PICK stops \in BOOLEAN :
              events' = Append(events, [kind |-> "connect", handle |-> h, stops |-> stops])
      BY <2>8 DEF PeerConnects, Post
    <3>2. events' \in Seq(Event)
      BY <3>1, Posted DEF TypeOK, Event
    <3>3. QED
      BY <3>2, <2>8 DEF TypeOK, PeerConnects, mainVars, gapVars, history
  <2>9. ASSUME NEW h \in Handles, LinkEnds(h)
        PROVE  TypeOK'
    <3>1. events' = Append(events, [kind |-> "disconnect", handle |-> h, stops |-> FALSE])
      BY <2>9 DEF LinkEnds, Post
    <3>2. events' \in Seq(Event)
      BY <3>1, Posted DEF TypeOK, Event
    <3>3. QED
      BY <3>2, <2>9 DEF TypeOK, LinkEnds, mainVars, gapVars, history
  <2>10. ASSUME NEW h \in Handles, ReadAuthenticate(h)
         PROVE  TypeOK'
    <3>1. CASE Faults(1) /\ Restart
      BY <3>1, Restarted DEF TypeOK, Faults
    <3>2. CASE ~(Faults(1) /\ Restart)
      BY <3>2, <2>10 DEF TypeOK, ReadAuthenticate, gapVars, linkVars, history
    <3>3. QED
      BY <3>1, <3>2
  <2>11. CASE UNCHANGED vars
    BY <2>11 DEF TypeOK, vars, mainVars, gapVars, linkVars, history
  <2>12. QED
    BY <2>1, <2>2, <2>3, <2>4, <2>5, <2>6, <2>7, <2>8, <2>9, <2>10, <2>11
       DEF Next, HandleEvent
<1>3. QED
  BY <1>1, <1>2, PTL DEF Spec

-----------------------------------------------------------------------------
\* Nothing is on the air before the start is over, and the profiles are built as
\* far as the main task is.
StartInv == Quiet /\ Built

LEMMA QuietKept == TypeOK /\ Quiet /\ [Next]_vars => Quiet'
  <1> SUFFICES ASSUME TypeOK, Quiet, [Next]_vars PROVE Quiet'
    OBVIOUS
  <1> USE DEF Quiet
  <1>1. CASE MainStep
    BY <1>1 DEF MainStep, InitPort, AddProfiles, AddProfile, BuildProfileCache,
       ReturnProfileCache, StartHostTask, Wait, MakeGap, FirstAdvertise, Reboot, Restart,
       Unwind, MainMoves, gapVars, linkVars
  <1>2. CASE MainFails \/ SpuriousWakeup \/ HostReset
    BY <1>2 DEF MainFails, Fatal, Unwind, SpuriousWakeup, HostReset, MainMoves, mainVars,
       gapVars, linkVars
  <1>3. CASE HostSyncs \/ SyncCallback
    BY <1>3 DEF HostSyncs, SyncCallback, mainVars, gapVars, linkVars
  <1>4. CASE HandleEvent
    BY <1>4 DEF HandleEvent, HandleConnect, HandleDisconnect, NextEvent, mainVars
  <1>5. ASSUME NEW h \in Handles, PeerConnects(h)
        PROVE  Quiet'
    BY <1>5 DEF PeerConnects, RadioOn, mainVars
  <1>6. ASSUME NEW h \in Handles, LinkEnds(h)
        PROVE  Quiet'
    BY <1>6 DEF LinkEnds, mainVars
  <1>7. ASSUME NEW h \in Handles, ReadAuthenticate(h)
        PROVE  Quiet'
    BY <1>7 DEF ReadAuthenticate, Restart, gapVars, linkVars
  <1>8. CASE UNCHANGED vars
    BY <1>8 DEF vars, mainVars, gapVars, linkVars
  <1>9. QED
    BY <1>1, <1>2, <1>3, <1>4, <1>5, <1>6, <1>7, <1>8 DEF Next

LEMMA BuiltKept == TypeOK /\ Built /\ [Next]_vars => Built'
  <1> SUFFICES ASSUME TypeOK, Built, [Next]_vars PROVE Built'
    OBVIOUS
  <1> USE DEF Built, AfterBuild
  <1>1. CASE InitPort \/ StartHostTask \/ Wait
    BY <1>1 DEF InitPort, StartHostTask, Wait, MainMoves, At
  <1>2. CASE AddProfiles
    BY <1>2, OwnedCells DEF AddProfiles, AddProfile, Allocate, Profiles, MainMoves, Owned,
       Nowhere, TypeOK
  <1>3. CASE BuildProfileCache
    <2>1. /\ main = "build" /\ main' = "return"
          /\ held' = At(ProfileCells) \cup {<<ServiceArray, address'[ServiceArray]>>}
          /\ address' = [c \in Cells |-> IF c \in {ServiceArray} THEN 1 ELSE address[c]]
      BY <1>3 DEF BuildProfileCache, Allocate, MainMoves
    <2>2. \A c \in ProfileCells : address'[c] = address[c] /\ address[c] # Nowhere
      BY <2>1, OwnedCells
    <2>3. address'[ServiceArray] # Nowhere
      BY <2>1, OwnedCells DEF Nowhere
    <2>4. held' = At(ProfileCells \cup {ServiceArray})'
      BY <2>1, <2>2 DEF At
    <2>5. QED
      BY <2>1, <2>2, <2>3, <2>4
  <1>4. CASE ReturnProfileCache
    <2>1. address' = address
      BY <1>4 DEF ReturnProfileCache, Relocate, CellsInCache, TypeOK
    <2>2. QED
      BY <1>4, <2>1 DEF ReturnProfileCache, MainMoves, At
  <1>5. CASE MakeGap
    <2>1. CASE Unwind
      BY <2>1 DEF Unwind
    <2>2. CASE ~Unwind
      <3>1. /\ main = "gap" /\ main' = "advertise" /\ held' = held
            /\ address' = [c \in Cells |-> IF c \in {EventCallback} THEN 1 ELSE address[c]]
        BY <1>5, <2>2 DEF MakeGap, Allocate
      <3>2. \A c \in ProfileCells \cup {ServiceArray} : address'[c] = address[c]
        BY <3>1, OwnedCells
      <3>3. address'[EventCallback] # Nowhere
        BY <3>1, OwnedCells DEF Nowhere
      <3>4. At(ProfileCells \cup {ServiceArray})' = At(ProfileCells \cup {ServiceArray})
        BY <3>2 DEF At
      <3>5. held' = At(ProfileCells \cup {ServiceArray})'
        BY <3>1, <3>4
      <3>6. QED
        BY <3>1, <3>2, <3>3, <3>5
    <2>3. QED
      BY <2>1, <2>2
  <1>6. CASE FirstAdvertise
    <2>1. CASE Unwind
      BY <2>1 DEF Unwind
    <2>2. CASE ~Unwind
      <3>1. /\ main = "advertise" /\ main' = "loop" /\ address' = address
            /\ held' = held \cup At({EventCallback})
        BY <1>6, <2>2 DEF FirstAdvertise
      <3>2. held' = At(Cells)'
        BY <3>1, OwnedCells DEF At
      <3>3. QED
        BY <3>1, <3>2
    <2>3. QED
      BY <2>1, <2>2
  <1>7. CASE MainFails \/ Reboot
    BY <1>7 DEF MainFails, Fatal, Unwind, Reboot, Restart
  <1>8. CASE SpuriousWakeup \/ HostReset
    BY <1>8 DEF SpuriousWakeup, HostReset, MainMoves, mainVars, At
  <1>9. CASE HostSyncs \/ SyncCallback
    BY <1>9 DEF HostSyncs, SyncCallback, mainVars, At
  <1>10. CASE HandleEvent
    BY <1>10 DEF HandleEvent, HandleConnect, HandleDisconnect, mainVars, At
  <1>11. ASSUME NEW h \in Handles, PeerConnects(h) \/ LinkEnds(h) \/ ReadAuthenticate(h)
         PROVE  Built'
    BY <1>11 DEF PeerConnects, LinkEnds, ReadAuthenticate, Restart, mainVars, At
  <1>12. CASE UNCHANGED vars
    BY <1>12 DEF vars, mainVars, At
  <1>13. QED
    BY <1>1, <1>2, <1>3, <1>4, <1>5, <1>6, <1>7, <1>8, <1>9, <1>10, <1>11, <1>12
       DEF Next, MainStep

LEMMA Starting == Spec => []StartInv
<1>1. Init => StartInv
  BY DEF Init, StartInv, Quiet, Built, AfterBuild
<1>2. TypeOK /\ StartInv /\ [Next]_vars => StartInv'
  BY QuietKept, BuiltKept DEF StartInv
<1>3. QED
  BY <1>1, <1>2, TypeCorrect, PTL DEF Spec

\* While a peer can connect or is connected, NimBLE was told the place of every
\* callback and definition, and each is still there: moving the cache moved none
\* of them, and a start that threw let no peer in.
THEOREM CallbacksStayLive == Spec => []CallbacksLive
<1>1. StartInv => CallbacksLive
  BY OwnedCells DEF StartInv, Quiet, Built, CallbacksLive, AfterBuild
<1>2. QED
  BY <1>1, Starting, PTL

-----------------------------------------------------------------------------
\* The kept connection, and why the token may be silent or visible.
Kept == KeptIsKnown /\ SilenceExplained /\ ConnectedIsHidden

LEMMA KeptKept == TypeOK /\ Quiet /\ Kept /\ [Next]_vars => Kept'
  <1> SUFFICES ASSUME TypeOK, Quiet, Kept, [Next]_vars PROVE Kept'
    OBVIOUS
  <1> USE DEF Kept, KeptIsKnown, SilenceExplained, ConnectedIsHidden
  <1>1. CASE InitPort \/ AddProfiles \/ BuildProfileCache \/ ReturnProfileCache
             \/ StartHostTask \/ Wait
    BY <1>1 DEF InitPort, AddProfiles, AddProfile, BuildProfileCache, ReturnProfileCache,
       StartHostTask, Wait, MainMoves, gapVars, history
  <1>2. CASE MakeGap \/ Reboot
    BY <1>2 DEF MakeGap, Unwind, Reboot, Restart, gapVars, history
  <1>3. CASE FirstAdvertise
    BY <1>3 DEF FirstAdvertise, Unwind, Quiet, gapVars, history
  <1>4. CASE MainFails \/ SpuriousWakeup \/ HostReset
    BY <1>4 DEF MainFails, Fatal, Unwind, SpuriousWakeup, HostReset, MainMoves, mainVars,
       gapVars, history
  <1>5. CASE HostSyncs \/ SyncCallback
    BY <1>5 DEF HostSyncs, SyncCallback, mainVars, gapVars, history
  <1>6. ASSUME NEW h \in Handles, HandleConnect(h)
        PROVE  Kept'
    <2>1. UNCHANGED <<main, unstarted, wasReset>> /\ connections' = connections \cup {h}
      BY <1>6 DEF HandleConnect, mainVars
    <2>2. CASE m_ActiveConnection = None
      <3>1. m_ActiveConnection' = h /\ h # None /\ (advertising' => unhidden')
        BY <2>2, <1>6, HandlesAssumption DEF HandleConnect, KeepConnection
      <3>2. QED
        BY <3>1, <2>1
    <2>3. CASE m_ActiveConnection # None
      <3>1. /\ m_ActiveConnection' = m_ActiveConnection /\ unhidden' = unhidden
            /\ advertising' => advertising
        BY <2>3, <1>6 DEF HandleConnect, DropSecond, StillAdvertising
      <3>2. QED
        BY <3>1, <2>1, <2>3
    <2>4. QED
      BY <2>2, <2>3
  <1>7. ASSUME NEW h \in Handles, HandleDisconnect(h)
        PROVE  Kept'
    <2>1. UNCHANGED <<main, wasReset>> /\ connections' = connections \ {h}
      BY <1>7 DEF HandleDisconnect, mainVars
    <2>2. CASE m_ActiveConnection = h
      BY <2>1, <2>2, <1>7 DEF HandleDisconnect, AdvertiseAgain
    <2>3. CASE m_ActiveConnection # h
      BY <2>1, <2>3, <1>7 DEF HandleDisconnect
    <2>4. QED
      BY <2>2, <2>3
  <1>8. ASSUME NEW h \in Handles, PeerConnects(h) \/ LinkEnds(h)
        PROVE  Kept'
    <2>1. UNCHANGED <<mainVars, gapVars, history>>
      BY <1>8 DEF PeerConnects, LinkEnds
    <2>2. QED
      BY <2>1 DEF mainVars, gapVars, history
  <1>9. ASSUME NEW h \in Handles, ReadAuthenticate(h)
        PROVE  Kept'
    BY <1>9 DEF ReadAuthenticate, Restart, gapVars, history
  <1>10. CASE UNCHANGED vars
    BY <1>10 DEF vars, mainVars, gapVars, history
  <1>11. QED
    BY <1>1, <1>2, <1>3, <1>4, <1>5, <1>6, <1>7, <1>8, <1>9, <1>10
       DEF Next, MainStep, HandleEvent

LEMMA Keeping == Spec => []Kept
<1>1. Init => Kept
  BY DEF Init, Kept, KeptIsKnown, SilenceExplained, ConnectedIsHidden
<1>2. TypeOK /\ StartInv /\ Kept /\ [Next]_vars => Kept'
  BY KeptKept DEF StartInv
<1>3. QED
  BY <1>1, <1>2, TypeCorrect, Starting, PTL DEF Spec

\* The kept connection is one the host knows, so its end is always reported.
THEOREM KeptStaysKnown == Spec => []KeptIsKnown
<1>1. Kept => KeptIsKnown
  BY DEF Kept
<1>2. QED
  BY <1>1, Keeping, PTL

\* A token is silent only after a begin_advertise that failed or a host reset.
THEOREM SilenceHasACause == Spec => []SilenceExplained
<1>1. Kept => SilenceExplained
  BY DEF Kept
<1>2. QED
  BY <1>1, Keeping, PTL

\* A token with a connection advertises only after an end_advertise that failed.
THEOREM ConnectedStaysHidden == Spec => []ConnectedIsHidden
<1>1. Kept => ConnectedIsHidden
  BY DEF Kept
<1>2. QED
  BY <1>1, Keeping, PTL

-----------------------------------------------------------------------------
\* Every connection but the kept one is on its way out.

\* A dropped handle leaves: its link is up and gets terminated, or it is down and
\* its disconnect event is still to come.
IOthers == Announced /\ OthersLeave

\* What the queue still holds after its head is taken.
LEMMA PendingTail ==
    ASSUME NEW h \in Handles, TypeOK, events # <<>>, events' = Tail(events),
           Pending("disconnect", h),
           Head(events).kind = "connect" \/ Head(events).handle # h
    PROVE  Pending("disconnect", h)'
<1>1. events \in Seq(Event)
  BY DEF TypeOK
<1>2. PICK i \in 1..Len(events) : events[i].kind = "disconnect" /\ events[i].handle = h
  BY DEF Pending
<1>3. i # 1
  BY <1>1, <1>2, Taken
<1>4. /\ i - 1 \in 1..Len(Tail(events))
      /\ Tail(events)[i - 1] = events[i]
  <2>1. Len(events) \in Nat \ {0} /\ Len(Tail(events)) = Len(events) - 1
    BY <1>1, Taken
  <2>2. i - 1 \in 1..Len(Tail(events)) /\ (i - 1) + 1 = i
    BY <2>1, <1>2, <1>3
  <2>3. QED
    BY <1>1, <2>2, Taken
<1>5. QED
  BY <1>2, <1>4 DEF Pending

\* What the queue still holds after an event is appended.
LEMMA PendingAppend ==
    ASSUME NEW h \in Handles, NEW e \in Event, TypeOK, events' = Append(events, e),
           Pending("disconnect", h)
    PROVE  Pending("disconnect", h)'
<1>1. events \in Seq(Event)
  BY DEF TypeOK
<1>2. PICK i \in 1..Len(events) : events[i].kind = "disconnect" /\ events[i].handle = h
  BY DEF Pending
<1>3. /\ Len(events) \in Nat
      /\ Len(Append(events, e)) = Len(events) + 1
      /\ Append(events, e)[i] = events[i]
  BY <1>1, Posted
<1>4. i \in 1..Len(Append(events, e))
  BY <1>2, <1>3
<1>5. QED
  BY <1>2, <1>3, <1>4 DEF Pending

\* Taking the head keeps Announced, whatever happens to the rest.
LEMMA AnnouncedTail ==
    ASSUME TypeOK, Announced, events # <<>>, events' = Tail(events), link' = link
    PROVE  Announced'
<1>1. events \in Seq(Event)
  BY DEF TypeOK
<1>2. Len(events) \in Nat \ {0} /\ Len(Tail(events)) = Len(events) - 1
  BY <1>1, Taken
<1>3. SUFFICES ASSUME NEW i \in 1..Len(Tail(events)),
                      Tail(events)[i].kind = "connect",
                      link[Tail(events)[i].handle] = "down"
               PROVE  \E j \in i + 1..Len(Tail(events)) :
                          /\ Tail(events)[j].kind = "disconnect"
                          /\ Tail(events)[j].handle = Tail(events)[i].handle
  BY DEF Announced
<1>4. Tail(events)[i] = events[i + 1] /\ i + 1 \in 1..Len(events)
  BY <1>1, <1>2, Taken
<1>5. PICK j \in (i + 1) + 1..Len(events) :
          events[j].kind = "disconnect" /\ events[j].handle = events[i + 1].handle
  BY <1>3, <1>4 DEF Announced
<1>6. j - 1 \in 1..Len(Tail(events)) /\ j - 1 \in i + 1..Len(Tail(events)) /\ (j - 1) + 1 = j
  BY <1>2, <1>5
<1>7. Tail(events)[j - 1] = events[j]
  BY <1>1, <1>6, Taken
<1>8. QED
  BY <1>4, <1>5, <1>6, <1>7

\* Appending a connect of an up link, or the disconnect of the link that goes
\* down, keeps Announced.
LEMMA AnnouncedAppend ==
    ASSUME TypeOK, Announced, NEW e \in Event, events' = Append(events, e),
           \A h \in Handles : h # e.handle => link'[h] = link[h],
           e.kind = "connect" => link'[e.handle] = "up"
    PROVE  Announced'
<1> DEFINE s == Append(events, e)
<1>1. events \in Seq(Event)
  BY DEF TypeOK
<1>2. /\ Len(events) \in Nat
      /\ Len(s) = Len(events) + 1
      /\ \A i \in 1..Len(events) : s[i] = events[i] /\ events[i] \in Event
      /\ s[Len(events) + 1] = e
  BY <1>1, Posted
<1> HIDE DEF s
<1>3. events' = s
  BY DEF s
<1>4. SUFFICES ASSUME NEW i \in 1..Len(s),
                      s[i].kind = "connect",
                      link'[s[i].handle] = "down"
               PROVE  \E j \in i + 1..Len(s) :
                          s[j].kind = "disconnect" /\ s[j].handle = s[i].handle
  BY <1>3 DEF Announced
<1>5. i \in 1..Len(events)
  <2>1. CASE i = Len(events) + 1
    <3>1. s[i] = e
      BY <2>1, <1>2
    <3>2. QED
      BY <3>1, <1>4
  <2>2. CASE i # Len(events) + 1
    BY <2>2, <1>2, <1>4
  <2>3. QED
    BY <2>1, <2>2
<1>6. s[i] = events[i] /\ events[i] \in Event /\ events[i].handle \in Handles
  BY <1>2, <1>5 DEF Event
<1>7. CASE events[i].handle = e.handle
  <2>1. e.kind = "disconnect"
    BY <1>4, <1>6, <1>7 DEF Event
  <2>2. Len(events) + 1 \in i + 1..Len(s)
    BY <1>2, <1>5
  <2>3. QED
    BY <2>1, <2>2, <1>2, <1>6, <1>7
<1>8. CASE events[i].handle # e.handle
  <2>1. link[events[i].handle] = "down" /\ events[i].kind = "connect"
    BY <1>8, <1>6, <1>4
  <2>2. PICK j \in i + 1..Len(events) :
            events[j].kind = "disconnect" /\ events[j].handle = events[i].handle
    BY <2>1, <1>5 DEF Announced
  <2>3. j \in 1..Len(events) /\ j \in i + 1..Len(s)
    BY <2>2, <1>5, <1>2
  <2>4. s[j] = events[j]
    BY <2>3, <1>2
  <2>5. QED
    BY <2>2, <2>3, <2>4, <1>6
<1>9. QED
  BY <1>7, <1>8

\* Steps that leave the queue and the connections alone.
LEMMA OthersStutter ==
    ASSUME IOthers, UNCHANGED <<gapVars, linkVars, undropped>>
    PROVE  IOthers'
  BY DEF IOthers, Announced, OthersLeave, Pending, gapVars, linkVars

\* A restarted or reset token has no connection and no event.
LEMMA OthersGone ==
    ASSUME events' = <<>>, connections' = {}
    PROVE  IOthers'
<1>1. Len(events') = 0
  BY EmptySeq
<1>2. Announced'
  BY <1>1 DEF Announced
<1>3. QED
  BY <1>2 DEF IOthers, OthersLeave

LEMMA OthersKept == TypeOK /\ IOthers /\ [Next]_vars => IOthers'
  <1> SUFFICES ASSUME TypeOK, IOthers, [Next]_vars PROVE IOthers'
    OBVIOUS
  <1>1. CASE MainStep
    <2>1. CASE InitPort \/ AddProfiles \/ BuildProfileCache \/ ReturnProfileCache
                  \/ StartHostTask \/ Wait
      BY <2>1, OthersStutter DEF InitPort, AddProfiles, AddProfile, BuildProfileCache,
         ReturnProfileCache, StartHostTask, Wait, history
    <2>2. CASE MakeGap \/ Reboot
      BY <2>2, OthersStutter, OthersGone DEF MakeGap, Unwind, Reboot, Restart, history
    <2>3. CASE FirstAdvertise
      <3>1. CASE Unwind
        BY <3>1, OthersStutter DEF Unwind, history
      <3>2. CASE ~Unwind
        BY <3>2, <2>3 DEF FirstAdvertise, IOthers, Announced, OthersLeave, Pending,
           linkVars, history
      <3>3. QED
        BY <3>1, <3>2
    <2>4. QED
      BY <1>1, <2>1, <2>2, <2>3 DEF MainStep
  <1>2. CASE MainFails
    BY <1>2, OthersStutter DEF MainFails, Fatal, Unwind, history
  <1>3. CASE HostReset
    BY <1>3, OthersGone DEF HostReset
  <1>4. CASE SpuriousWakeup \/ HostSyncs \/ SyncCallback
    BY <1>4, OthersStutter DEF SpuriousWakeup, HostSyncs, SyncCallback, history
  <1>5. ASSUME NEW h \in Handles, HandleConnect(h)
        PROVE  IOthers'
    <2>1. /\ events \in Seq(Event) /\ events # <<>> /\ events' = Tail(events)
          /\ link' = link /\ connections' = connections \cup {h}
          /\ Head(events).kind = "connect" /\ Head(events).handle = h
      BY <1>5 DEF HandleConnect, NextEvent, TypeOK
    <2>2. Announced'
      BY <2>1, AnnouncedTail DEF IOthers
    <2>3. \A x \in Handles : Pending("disconnect", x) => Pending("disconnect", x)'
      BY <2>1, PendingTail
    <2>4. CASE m_ActiveConnection = None /\ KeepConnection(h)
      <3>1. /\ m_ActiveConnection' = h /\ terminating' = terminating /\ undropped' = undropped
        BY <2>4 DEF KeepConnection
      <3>2. \A x \in connections : x \in terminating \/ Pending("disconnect", x) \/ undropped
        BY <2>4, HandlesAssumption DEF IOthers, OthersLeave, TypeOK
      <3>3. QED
        BY <3>1, <3>2, <2>1, <2>2, <2>3 DEF IOthers, OthersLeave, TypeOK
    <2>5. CASE m_ActiveConnection # None /\ DropSecond(h)
      <3>1. /\ m_ActiveConnection' = m_ActiveConnection
            /\ terminating \subseteq terminating'
            /\ undropped => undropped'
        BY <2>5 DEF DropSecond
      <3>2. h \in terminating' \/ Pending("disconnect", h)' \/ undropped'
        <4>1. CASE link[h] = "up"
          BY <4>1, <2>5 DEF DropSecond
        <4>2. CASE link[h] = "down"
          <5>1. Len(events) \in Nat \ {0} /\ Head(events) = events[1]
            BY <2>1, Taken
          <5>2. 1 \in 1..Len(events) /\ events[1].kind = "connect" /\ events[1].handle = h
            BY <5>1, <2>1
          <5>3. PICK j \in 1 + 1..Len(events) :
                    events[j].kind = "disconnect" /\ events[j].handle = h
            BY <5>2, <4>2 DEF IOthers, Announced
          <5>4. Pending("disconnect", h)
            BY <5>1, <5>3 DEF Pending
          <5>5. QED
            BY <5>4, <2>3
        <4>3. QED
          BY <4>1, <4>2 DEF TypeOK
      <3>3. QED
        BY <3>1, <3>2, <2>1, <2>2, <2>3 DEF IOthers, OthersLeave, TypeOK
    <2>6. QED
      BY <2>4, <2>5, <1>5 DEF HandleConnect
  <1>6. ASSUME NEW h \in Handles, HandleDisconnect(h)
        PROVE  IOthers'
    <2>1. /\ events # <<>> /\ events' = Tail(events)
          /\ link' = link /\ connections' = connections \ {h}
          /\ terminating' = terminating /\ undropped' = undropped
          /\ Head(events).kind = "disconnect" /\ Head(events).handle = h
      BY <1>6 DEF HandleDisconnect, NextEvent
    <2>2. Announced'
      BY <2>1, AnnouncedTail DEF IOthers
    <2>3. \A x \in Handles \ {h} : Pending("disconnect", x) => Pending("disconnect", x)'
      BY <2>1, PendingTail
    <2>4. \/ m_ActiveConnection' = m_ActiveConnection
          \/ m_ActiveConnection = h /\ m_ActiveConnection' = None
      BY <1>6 DEF HandleDisconnect
    <2>5. QED
      BY <2>1, <2>2, <2>3, <2>4 DEF IOthers, OthersLeave, TypeOK
  <1>7. ASSUME NEW h \in Handles, PeerConnects(h) \/ LinkEnds(h)
        PROVE  IOthers'
    <2>1. PICK e \in Event :
              /\ events' = Append(events, e)
              /\ e.handle = h
              /\ e.kind = "connect" => PeerConnects(h)
              /\ e.kind = "disconnect" => LinkEnds(h)
      <3>1. CASE PeerConnects(h)
        <4>1. PICK stops \in BOOLEAN :
                  events' = Append(events, [kind |-> "connect", handle |-> h, stops |-> stops])
          BY <3>1 DEF PeerConnects, Post
        <4>2. QED
          BY <4>1, <3>1 DEF Event
      <3>2. CASE LinkEnds(h)
        BY <3>2 DEF LinkEnds, Post, Event
      <3>3. QED
        BY <1>7, <3>1, <3>2
    <2>2. /\ \A x \in Handles : x # h => link'[x] = link[x]
          /\ UNCHANGED <<gapVars, undropped>>
          /\ e.kind = "connect" => link'[h] = "up" /\ terminating' = terminating
          /\ e.kind = "disconnect" => terminating' = terminating \ {h}
      BY <2>1, <1>7 DEF PeerConnects, LinkEnds, TypeOK, history
    <2>3. Announced'
      BY <2>1, <2>2, AnnouncedAppend DEF IOthers
    <2>4. \A x \in Handles : Pending("disconnect", x) => Pending("disconnect", x)'
      BY <2>1, PendingAppend
    <2>5. e.kind = "disconnect" => Pending("disconnect", h)'
      <3>1. /\ Len(events) \in Nat
            /\ Len(Append(events, e)) = Len(events) + 1
            /\ Append(events, e)[Len(events) + 1] = e
        BY Posted DEF TypeOK
      <3>2. QED
        BY <3>1, <2>1 DEF Pending
    <2>6. e.kind \in {"connect", "disconnect"}
      BY DEF Event
    <2>7. QED
      BY <2>2, <2>3, <2>4, <2>5, <2>6 DEF IOthers, OthersLeave, TypeOK, gapVars
  <1>8. ASSUME NEW h \in Handles, ReadAuthenticate(h)
        PROVE  IOthers'
    BY <1>8, OthersStutter, OthersGone DEF ReadAuthenticate, Restart, history
  <1>9. CASE UNCHANGED vars
    BY <1>9, OthersStutter DEF vars, history
  <1>10. QED
    BY <1>1, <1>2, <1>3, <1>4, <1>5, <1>6, <1>7, <1>8, <1>9 DEF Next, HandleEvent

\* Every connection the token does not keep is terminated, its end reported, or
\* both attempts to drop it failed.
THEOREM OthersAreLeaving == Spec => []OthersLeave
<1>1. Init => IOthers
  BY OthersGone, EmptySeq DEF Init, IOthers, Announced, OthersLeave
<1>2. IOthers => OthersLeave
  BY DEF IOthers
<1>3. QED
  BY <1>1, <1>2, OthersKept, TypeCorrect, PTL DEF Spec
=============================================================================
