----------------------------- MODULE GattClient -----------------------------
(***************************************************************************)
(* The client's picture of the token's GATT table and its subscription to  *)
(* the RSSI notifications.                                                 *)
(*                                                                         *)
(* A CDevice is made by asking the token for its services, then for the    *)
(* characteristics of each, then for the descriptors of each of those; a   *)
(* question that fails is logged and its answer is missing from then on.   *)
(* Coroutines of the RSSI demander read the configuration descriptor,      *)
(* subscribe and demand; notifications come on threads of the system.  Who *)
(* the token is and when it is trusted is the business of ServerAuth, what *)
(* the notifications say that of RssiExchange.                             *)
(***************************************************************************)
EXTENDS Naturals, Sequences, SequencesExt

CONSTANTS
    Objects,        \* CDevice objects for the token
    Coroutines,     \* coroutines of the demander in flight (bound)
    Receivers,      \* callbacks that make_rssi_receiver returns
    None,           \* nullptr, std::nullopt
    Gone,           \* an object that has been destroyed
    MaxFaults,      \* GATT calls that fail (bound)
    MaxLosses,      \* losses of the link (bound)
    MaxUnsubscribes \* calls of CServer::unsubscribe (bound)

ASSUME GattClientAssumption ==
    /\ None \notin Objects \cup Receivers
    /\ Gone \notin Objects \cup {None}
    /\ MaxFaults \in Nat /\ MaxLosses \in Nat /\ MaxUnsubscribes \in Nat

VARIABLES
    dev,            \* dev[o]: CDevice o with its services
    chr,            \* chr[o]: its characteristic RSSI Notification
    m_Server,       \* the authenticated CDevice
    co,             \* co[c]: coroutine c
    linkUp,         \* the link to the token
    writer,         \* whose write enabled notifications on this link, or None
    event,          \* ConnectionStatusChanged: where its handler is
    faults, losses, unsubscribes,   \* events so far, for the bounds
    refused,        \* history: a service was open in another object when asked
    trapped         \* assertions that have failed

bounds == <<faults, losses, unsubscribes>>
history == <<refused, trapped>>
vars == <<dev, chr, m_Server, co, linkUp, writer, event, bounds, history>>

-----------------------------------------------------------------------------
\* The token's GATT table, in the order of CProfileCacheBuilder.

Services == {"whoami", "whereami"}

Children == [whoami       |-> <<"authenticate">>,
             whereami     |-> <<"notification", "demand">>,
             authenticate |-> <<>>,
             notification |-> <<"configuration">>,
             demand       |-> <<>>]

Attributes == Services \cup {"authenticate", "notification", "demand", "configuration"}

\* What is destroyed with a service.
Subtree == [whoami   |-> {"whoami", "authenticate"},
            whereami |-> {"whereami", "notification", "demand", "configuration"}]

FreeDevice == [pc |-> "free", ask |-> <<>>, found |-> {}, open |-> {}]

FreeCharacteristic == [reading |-> FALSE, subscribing |-> FALSE, unsubscribing |-> FALSE,
                       handler |-> None, registered |-> FALSE, callback |-> None]

Coroutine(pc, o) == [pc |-> pc, object |-> o]
FreeCoroutine == Coroutine("free", None)

\* Coroutines that hold a shared_ptr to their device, and those that hold a weak_ptr.
Holding == {"look", "read", "write", "erase", "demand"}
Weak == {"subscribe", "unsubscribe"}

Probing == {"making", "query", "verify", "check", "grant"}

TypeOK ==
    /\ dev \in [Objects -> [pc : {"free", "kept", "closing"} \cup Probing,
                            ask : Seq(Attributes),
                            found : SUBSET Attributes,
                            open : SUBSET Services]]
    /\ \A o \in Objects : dev[o].open \subseteq dev[o].found
    /\ chr \in [Objects -> [reading : BOOLEAN, subscribing : BOOLEAN, unsubscribing : BOOLEAN,
                            handler : Receivers \cup {None},
                            registered : BOOLEAN,
                            callback : Receivers \cup {None}]]
    /\ m_Server \in Objects \cup {None}
    /\ co \in [Coroutines -> [pc : {"free", "fireSubscribe", "fireDemand"} \cup Holding \cup Weak,
                              object : Objects \cup {None}]]
    /\ linkUp \in BOOLEAN
    /\ writer \in Objects \cup {None, Gone}
    /\ event \in {"none", "queued", "sawDown"}
    /\ faults \in 0..MaxFaults
    /\ losses \in 0..MaxLosses
    /\ unsubscribes \in 0..MaxUnsubscribes
    /\ refused \in BOOLEAN
    /\ trapped \subseteq {"characteristic", "descriptor"}

Init ==
    /\ dev = [o \in Objects |-> FreeDevice]
    /\ chr = [o \in Objects |-> FreeCharacteristic]
    /\ m_Server = None
    /\ co = [c \in Coroutines |-> FreeCoroutine]
    /\ linkUp = FALSE
    /\ writer = None
    /\ event = "none"
    /\ faults = 0 /\ losses = 0 /\ unsubscribes = 0
    /\ refused = FALSE
    /\ trapped = {}

-----------------------------------------------------------------------------
\* Helpers.

Held(o) == \E c \in Coroutines : co[c].object = o /\ co[c].pc \in Holding

\* Somebody holds a shared_ptr to o.
Alive(o) == dev[o].pc \in Probing \/ m_Server = o \/ Held(o)

\* CDevice::characteristic, CService::characteristic.
Finds(o, attribute) == attribute \in dev[o].found

\* The weak_ptr of a coroutine to o can be locked, and o has the characteristic.
Locks(o) == o # None /\ Alive(o) /\ Finds(o, "notification")

\* A call that succeeds has a link, a new one if need be.
CallSucceeds == linkUp' = TRUE /\ UNCHANGED faults

\* A call that does not: a status, or an exception that is taken for unreachable.
CallFails ==
    /\ faults < MaxFaults
    /\ faults' = faults + 1
    /\ UNCHANGED linkUp

Goto(c, pc, o) == co' = [co EXCEPT ![c] = Coroutine(pc, o)]
Return(c) == co' = [co EXCEPT ![c] = FreeCoroutine]

-----------------------------------------------------------------------------
\* CDevice::make and the coroutine of CServer::process_queue that awaits it.

FindDevice(o) ==
    /\ dev[o].pc = "free"
    /\ dev' = [dev EXCEPT ![o].pc = "making"]
    /\ UNCHANGED <<chr, m_Server, co, linkUp, writer, event, bounds, history>>

\* No such peripheral, no services, or an exception: the object is dropped.
MakeFails(o) ==
    /\ dev[o].pc = "making"
    /\ dev' = [dev EXCEPT ![o] = FreeDevice]
    /\ UNCHANGED <<chr, m_Server, co, linkUp, writer, event, bounds, history>>

QueryServices(o) ==
    /\ dev[o].pc = "making"
    /\ dev' = [dev EXCEPT ![o] = [FreeDevice EXCEPT !.pc = "query",
                                                    !.ask = <<"whoami", "whereami">>,
                                                    !.found = Services]]
    /\ CallSucceeds
    /\ UNCHANGED <<chr, m_Server, co, writer, event, losses, unsubscribes, history>>

\* A service that another object has not closed: access denied.
Refused(o, a) == \E p \in Objects \ {o} : a \in dev[p].open

Asked(o) == Head(dev[o].ask)

\* Mutant of QueryCharacteristics: the questions that were left are forgotten.
QueryCharacteristicsLast(o) ==
    /\ dev[o].pc = "query" /\ dev[o].ask # <<>>
    /\ Asked(o) \in Services
    /\ ~Refused(o, Asked(o))
    /\ dev' = [dev EXCEPT ![o].found = @ \cup ToSet(Children[Asked(o)]),
                          ![o].open = @ \cup {Asked(o)},
                          ![o].ask = Children[Asked(o)]]
    /\ CallSucceeds
    /\ UNCHANGED <<chr, m_Server, co, writer, event, losses, unsubscribes, history>>

\* CService::make: the characteristics of a service, each made before the next.
QueryCharacteristics(o) ==
    /\ dev[o].pc = "query" /\ dev[o].ask # <<>>
    /\ Asked(o) \in Services
    /\ ~Refused(o, Asked(o))
    /\ dev' = [dev EXCEPT ![o].found = @ \cup ToSet(Children[Asked(o)]),
                          ![o].open = @ \cup {Asked(o)},
                          ![o].ask = Children[Asked(o)] \o Tail(@)]
    /\ CallSucceeds
    /\ UNCHANGED <<chr, m_Server, co, writer, event, losses, unsubscribes, history>>

\* The failure is logged; the service is kept, without characteristics.
CharacteristicsFail(o) ==
    /\ dev[o].pc = "query" /\ dev[o].ask # <<>>
    /\ Asked(o) \in Services
    /\ \/ Refused(o, Asked(o)) /\ refused' = TRUE /\ UNCHANGED <<faults, linkUp>>
       \/ CallFails /\ UNCHANGED refused
    /\ dev' = [dev EXCEPT ![o].ask = Tail(@)]
    /\ UNCHANGED <<chr, m_Server, co, writer, event, losses, unsubscribes, trapped>>

\* CCharacteristic::make: the descriptors of a characteristic, if that succeeds.
QueryDescriptors(o) ==
    /\ dev[o].pc = "query" /\ dev[o].ask # <<>>
    /\ Asked(o) \notin Services
    /\ \/ CallSucceeds /\ dev' = [dev EXCEPT ![o].found = @ \cup ToSet(Children[Asked(o)]),
                                             ![o].ask = Tail(@)]
       \/ CallFails /\ dev' = [dev EXCEPT ![o].ask = Tail(@)]
    /\ UNCHANGED <<chr, m_Server, co, writer, event, losses, unsubscribes, history>>

RegisterHandler(o) ==
    /\ dev[o].pc = "query" /\ dev[o].ask = <<>>
    /\ dev' = [dev EXCEPT ![o].pc = "verify"]
    /\ UNCHANGED <<chr, m_Server, co, linkUp, writer, event, bounds, history>>

\* find_characteristic_authenticate, read_value and the check of what was read.
Verify(o) ==
    /\ dev[o].pc = "verify"
    /\ Finds(o, "authenticate")
    /\ dev' = [dev EXCEPT ![o].pc = "check"]
    /\ CallSucceeds
    /\ UNCHANGED <<chr, m_Server, co, writer, event, losses, unsubscribes, history>>

\* The probe returns: nothing to read, reads that fail, a bad answer, a server.
Reject(o) ==
    /\ \/ dev[o].pc = "verify"
       \/ dev[o].pc = "check" /\ m_Server # None
    /\ dev' = [dev EXCEPT ![o].pc = "closing"]
    /\ UNCHANGED <<chr, m_Server, co, linkUp, writer, event, bounds, history>>

CheckAuthenticated(o) ==
    /\ dev[o].pc = "check"
    /\ m_Server = None
    /\ dev' = [dev EXCEPT ![o].pc = "grant"]
    /\ UNCHANGED <<chr, m_Server, co, linkUp, writer, event, bounds, history>>

Grant(o) ==
    /\ dev[o].pc = "grant"
    /\ dev' = [dev EXCEPT ![o].pc = "kept"]
    /\ m_Server' = o
    /\ UNCHANGED <<chr, co, linkUp, writer, event, bounds, history>>

MakeStep(o) ==
    \/ FindDevice(o) \/ MakeFails(o) \/ QueryServices(o)
    \/ QueryCharacteristics(o) \/ CharacteristicsFail(o) \/ QueryDescriptors(o)
    \/ RegisterHandler(o) \/ Verify(o) \/ Reject(o) \/ CheckAuthenticated(o) \/ Grant(o)

-----------------------------------------------------------------------------
\* ~CDevice, by whoever dropped the last shared_ptr.

Destroy(o) ==
    /\ dev[o].pc = "kept"
    /\ ~Alive(o)
    /\ dev' = [dev EXCEPT ![o].pc = "closing"]
    /\ UNCHANGED <<chr, m_Server, co, linkUp, writer, event, bounds, history>>

\* Mutant of CloseService: ~CService does not close the service.
CloseServiceNot(o, s) ==
    /\ dev[o].pc = "closing"
    /\ s \in dev[o].found
    /\ dev' = [dev EXCEPT ![o].found = @ \ Subtree[s]]
    /\ UNCHANGED <<chr, m_Server, co, linkUp, writer, event, bounds, history>>

\* ~CService, one after the other in the order of a hash map.
CloseService(o, s) ==
    /\ dev[o].pc = "closing"
    /\ s \in dev[o].found
    /\ dev' = [dev EXCEPT ![o].found = @ \ Subtree[s], ![o].open = @ \ {s}]
    /\ UNCHANGED <<chr, m_Server, co, linkUp, writer, event, bounds, history>>

\* ~CCharacteristic waits for a notification that holds it; then nothing is left of o.
Destroyed(o) ==
    /\ dev[o].pc = "closing" /\ dev[o].found = {}
    /\ chr[o].callback = None
    /\ dev' = [dev EXCEPT ![o] = FreeDevice]
    /\ chr' = [chr EXCEPT ![o] = FreeCharacteristic]
    /\ writer' = IF writer = o THEN Gone ELSE writer
    /\ co' = [c \in Coroutines |-> IF co[c].object = o THEN Coroutine(co[c].pc, None) ELSE co[c]]
    /\ UNCHANGED <<m_Server, linkUp, event, bounds, history>>

DestroyStep(o) == Destroy(o) \/ (\E s \in Services : CloseService(o, s)) \/ Destroyed(o)
-----------------------------------------------------------------------------
\* The coroutines of the demander.

\* CServer::has_subscribed, called by send_demand: it takes its own shared_ptr.
Ask(c) ==
    /\ co[c].pc = "free"
    /\ m_Server # None
    /\ Goto(c, "look", m_Server)
    /\ UNCHANGED <<dev, chr, m_Server, linkUp, writer, event, bounds, history>>

\* "This characteristic should always exist", "has_subscribed called on
\* unsubscribable characteristic!"  The coroutine gets no further.
AssertionFails(c) ==
    LET o == co[c].object
        failed == IF Finds(o, "notification") THEN "descriptor" ELSE "characteristic"
    IN
    /\ co[c].pc = "look"
    /\ ~(Finds(o, "notification") /\ Finds(o, "configuration"))
    /\ trapped' = trapped \cup {failed}
    /\ UNCHANGED <<dev, chr, m_Server, co, linkUp, writer, event, bounds, refused>>

\* CCharacteristic::has_subscribed: one read of the descriptor at a time.
Look(c) ==
    LET o == co[c].object IN
    /\ co[c].pc = "look"
    /\ Finds(o, "notification") /\ Finds(o, "configuration")
    /\ IF chr[o].reading
       THEN Return(c) /\ UNCHANGED chr
       ELSE Goto(c, "read", o) /\ chr' = [chr EXCEPT ![o].reading = TRUE]
    /\ UNCHANGED <<dev, m_Server, linkUp, writer, event, bounds, history>>

\* The bits of the descriptor, or an error, which counts as not subscribed.
ReadEnds(c) ==
    LET o == co[c].object IN
    /\ co[c].pc = "read"
    /\ chr' = [chr EXCEPT ![o].reading = FALSE]
    /\ \/ CallSucceeds /\ Goto(c, IF writer # None THEN "fireDemand" ELSE "fireSubscribe", None)
       \/ CallFails /\ Goto(c, "fireSubscribe", None)
    /\ UNCHANGED <<dev, m_Server, writer, event, losses, unsubscribes, history>>

\* CServer::subscribe: for the server of the moment, if there is one.
FireSubscribe(c) ==
    /\ co[c].pc = "fireSubscribe"
    /\ IF m_Server # None THEN Goto(c, "subscribe", m_Server) ELSE Return(c)
    /\ UNCHANGED <<dev, chr, m_Server, linkUp, writer, event, bounds, history>>

\* Mutant of Subscribe: a new attempt takes the place of the one in flight.
SubscribeReplaces(c, r) ==
    LET o == co[c].object IN
    /\ co[c].pc = "subscribe"
    /\ Locks(o)
    /\ chr' = [chr EXCEPT ![o].subscribing = TRUE, ![o].handler = r, ![o].registered = TRUE]
    /\ Goto(c, "write", o)
    /\ UNCHANGED <<dev, m_Server, linkUp, writer, event, bounds, history>>

\* subscribe_to_notify up to its write.  Nothing releases the semaphore.
Subscribe(c, r) ==
    LET o == co[c].object IN
    /\ co[c].pc = "subscribe"
    /\ Locks(o)
    /\ ~chr[o].subscribing
    /\ chr' = [chr EXCEPT ![o].subscribing = TRUE, ![o].handler = r, ![o].registered = TRUE]
    /\ Goto(c, "write", o)
    /\ UNCHANGED <<dev, m_Server, linkUp, writer, event, bounds, history>>

\* The device or its characteristic is gone, or an attempt is in flight.
Skip(c) ==
    LET o == co[c].object IN
    /\ co[c].pc \in Weak
    /\ ~(Locks(o) /\ ~(IF co[c].pc = "subscribe" THEN chr[o].subscribing
                                                 ELSE chr[o].unsubscribing))
    /\ Return(c)
    /\ UNCHANGED <<dev, chr, m_Server, linkUp, writer, event, bounds, history>>

\* Mutant of SubscribeEnds: an attempt that fails takes its handler away.
SubscribeEndsRevoking(c) ==
    LET o == co[c].object IN
    /\ co[c].pc = "write"
    /\ \/ CallSucceeds /\ writer' = o /\ UNCHANGED chr
       \/ CallFails /\ writer' \in {writer, o} /\ chr' = [chr EXCEPT ![o].registered = FALSE]
    /\ Return(c)
    /\ UNCHANGED <<dev, m_Server, event, losses, unsubscribes, history>>

\* The write of the descriptor, which may have arrived although it failed.
SubscribeEnds(c) ==
    LET o == co[c].object IN
    /\ co[c].pc = "write"
    /\ \/ CallSucceeds /\ writer' = o
       \/ CallFails /\ writer' \in {writer, o}
    /\ Return(c)
    /\ UNCHANGED <<dev, chr, m_Server, event, losses, unsubscribes, history>>

\* CServer::unsubscribe; nothing in the client calls it yet.
FireUnsubscribe(c) ==
    /\ co[c].pc = "free"
    /\ m_Server # None
    /\ unsubscribes < MaxUnsubscribes
    /\ unsubscribes' = unsubscribes + 1
    /\ Goto(c, "unsubscribe", m_Server)
    /\ UNCHANGED <<dev, chr, m_Server, linkUp, writer, event, faults, losses, history>>

\* CCharacteristic::unsubscribe: the handler goes before the descriptor is written.
Unsubscribe(c) ==
    LET o == co[c].object IN
    /\ co[c].pc = "unsubscribe"
    /\ Locks(o)
    /\ ~chr[o].unsubscribing
    /\ chr' = [chr EXCEPT ![o].unsubscribing = TRUE, ![o].registered = FALSE]
    /\ Goto(c, "erase", o)
    /\ UNCHANGED <<dev, m_Server, linkUp, writer, event, bounds, history>>

UnsubscribeEnds(c) ==
    LET o == co[c].object IN
    /\ co[c].pc = "erase"
    /\ chr' = [chr EXCEPT ![o].unsubscribing = FALSE]
    /\ \/ CallSucceeds /\ writer' = None
       \/ CallFails /\ writer' \in {writer, None}
    /\ Return(c)
    /\ UNCHANGED <<dev, m_Server, event, losses, unsubscribes, history>>

\* demand_rssi: the device of the moment, if it has the characteristic.
FireDemand(c) ==
    /\ co[c].pc = "fireDemand"
    /\ IF m_Server # None /\ Finds(m_Server, "demand")
       THEN Goto(c, "demand", m_Server)
       ELSE Return(c)
    /\ UNCHANGED <<dev, chr, m_Server, linkUp, writer, event, bounds, history>>

\* write_data.  Whoever is the server when it turns out unreachable is not any more.
DemandEnds(c) ==
    /\ co[c].pc = "demand"
    /\ \/ CallSucceeds /\ UNCHANGED m_Server
       \/ CallFails /\ m_Server' \in {m_Server, None}
    /\ Return(c)
    /\ UNCHANGED <<dev, chr, writer, event, losses, unsubscribes, history>>

CoroutineStep(c) ==
    \/ Ask(c) \/ AssertionFails(c) \/ Look(c) \/ ReadEnds(c)
    \/ FireSubscribe(c) \/ (\E r \in Receivers : Subscribe(c, r)) \/ SubscribeEnds(c)
    \/ FireUnsubscribe(c) \/ Unsubscribe(c) \/ UnsubscribeEnds(c) \/ Skip(c)
    \/ FireDemand(c) \/ DemandEnds(c)

-----------------------------------------------------------------------------
\* Notifications, and the link.

\* Notifications are enabled and o's characteristic is there to take one.
Deliverable(o) == writer # None /\ chr[o].registered /\ Finds(o, "notification")

\* value_changed_handler holds the characteristic while it runs the handler.
Notified(o) ==
    /\ Deliverable(o)
    /\ chr[o].callback = None
    /\ chr' = [chr EXCEPT ![o].callback = chr[o].handler]
    /\ UNCHANGED <<dev, m_Server, co, linkUp, writer, event, bounds, history>>

HandlerReturns(o) ==
    /\ chr[o].callback # None
    /\ chr' = [chr EXCEPT ![o].callback = None]
    /\ UNCHANGED <<dev, m_Server, co, linkUp, writer, event, bounds, history>>

\* The token forgets who has subscribed with the link.
LinkLost ==
    /\ linkUp
    /\ losses < MaxLosses
    /\ losses' = losses + 1
    /\ linkUp' = FALSE
    /\ writer' = None
    /\ event' = IF event = "none" THEN "queued" ELSE event
    /\ UNCHANGED <<dev, chr, m_Server, co, faults, unsubscribes, history>>

\* connection_changed_handler reads the status of now, then calls back.
ReadStatus ==
    /\ event = "queued"
    /\ event' = IF linkUp THEN "none" ELSE "sawDown"
    /\ UNCHANGED <<dev, chr, m_Server, co, linkUp, writer, bounds, history>>

RevokeAuthentication ==
    /\ event = "sawDown"
    /\ event' = "none"
    /\ m_Server' = None
    /\ UNCHANGED <<dev, chr, co, linkUp, writer, bounds, history>>

Next ==
    \/ \E o \in Objects : MakeStep(o) \/ DestroyStep(o) \/ Notified(o) \/ HandlerReturns(o)
    \/ \E c \in Coroutines : CoroutineStep(c)
    \/ LinkLost \/ ReadStatus \/ RevokeAuthentication

Spec == Init /\ [][Next]_vars

-----------------------------------------------------------------------------
\* Properties.

\* m_NotifyEventHandler is not assigned while a thread of the system runs it: a
\* handler that has started is the one there is until it returns
\* (CCharacteristic.hpp:61, CCharacteristic.cpp:376-377).
HandlerStable ==
    \A o \in Objects : chr[o].callback # None => chr[o].handler = chr[o].callback

\* Only a GATT call that failed, or the service of an object that was not closed
\* yet, leaves an authenticated device without the characteristic or descriptor
\* that has_subscribed asserts (CServer.cpp:286, CCharacteristic.cpp:196).
AssertionsExplained == trapped # {} => faults > 0 \/ refused

\* While the server is the one whose write enabled notifications, it hears them,
\* also when that write was answered with an error: only unsubscribe takes the
\* handler away (CCharacteristic.hpp:61-98).
WriterHears ==
    \A o \in Objects :
        m_Server = o /\ writer = o /\ unsubscribes = 0 => Deliverable(o)
=============================================================================
