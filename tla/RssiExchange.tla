----------------------------- MODULE RssiExchange -----------------------------
(***************************************************************************)
(* How the client asks the token for its RSSI and what becomes of the      *)
(* answers.                                                                *)
(*                                                                         *)
(* Every frame, the plot has its CRssiDemander send a demand, in a         *)
(* coroutine that first reads from the token whether the client has        *)
(* subscribed, and then either demands or subscribes.  Notifications are   *)
(* handled on threads of the system and queued; the frame shows the queue. *)
(* The main loop replaces the plot, and its demander, while there is no    *)
(* server.  A server and its characteristics are a session; which session  *)
(* there is, is the business of module ServerAuth.                         *)
(***************************************************************************)
EXTENDS Naturals, Sequences

CONSTANTS
    Nonces,         \* random blocks (bound: demands made)
    None,           \* no random block
    Coroutines,     \* coroutines that can be in flight (bound)
    MaxSessions,    \* servers authenticated one after the other (bound)
    MaxDemanders,   \* plots made one after the other (bound)
    Interval,       \* m_DemandInterval
    Window          \* m_OldestAllowed

ASSUME RssiExchangeAssumption ==
    /\ None \notin Nonces
    /\ MaxSessions \in Nat \ {0}
    /\ MaxDemanders \in Nat \ {0}
    /\ Interval \in Nat \ {0}
    /\ Window \in Nat \ {0}

VARIABLES
    m_Server,       \* session of the authenticated server, 0 for none
    sessions,       \* sessions so far
    chr,            \* chr[s]: the RSSI notification characteristic of session s
    plot,           \* the plot there is, which is also its demander
    m_Timer,        \* m_Timer[d]: time since demander d last demanded
    m_Queue,        \* m_Queue[d]: answers the frame has not seen yet
    packet,         \* packet[n]: the entry of n in some m_PacketCache, its age
    shown,          \* answers given to the plot, by random block
    keys,           \* the key files are there
    keyed,          \* demanders that found the keys when they were made
    co,             \* co[c]: coroutine c
    net,            \* demands and notifications sent so far
    gui,            \* where the frame is
    halted          \* a step without defined behaviour was taken

demandVars == <<m_Timer, m_Queue, packet>>
guiVars == <<plot, shown, gui, keys, keyed>>
vars == <<m_Server, sessions, chr, demandVars, guiVars, co, net, halted>>

Sessions  == 1..MaxSessions
Demanders == 1..MaxDemanders

Coroutine(pc, d, s, n) == [pc |-> pc, demander |-> d, session |-> s, nonce |-> n]

FreeCoroutine == Coroutine("free", 0, 0, None)

Messages == [kind : {"demand", "answer"}, session : Sessions, nonce : Nonces, verifies : BOOLEAN]

TypeOK ==
    /\ m_Server \in 0..MaxSessions
    /\ sessions \in 0..MaxSessions
    /\ chr \in [Sessions -> [reading : BOOLEAN, subscribing : BOOLEAN,
                             handler : 0..MaxDemanders, notify : BOOLEAN]]
    /\ plot \in Demanders
    /\ m_Timer \in [Demanders -> 0..Interval]
    /\ m_Queue \in [Demanders -> Seq(Nonces)]
    /\ packet \in [Nonces -> [state : {"new", "cached", "answered", "removed"},
                              demander : 0..MaxDemanders,
                              age : 0..Window]]
    /\ shown \in Seq(Nonces)
    /\ keys \in BOOLEAN
    /\ keyed \subseteq Demanders
    /\ co \in [Coroutines ->
                [pc : {"free", "read", "subscribed", "notSubscribed", "subscribe", "write"},
                 demander : 0..MaxDemanders,
                 session : 0..MaxSessions,
                 nonce : Nonces \cup {None}]]
    /\ net \subseteq Messages
    /\ gui \in {"frame", "replace"}
    /\ halted \in BOOLEAN

Init ==
    /\ m_Server = 0
    /\ sessions = 0
    /\ chr = [s \in Sessions |-> [reading |-> FALSE, subscribing |-> FALSE,
                                  handler |-> 0, notify |-> FALSE]]
    /\ plot = 1
    /\ m_Timer = [d \in Demanders |-> 0]
    /\ m_Queue = [d \in Demanders |-> <<>>]
    /\ packet = [n \in Nonces |-> [state |-> "new", demander |-> 0, age |-> Window]]
    /\ shown = <<>>
    /\ keys \in BOOLEAN
    /\ keyed = {d \in {1} : keys}
    /\ co = [c \in Coroutines |-> FreeCoroutine]
    /\ net = {}
    /\ gui = "frame"
    /\ halted = FALSE

-----------------------------------------------------------------------------
\* Helpers.

\* Somebody holds a shared_ptr to demander d, to the CDevice of session s.
DemanderAlive(d) == d = plot \/ \E c \in Coroutines : co[c].pc # "free" /\ co[c].demander = d
DeviceAlive(s) == s = m_Server \/ \E c \in Coroutines : co[c].pc # "free" /\ co[c].session = s

Fresh == {n \in Nonces : packet[n].state = "new"}

\* CReplayProtector of demander d: its entries that are too old.
Outdated(d) ==
    {n \in Nonces : /\ packet[n].demander = d
                    /\ packet[n].state \in {"cached", "answered"}
                    /\ packet[n].age >= Window}

remove_outdated_packets(d) ==
    [n \in Nonces |-> IF n \in Outdated(d) THEN [packet[n] EXCEPT !.state = "removed"]
                                           ELSE packet[n]]

generate_random_block(d, n) ==
    packet' = [packet EXCEPT ![n] = [state |-> "cached", demander |-> d, age |-> 0]]

\* Mutant of Expected: beenAnswered is not looked at.
ExpectedAgain(d, n) ==
    /\ packet[n].demander = d
    /\ packet[n].state \in {"cached", "answered"}
    /\ n \notin Outdated(d)

\* n is in the cache and has not been answered.
Expected(d, n) ==
    /\ packet[n].demander = d
    /\ packet[n].state = "cached"
    /\ n \notin Outdated(d)

\* expected_random_data: whatever the verdict, the cache is purged.
expected_random_data(d, n) ==
    packet' = IF Expected(d, n)
              THEN [remove_outdated_packets(d) EXCEPT ![n].state = "answered"]
              ELSE remove_outdated_packets(d)

-----------------------------------------------------------------------------
\* The frame.

\* has_subscribed() runs up to the descriptor read if the interval is over,
\* there is a server and no other read of this characteristic is in flight.
ReadBegins ==
    /\ m_Timer[plot] >= Interval
    /\ m_Server # 0
    /\ ~chr[m_Server].reading

\* Mutant of Drain: answers are fetched only while there is a server.
DrainWhenServed ==
    IF m_Server # 0
    THEN /\ m_Queue' = [m_Queue EXCEPT ![plot] = <<>>]
         /\ shown' = shown \o m_Queue[plot]
    ELSE UNCHANGED <<m_Queue, shown>>

\* rssi() and add_rssi_value() for all that is queued.
Drain ==
    /\ m_Queue' = [m_Queue EXCEPT ![plot] = <<>>]
    /\ shown' = shown \o m_Queue[plot]

\* CRSSIPlot::plot.
Frame ==
    /\ gui = "frame"
    /\ IF ReadBegins
       THEN /\ \E c \in Coroutines :
                 /\ co[c].pc = "free"
                 /\ co' = [co EXCEPT ![c] = Coroutine("read", plot, m_Server, None)]
            /\ chr' = [chr EXCEPT ![m_Server].reading = TRUE]
       ELSE UNCHANGED <<co, chr>>
    /\ Drain
    /\ UNCHANGED <<m_Server, sessions, m_Timer, packet, plot, gui, keys, keyed, net, halted>>

\* The main loop finds keys, no authenticated server and the scanner idle.
CheckAuthenticated ==
    /\ gui = "frame"
    /\ keys
    /\ m_Server = 0
    /\ plot < MaxDemanders
    /\ gui' = "replace"
    /\ UNCHANGED <<m_Server, sessions, chr, demandVars, plot, shown, keys, keyed, co, net, halted>>

\* rssiPlot = CRSSIPlot{ make_rssi_demander() }, whoever is the server by now.
ReplacePlot ==
    /\ gui = "replace"
    /\ plot' = plot + 1
    /\ keyed' = keyed \cup {plot + 1}
    /\ shown' = <<>>
    /\ gui' = "frame"
    /\ UNCHANGED <<m_Server, sessions, chr, demandVars, keys, co, net, halted>>

\* CCoroutineManager::wait_for_all has returned.
AllCoroutinesFinished == \A c \in Coroutines : co[c].pc = "free"

\* "Generate Keys": the demander there is stays.
GenerateKeys ==
    /\ gui = "frame"
    /\ ~keys
    /\ AllCoroutinesFinished
    /\ keys' = TRUE
    /\ UNCHANGED <<m_Server, sessions, chr, demandVars, plot, shown, gui, keyed, co, net, halted>>

\* "Delete Keys": the plot is replaced although there may be a server, by one
\* whose demander finds no keys.
DeleteKeys ==
    /\ gui = "frame"
    /\ AllCoroutinesFinished
    /\ plot < MaxDemanders
    /\ keys' = FALSE
    /\ plot' = plot + 1
    /\ shown' = <<>>
    /\ UNCHANGED <<m_Server, sessions, chr, demandVars, gui, keyed, co, net, halted>>

-----------------------------------------------------------------------------
\* The coroutines.

\* Mutant of SubscriptionRead: a failed read keeps the semaphore.
SubscriptionReadKeeps(c) ==
    /\ co[c].pc = "read"
    /\ \E result \in {"subscribed", "notSubscribed"} :
         /\ result = "subscribed" => chr[co[c].session].notify
         /\ co' = [co EXCEPT ![c] = Coroutine(result, co[c].demander, 0, None)]
         /\ chr' = [chr EXCEPT ![co[c].session].reading = (result # "subscribed")]
    /\ UNCHANGED <<m_Server, sessions, demandVars, guiVars, net, halted>>

\* The descriptor has been read, or the read has failed; the semaphore is released.
SubscriptionRead(c) ==
    /\ co[c].pc = "read"
    /\ chr' = [chr EXCEPT ![co[c].session].reading = FALSE]
    /\ \E result \in {"subscribed", "notSubscribed"} :
         /\ result = "subscribed" => chr[co[c].session].notify
         /\ co' = [co EXCEPT ![c] = Coroutine(result, co[c].demander, 0, None)]
    /\ UNCHANGED <<m_Server, sessions, demandVars, guiVars, net, halted>>

\* Mutant of DemandRssi: the device is used without asking whether there is one.
DemandRssiUnchecked(c) ==
    LET d == co[c].demander IN
    /\ co[c].pc = "subscribed"
    /\ m_Timer' = [m_Timer EXCEPT ![d] = 0]
    /\ \/ /\ d \notin keyed
          /\ co' = [co EXCEPT ![c] = FreeCoroutine]
          /\ UNCHANGED packet
       \/ /\ d \in keyed
          /\ \E n \in Fresh :
               /\ generate_random_block(d, n)
               /\ co' = [co EXCEPT ![c] = Coroutine("write", d, m_Server, n)]
    /\ UNCHANGED <<m_Server, sessions, chr, m_Queue, guiVars, net, halted>>

\* demand_rssi() up to the write, which is to the server of the moment, and
\* m_Timer.reset().  Without a server or the private key there is no demand.
DemandRssi(c) ==
    LET d == co[c].demander IN
    /\ co[c].pc = "subscribed"
    /\ m_Timer' = [m_Timer EXCEPT ![d] = 0]
    /\ \/ /\ m_Server = 0 \/ d \notin keyed
          /\ co' = [co EXCEPT ![c] = FreeCoroutine]
          /\ UNCHANGED packet
       \/ /\ m_Server # 0 /\ d \in keyed
          /\ \E n \in Fresh :
               /\ generate_random_block(d, n)
               /\ co' = [co EXCEPT ![c] = Coroutine("write", d, m_Server, n)]
    /\ UNCHANGED <<m_Server, sessions, chr, m_Queue, guiVars, net, halted>>

\* write_data() without response: whatever the status, the demand may arrive or
\* be lost on the way.
DemandWritten(c) ==
    /\ co[c].pc = "write"
    /\ net' = net \cup {[kind |-> "demand", session |-> co[c].session,
                         nonce |-> co[c].nonce, verifies |-> TRUE]}
    /\ co' = [co EXCEPT ![c] = FreeCoroutine]
    /\ UNCHANGED <<m_Server, sessions, chr, demandVars, guiVars, halted>>

DemandUnreachable(c) ==
    /\ co[c].pc = "write"
    /\ m_Server' = 0
    /\ co' = [co EXCEPT ![c] = FreeCoroutine]
    /\ UNCHANGED <<sessions, chr, demandVars, guiVars, net, halted>>

\* CServer::subscribe, again to the server of the moment: the first attempt
\* takes the semaphore, stores and registers the receiver and writes.
Subscribe(c) ==
    /\ co[c].pc = "notSubscribed"
    /\ m_Server # 0
    /\ ~chr[m_Server].subscribing
    /\ chr' = [chr EXCEPT ![m_Server].subscribing = TRUE,
                          ![m_Server].handler = co[c].demander]
    /\ co' = [co EXCEPT ![c] = Coroutine("subscribe", 0, m_Server, None)]
    /\ UNCHANGED <<m_Server, sessions, demandVars, guiVars, net, halted>>

\* No server, or "an attempt is alread in flight".
SubscribeSkipped(c) ==
    /\ co[c].pc = "notSubscribed"
    /\ m_Server # 0 => chr[m_Server].subscribing
    /\ co' = [co EXCEPT ![c] = FreeCoroutine]
    /\ UNCHANGED <<m_Server, sessions, chr, demandVars, guiVars, net, halted>>

\* The descriptor is written or it is not; the semaphore stays taken either way.
SubscribeEnds(c) ==
    /\ co[c].pc = "subscribe"
    /\ \E success \in BOOLEAN : chr' = [chr EXCEPT ![co[c].session].notify = @ \/ success]
    /\ co' = [co EXCEPT ![c] = FreeCoroutine]
    /\ UNCHANGED <<m_Server, sessions, demandVars, guiVars, net, halted>>

CoroutineStep(c) ==
    \/ SubscriptionRead(c) \/ DemandRssi(c) \/ DemandWritten(c) \/ DemandUnreachable(c)
    \/ Subscribe(c) \/ SubscribeSkipped(c) \/ SubscribeEnds(c)

-----------------------------------------------------------------------------
\* The token and the radio.  The token answers a demand within its write
\* callback.  net holds what was ever sent: a message is never delivered, or
\* late, or after another, or again, and a damaged copy may come with it.  A
\* message verifies if hash and signature are what the token sent.

Answer(m) ==
    /\ m.kind = "demand"
    /\ net' = net \cup {[m EXCEPT !.kind = "answer"]}
    /\ UNCHANGED <<m_Server, sessions, chr, demandVars, guiVars, co, halted>>

\* Hash or signature are hit.  The receiver never computes the hash again over
\* block and RSSI: a copy hit in the RSSI byte alone verifies like m itself,
\* and as the value is not modelled, it is m here.
Damage(m) ==
    /\ m.kind = "answer"
    /\ net' = net \cup {[m EXCEPT !.verifies = FALSE]}
    /\ UNCHANGED <<m_Server, sessions, chr, demandVars, guiVars, co, halted>>

\* A registered handler will be run for m: its demander is alive.
Deliverable(m) ==
    /\ m.kind = "answer"
    /\ DeviceAlive(m.session)
    /\ chr[m.session].handler # 0
    /\ DemanderAlive(chr[m.session].handler)

\* The receiver: the random block is used up before the signature over the
\* hash in the packet is checked.
Receive(m) ==
    LET d == chr[m.session].handler IN
    /\ Deliverable(m)
    /\ expected_random_data(d, m.nonce)
    /\ m_Queue' = IF Expected(d, m.nonce) /\ m.verifies
                  THEN [m_Queue EXCEPT ![d] = Append(@, m.nonce)]
                  ELSE m_Queue
    /\ UNCHANGED <<m_Server, sessions, chr, m_Timer, guiVars, co, net, halted>>

\* Two threads in one protector, which has no lock; or a purge that erases an
\* answered entry, whose iterator extract() has invalidated (checked iterators
\* stop the program, others do not notice).
Undefined ==
    /\ \/ \E c, k \in Coroutines :
            /\ c # k
            /\ co[c].pc = "subscribed" /\ co[k].pc = "subscribed"
            /\ co[c].demander = co[k].demander
       \/ \E m \in net, c \in Coroutines :
            /\ Deliverable(m)
            /\ co[c].pc = "subscribed" /\ co[c].demander = chr[m.session].handler
       \/ \E m \in net :
            /\ Deliverable(m)
            /\ \E n \in Outdated(chr[m.session].handler) : packet[n].state = "answered"
    /\ halted' = TRUE
    /\ UNCHANGED <<m_Server, sessions, chr, demandVars, guiVars, co, net>>

-----------------------------------------------------------------------------
\* The surroundings: authentication, links and time.

GrantAuthentication ==
    /\ sessions < MaxSessions
    /\ sessions' = sessions + 1
    /\ m_Server' = sessions + 1
    /\ UNCHANGED <<chr, demandVars, guiVars, co, net, halted>>

RevokeAuthentication ==
    /\ m_Server # 0
    /\ m_Server' = 0
    /\ UNCHANGED <<sessions, chr, demandVars, guiVars, co, net, halted>>

\* The link goes down and is up again before anybody looks: the token forgets
\* the subscription.
LinkRestored(s) ==
    /\ chr[s].notify
    /\ chr' = [chr EXCEPT ![s].notify = FALSE]
    /\ UNCHANGED <<m_Server, sessions, demandVars, guiVars, co, net, halted>>

\* Time passes.  Stop watches are compared with Interval and Window only.
Tick ==
    /\ m_Timer' = [d \in Demanders |-> IF m_Timer[d] < Interval THEN m_Timer[d] + 1 ELSE Interval]
    /\ packet' = [n \in Nonces |->
                    [packet[n] EXCEPT !.age = IF @ < Window THEN @ + 1 ELSE Window]]
    /\ UNCHANGED <<m_Server, sessions, chr, m_Queue, guiVars, co, net, halted>>

Next ==
    /\ ~halted
    /\ \/ Frame \/ CheckAuthenticated \/ ReplacePlot \/ GenerateKeys \/ DeleteKeys
       \/ \E c \in Coroutines : CoroutineStep(c)
       \/ \E m \in net : Answer(m) \/ Damage(m) \/ Receive(m)
       \/ Undefined
       \/ GrantAuthentication \/ RevokeAuthentication
       \/ \E s \in Sessions : LinkRestored(s)
       \/ Tick

Spec == Init /\ [][Next]_vars

-----------------------------------------------------------------------------
\* Fairness.  Frames are drawn, awaited operations complete, time passes.  Not
\* every read of the descriptor fails: a subscription that is there is seen in
\* the end.
SubscriptionSeen(c) == SubscriptionRead(c) /\ co'[c].pc = "subscribed"

Fairness ==
    /\ WF_vars(~halted /\ Frame)
    /\ WF_vars(~halted /\ ReplacePlot)
    /\ \A c \in Coroutines : /\ WF_vars(~halted /\ CoroutineStep(c))
                             /\ SF_vars(~halted /\ SubscriptionSeen(c))
    /\ WF_vars(~halted /\ Tick)

FairSpec == Spec /\ Fairness

-----------------------------------------------------------------------------
\* Properties.

Answers == INSTANCE FreshAnswers
    WITH used  <- Nonces \ Fresh,
         open  <- {n \in Nonces : packet[n].state = "cached" /\ packet[n].demander = plot},
         age   <- [n \in Nonces |-> packet[n].age],
         inbox <- m_Queue[plot]

\* Whatever is lost, delayed, reordered, repeated or damaged, and however plots
\* and servers are replaced meanwhile: the plot shows only answers to demands of
\* its own demander that came in within Window, each once and in order
\* (CReplayProtector.cpp:49-69, CRssiDemander.cpp:125-169).
AnswersAreFresh == Answers!Spec

\* No answer is shown twice, however often its notification is repeated
\* (CReplayProtector.cpp:49-69, CRssiDemander.cpp:125-169).
ShownOnce == \A i, j \in DOMAIN shown : shown[i] = shown[j] => i = j

\* The semaphore of has_subscribed is taken exactly while one coroutine reads
\* the descriptor: reads never overlap and the semaphore is always given back
\* (CCharacteristic.cpp:191-235).
ReadSemaphore ==
    \A s \in Sessions :
        LET readers == {c \in Coroutines : co[c].pc = "read" /\ co[c].session = s} IN
        /\ chr[s].reading <=> readers # {}
        /\ \A c, k \in readers : c = k

\* Once a receiver is registered it is never replaced: m_NotifyEventHandler has
\* no lock and is called by the notification thread (CCharacteristic.hpp:58-61).
ReceiverStable == [][\A s \in Sessions : chr[s].handler # 0 => chr'[s].handler = chr[s].handler]_vars

\* The log of a skipped subscription (CServer.cpp:167): "Subscribe attempt to
\* Characteristic: "RSSI Notification" was skipped because an attempt is alread
\* in flight."
AttemptInFlight ==
    [][\A c \in Coroutines :
         SubscribeSkipped(c) /\ m_Server # 0
         => \E k \in Coroutines : co[k].pc = "subscribe" /\ co[k].session = m_Server]_vars

\* Every answer queued for the plot is shown unless the plot is replaced first
\* (or the bound on demands is reached).
QueuedAnswerShown ==
    \A n \in Nonces, d \in Demanders :
        (plot = d /\ \E i \in DOMAIN m_Queue[d] : m_Queue[d][i] = n)
        ~> (plot # d \/ halted \/ Fresh = {} \/ \E i \in DOMAIN shown : shown[i] = n)

\* To a server the client is subscribed with, a demand goes out when the
\* interval is over; failed reads and competing coroutines only delay it
\* (CRssiDemander.cpp:181-194).
DueDemandSent ==
    \A d \in Demanders, s \in Sessions :
        (plot = d /\ d \in keyed /\ m_Server = s /\ m_Timer[d] = Interval)
        ~> (\/ plot # d \/ m_Server # s \/ ~chr[s].notify \/ halted \/ Fresh = {}
            \/ \E c \in Coroutines : co[c].pc = "write" /\ co[c].demander = d)
=============================================================================
