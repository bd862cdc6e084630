-------------------------- MODULE GattClientProofs --------------------------
(***************************************************************************)
(* The client's use of the GATT table, for any number of CDevice objects,  *)
(* coroutines and receivers, of failures and of losses of the link.        *)
(***************************************************************************)
EXTENDS GattClient, SequenceTheorems, TLAPS

\* What is left to be asked while the services are queried.
Asks == {<<"whoami", "whereami">>, <<"authenticate", "whereami">>, <<"whereami">>,
         <<"notification", "demand">>, <<"demand">>, <<>>}

Shaped == \A o \in Objects : dev[o].pc = "query" => dev[o].ask \in Asks /\ Services \subseteq dev[o].found

\* Nothing that makes a query fail has happened.
Clean == faults = 0 /\ ~refused

\* Without a failure, what has_subscribed asserts has been found.
Learned(d) ==
    /\ d.pc = "query" =>
          /\ d.ask = <<"notification", "demand">> => "notification" \in d.found
          /\ d.ask \in {<<"demand">>, <<>>} => {"notification", "configuration"} \subseteq d.found
    /\ d.pc \in {"verify", "check", "grant", "kept"} =>
          {"notification", "configuration"} \subseteq d.found

Complete == Clean => trapped = {} /\ \A o \in Objects : Learned(dev[o])

\* Whoever is used is kept; whoever is remembered is not made anew.
Owned ==
    /\ m_Server # None => dev[m_Server].pc = "kept"
    /\ \A c \in Coroutines :
          /\ co[c].pc \in Holding => co[c].object \in Objects /\ dev[co[c].object].pc = "kept"
          /\ co[c].pc \in Weak /\ co[c].object # None =>
                dev[co[c].object].pc \in {"kept", "closing"}
    /\ writer \in Objects => dev[writer].pc \in {"kept", "closing"}

\* A handler is there only under a semaphore that is never released.
Handled ==
    \A o \in Objects :
        /\ chr[o].handler # None \/ chr[o].registered => chr[o].subscribing
        /\ chr[o].callback # None => chr[o].handler = chr[o].callback

\* The characteristic that was written to is found while its device is kept.
Noted ==
    /\ \A c \in Coroutines :
          co[c].pc = "write" => "notification" \in dev[co[c].object].found
    /\ writer \in Objects /\ dev[writer].pc = "kept" => "notification" \in dev[writer].found

\* Without unsubscribe, who writes has a handler.
Registered ==
    unsubscribes = 0 =>
        /\ \A c \in Coroutines :
              /\ co[c].pc \notin {"unsubscribe", "erase"}
              /\ co[c].pc = "write" => chr[co[c].object].registered
        /\ writer \in Objects => chr[writer].registered

-----------------------------------------------------------------------------
\* The token's table: what a service or a characteristic has is an attribute.
LEMMA Table ==
    /\ ToSet(Children["whoami"]) = {"authenticate"}
    /\ ToSet(Children["whereami"]) = {"notification", "demand"}
    /\ ToSet(Children["authenticate"]) = {}
    /\ ToSet(Children["notification"]) = {"configuration"}
    /\ ToSet(Children["demand"]) = {}
BY DEF ToSet, Children

LEMMA AfterWhoAmI == <<"authenticate">> \o <<"whereami">> = <<"authenticate", "whereami">>
<1> DEFINE s == <<"authenticate">>
           t == <<"whereami">>
           u == <<"authenticate", "whereami">>
<1>1. s \in Seq(Attributes) /\ t \in Seq(Attributes) /\ u \in Seq(Attributes)
  BY DEF Attributes, Services
<1>2. s \o t \in Seq(Attributes) /\ Len(s \o t) = 2 /\ Len(u) = 2
  BY <1>1
<1>3. \A i \in 1..2 : (s \o t)[i] = u[i]
  <2>1. (s \o t)[1] = "authenticate"
    BY <1>1
  <2>2. (s \o t)[2] = "whereami"
    BY <1>1
  <2> QED
    BY <2>1, <2>2
<1> HIDE DEF s, t, u
<1>4. s \o t = u
  BY <1>1, <1>2, <1>3, SeqEqual
<1> QED
  BY <1>4 DEF s, t, u

\* The next question, and the questions that remain.
LEMMA Questions ==
    ASSUME NEW ask \in Asks, ask # <<>>
    PROVE  /\ Head(ask) \in Attributes
           /\ Tail(ask) \in Asks
           /\ Head(ask) \in Services => Children[Head(ask)] \o Tail(ask) \in Asks
<1>1. CASE ask = <<"whoami", "whereami">>
  <2>1. Head(ask) = "whoami" /\ Tail(ask) = <<"whereami">>
    BY <1>1
  <2>2. Children["whoami"] = <<"authenticate">>
    BY DEF Children
  <2> QED
    BY <2>1, <2>2, AfterWhoAmI DEF Asks, Attributes, Services
<1>2. CASE ask = <<"authenticate", "whereami">>
  <2>1. Head(ask) = "authenticate" /\ Tail(ask) = <<"whereami">>
    BY <1>2
  <2> QED
    BY <2>1 DEF Asks, Attributes, Services
<1>3. CASE ask = <<"whereami">>
  <2>1. Head(ask) = "whereami" /\ Tail(ask) = <<>>
    BY <1>3
  <2>2. Children["whereami"] \o <<>> = <<"notification", "demand">>
    <3>1. <<"notification", "demand">> \in Seq(Attributes)
      BY DEF Attributes, Services
    <3> QED
      BY <3>1, ConcatEmptySeq DEF Children
  <2> QED
    BY <2>1, <2>2 DEF Asks, Attributes, Services
<1>4. CASE ask = <<"notification", "demand">>
  <2>1. Head(ask) = "notification" /\ Tail(ask) = <<"demand">>
    BY <1>4
  <2> QED
    BY <2>1 DEF Asks, Attributes, Services
<1>5. CASE ask = <<"demand">>
  <2>1. Head(ask) = "demand" /\ Tail(ask) = <<>>
    BY <1>5
  <2> QED
    BY <2>1 DEF Asks, Attributes, Services
<1> QED
  BY <1>1, <1>2, <1>3, <1>4, <1>5 DEF Asks

\* Lists of questions are sequences of attributes, as TypeOK has it.
LEMMA AsksAreSeq == Asks \subseteq Seq(Attributes)
BY DEF Asks, Attributes, Services

\* Whatever is asked has attributes.
LEMMA ChildrenAreAttributes ==
    ASSUME NEW a \in Attributes, a # "configuration"
    PROVE  ToSet(Children[a]) \subseteq Attributes
BY Table DEF Attributes, Services

-----------------------------------------------------------------------------
\* Types, and the shape of what is left to be asked.

DeviceType ==
    {d \in [pc : {"free", "kept", "closing"} \cup Probing, ask : Seq(Attributes),
            found : SUBSET Attributes, open : SUBSET Services] :
        d.open \subseteq d.found}

CharacteristicType ==
    [reading : BOOLEAN, subscribing : BOOLEAN, unsubscribing : BOOLEAN,
     handler : Receivers \cup {None}, registered : BOOLEAN, callback : Receivers \cup {None}]

CoroutineType ==
    [pc : {"free", "fireSubscribe", "fireDemand"} \cup Holding \cup Weak, object : Objects \cup {None}]

RestTypes ==
    /\ m_Server \in Objects \cup {None}
    /\ linkUp \in BOOLEAN
    /\ writer \in Objects \cup {None, Gone}
    /\ event \in {"none", "queued", "sawDown"}
    /\ faults \in 0..MaxFaults
    /\ losses \in 0..MaxLosses
    /\ unsubscribes \in 0..MaxUnsubscribes
    /\ refused \in BOOLEAN
    /\ trapped \subseteq {"characteristic", "descriptor"}

Typed ==
    /\ dev \in [Objects -> DeviceType]
    /\ chr \in [Objects -> CharacteristicType]
    /\ co \in [Coroutines -> CoroutineType]
    /\ RestTypes

LEMMA TypeParts == TypeOK <=> Typed
<1>1. (/\ dev \in [Objects -> [pc : {"free", "kept", "closing"} \cup Probing,
                               ask : Seq(Attributes),
                               found : SUBSET Attributes,
                               open : SUBSET Services]]
       /\ \A o \in Objects : dev[o].open \subseteq dev[o].found)
      <=> dev \in [Objects -> DeviceType]
  BY DEF DeviceType
<1> QED
  BY <1>1 DEF TypeOK, Typed, CharacteristicType, CoroutineType, RestTypes

\* A call, whatever becomes of it.
LEMMA CallTypes ==
    ASSUME Typed, CallSucceeds \/ CallFails
    PROVE  linkUp' \in BOOLEAN /\ faults' \in 0..MaxFaults
<1>1. faults' \in 0..MaxFaults
  BY GattClientAssumption DEF Typed, RestTypes, CallSucceeds, CallFails
<1>2. linkUp' \in BOOLEAN
  <2>1. linkUp \in BOOLEAN
    BY DEF Typed, RestTypes
  <2>2. CASE CallSucceeds
    BY <2>2 DEF CallSucceeds
  <2>3. CASE CallFails
    BY <2>1, <2>3 DEF CallFails
  <2> QED
    BY <2>2, <2>3
<1> QED
  BY <1>1, <1>2

\* One device changes; what is left to be asked keeps its shape.
LEMMA OneDevice ==
    ASSUME dev \in [Objects -> DeviceType], Shaped,
           NEW o \in Objects, NEW d \in DeviceType,
           d.pc = "query" => d.ask \in Asks /\ Services \subseteq d.found,
           dev' = [dev EXCEPT ![o] = d]
    PROVE  dev' \in [Objects -> DeviceType] /\ Shaped'
BY DEF Shaped

LEMMA MakeTypes ==
    ASSUME Typed, Shaped, NEW o \in Objects, MakeStep(o)
    PROVE  Typed' /\ Shaped'
<1> USE GattClientAssumption
<1>t. dev \in [Objects -> DeviceType]
  BY DEF Typed
<1>d. dev[o] \in DeviceType
  BY <1>t
<1>f. FreeDevice \in DeviceType
  BY DEF DeviceType, FreeDevice, Attributes
<1>r. UNCHANGED <<chr, co>> /\ RestTypes'
  <2> USE DEF Typed, RestTypes, bounds, history
  <2>1. CASE FindDevice(o) \/ MakeFails(o) \/ RegisterHandler(o) \/ Reject(o) \/ CheckAuthenticated(o)
    BY <2>1 DEF FindDevice, MakeFails, RegisterHandler, Reject, CheckAuthenticated
  <2>2. CASE QueryServices(o) \/ QueryCharacteristics(o) \/ Verify(o)
    BY <2>2, CallTypes DEF QueryServices, QueryCharacteristics, Verify
  <2>3. CASE CharacteristicsFail(o)
    <3>1. UNCHANGED <<chr, co, m_Server, writer, event, losses, unsubscribes, trapped>>
      BY <2>3 DEF CharacteristicsFail
    <3>2. refused' \in BOOLEAN /\ linkUp' \in BOOLEAN /\ faults' \in 0..MaxFaults
      <4>1. CASE refused' = TRUE /\ UNCHANGED <<faults, linkUp>>
        BY <4>1
      <4>2. CASE CallFails /\ UNCHANGED refused
        BY <4>2, CallTypes
      <4> QED
        BY <2>3, <4>1, <4>2 DEF CharacteristicsFail
    <3> QED
      BY <3>1, <3>2
  <2>4. CASE QueryDescriptors(o)
    <3>1. UNCHANGED <<chr, co, m_Server, writer, event, losses, unsubscribes, refused, trapped>>
      BY <2>4 DEF QueryDescriptors
    <3>2. linkUp' \in BOOLEAN /\ faults' \in 0..MaxFaults
      BY <2>4, CallTypes DEF QueryDescriptors
    <3> QED
      BY <3>1, <3>2
  <2>5. CASE Grant(o)
    BY <2>5 DEF Grant
  <2> QED
    BY <2>1, <2>2, <2>3, <2>4, <2>5 DEF MakeStep
<1>1. SUFFICES dev' \in [Objects -> DeviceType] /\ Shaped'
  BY <1>r DEF Typed
<1>2. CASE \E pc \in {"making", "verify", "check", "grant", "kept", "closing"} :
              dev' = [dev EXCEPT ![o].pc = pc]
  <2>1. PICK pc \in {"making", "verify", "check", "grant", "kept", "closing"} :
              dev' = [dev EXCEPT ![o].pc = pc]
    BY <1>2
  <2> DEFINE d == [dev[o] EXCEPT !.pc = pc]
  <2>2. d \in DeviceType /\ d.pc = pc
    BY <1>d DEF DeviceType, Probing
  <2>3. dev' = [dev EXCEPT ![o] = d]
    BY <2>1
  <2> HIDE DEF d
  <2> QED
    BY <1>t, <2>2, <2>3, OneDevice
<1>3. CASE MakeFails(o)
  BY <1>3, <1>t, <1>f, OneDevice DEF MakeFails, FreeDevice
<1>4. CASE QueryServices(o)
  <2> DEFINE d == [FreeDevice EXCEPT !.pc = "query", !.ask = <<"whoami", "whereami">>,
                                     !.found = Services]
  <2>1. d.pc = "query" /\ d.ask \in Asks /\ d.found = Services /\ d.open = {}
    BY DEF FreeDevice, Asks
  <2>2. d \in DeviceType
    BY <2>1, AsksAreSeq DEF FreeDevice, DeviceType, Attributes, Probing
  <2>3. dev' = [dev EXCEPT ![o] = d]
    BY <1>4 DEF QueryServices
  <2> HIDE DEF d
  <2> QED
    BY <1>t, <2>1, <2>2, <2>3, OneDevice
<1>5. ASSUME dev[o].pc = "query", dev[o].ask # <<>>
      PROVE  /\ Asked(o) \in Attributes /\ Tail(dev[o].ask) \in Asks
             /\ Services \subseteq dev[o].found
             /\ Asked(o) \in Services => Children[Asked(o)] \o Tail(dev[o].ask) \in Asks
             /\ ToSet(Children[Asked(o)]) \subseteq Attributes
  <2>1. dev[o].ask \in Asks /\ Services \subseteq dev[o].found
    BY <1>5 DEF Shaped
  <2>2. Head(dev[o].ask) # "configuration"
    BY <2>1, <1>5 DEF Asks
  <2> QED
    BY <2>1, <2>2, <1>5, Questions, ChildrenAreAttributes DEF Asked
<1>6. CASE QueryCharacteristics(o)
  <2> DEFINE d == [dev[o] EXCEPT !.found = @ \cup ToSet(Children[Asked(o)]),
                                 !.open = @ \cup {Asked(o)},
                                 !.ask = Children[Asked(o)] \o Tail(@)]
  <2>1. dev[o].pc = "query" /\ dev[o].ask # <<>> /\ Asked(o) \in Services
    BY <1>6 DEF QueryCharacteristics
  <2>2. /\ d.ask = Children[Asked(o)] \o Tail(dev[o].ask) /\ d.pc = dev[o].pc
        /\ d.found = dev[o].found \cup ToSet(Children[Asked(o)])
        /\ d.open = dev[o].open \cup {Asked(o)}
    BY <1>d DEF DeviceType
  <2>3. d.ask \in Asks /\ Services \subseteq d.found
    BY <2>1, <2>2, <1>5
  <2>4. d \in DeviceType
    BY <1>d, <2>1, <2>2, <2>3, <1>5, AsksAreSeq DEF DeviceType
  <2>5. dev' = [dev EXCEPT ![o] = d]
    BY <1>6 DEF QueryCharacteristics
  <2> HIDE DEF d
  <2> QED
    BY <1>t, <2>3, <2>4, <2>5, OneDevice
<1>7. CASE dev' = [dev EXCEPT ![o].ask = Tail(@)] /\ dev[o].pc = "query" /\ dev[o].ask # <<>>
  <2> DEFINE d == [dev[o] EXCEPT !.ask = Tail(@)]
  <2>1. d.ask = Tail(dev[o].ask) /\ d.pc = dev[o].pc /\ d.found = dev[o].found /\ d.open = dev[o].open
    BY <1>d DEF DeviceType
  <2>2. d.ask \in Asks /\ Services \subseteq d.found
    BY <2>1, <1>5, <1>7
  <2>3. d \in DeviceType
    BY <1>d, <2>1, <2>2, AsksAreSeq DEF DeviceType
  <2>4. dev' = [dev EXCEPT ![o] = d]
    BY <1>7
  <2> HIDE DEF d
  <2> QED
    BY <1>t, <2>2, <2>3, <2>4, OneDevice
<1>8. CASE /\ dev' = [dev EXCEPT ![o].found = @ \cup ToSet(Children[Asked(o)]), ![o].ask = Tail(@)]
           /\ dev[o].pc = "query" /\ dev[o].ask # <<>>
  <2> DEFINE d == [dev[o] EXCEPT !.found = @ \cup ToSet(Children[Asked(o)]), !.ask = Tail(@)]
  <2>1. /\ d.ask = Tail(dev[o].ask) /\ d.pc = dev[o].pc /\ d.open = dev[o].open
        /\ d.found = dev[o].found \cup ToSet(Children[Asked(o)])
    BY <1>d DEF DeviceType
  <2>2. d.ask \in Asks /\ Services \subseteq d.found
    BY <2>1, <1>5, <1>8
  <2>3. d \in DeviceType
    BY <1>d, <2>1, <2>2, <1>5, <1>8, AsksAreSeq DEF DeviceType
  <2>4. dev' = [dev EXCEPT ![o] = d]
    BY <1>8
  <2> HIDE DEF d
  <2> QED
    BY <1>t, <2>2, <2>3, <2>4, OneDevice
<1>9. \/ \E pc \in {"making", "verify", "check", "grant", "kept", "closing"} :
               dev' = [dev EXCEPT ![o].pc = pc]
      \/ MakeFails(o) \/ QueryServices(o) \/ QueryCharacteristics(o)
      \/ dev' = [dev EXCEPT ![o].ask = Tail(@)] /\ dev[o].pc = "query" /\ dev[o].ask # <<>>
      \/ /\ dev' = [dev EXCEPT ![o].found = @ \cup ToSet(Children[Asked(o)]), ![o].ask = Tail(@)]
         /\ dev[o].pc = "query" /\ dev[o].ask # <<>>
  BY DEF MakeStep, FindDevice, CharacteristicsFail, QueryDescriptors, RegisterHandler, Verify,
         Reject, CheckAuthenticated, Grant
<1> QED
  BY <1>2, <1>3, <1>4, <1>6, <1>7, <1>8, <1>9

LEMMA DestroyTypes ==
    ASSUME Typed, Shaped, NEW o \in Objects, DestroyStep(o)
    PROVE  Typed' /\ Shaped'
<1> USE GattClientAssumption
<1>t. dev \in [Objects -> DeviceType] /\ dev[o] \in DeviceType
  BY DEF Typed
<1>1. CASE Destroy(o)
  <2> DEFINE d == [dev[o] EXCEPT !.pc = "closing"]
  <2>1. d \in DeviceType /\ d.pc = "closing"
    BY <1>t DEF DeviceType
  <2>2. dev' = [dev EXCEPT ![o] = d]
    BY <1>1 DEF Destroy
  <2> HIDE DEF d
  <2>3. dev' \in [Objects -> DeviceType] /\ Shaped'
    BY <1>t, <2>1, <2>2, OneDevice
  <2> QED
    BY <1>1, <2>3 DEF Destroy, Typed, RestTypes, bounds, history
<1>2. ASSUME NEW s \in Services, CloseService(o, s)
      PROVE  Typed' /\ Shaped'
  <2> DEFINE d == [dev[o] EXCEPT !.found = @ \ Subtree[s], !.open = @ \ {s}]
  <2>1. /\ d.pc = dev[o].pc /\ d.pc # "query"
        /\ d.found = dev[o].found \ Subtree[s] /\ d.open = dev[o].open \ {s}
    BY <1>t, <1>2 DEF DeviceType, CloseService
  <2>2. Subtree[s] \cap Services = {s}
    BY DEF Subtree, Services
  <2>3. d.open \subseteq d.found
    BY <1>t, <2>1, <2>2 DEF DeviceType
  <2>4. d \in DeviceType
    BY <1>t, <2>1, <2>3 DEF DeviceType
  <2>5. dev' = [dev EXCEPT ![o] = d]
    BY <1>2 DEF CloseService
  <2> HIDE DEF d
  <2>6. dev' \in [Objects -> DeviceType] /\ Shaped'
    BY <1>t, <2>1, <2>4, <2>5, OneDevice
  <2> QED
    BY <1>2, <2>6 DEF CloseService, Typed, RestTypes, bounds, history
<1>3. CASE Destroyed(o)
  <2>1. FreeDevice \in DeviceType /\ FreeDevice.pc = "free"
    BY DEF DeviceType, FreeDevice, Attributes
  <2>2. dev' \in [Objects -> DeviceType] /\ Shaped'
    BY <1>3, <1>t, <2>1, OneDevice DEF Destroyed
  <2>3. FreeCharacteristic \in CharacteristicType
    BY DEF CharacteristicType, FreeCharacteristic
  <2>4. chr' \in [Objects -> CharacteristicType]
    BY <1>3, <2>3 DEF Destroyed, Typed
  <2>5. ASSUME NEW c \in Coroutines
        PROVE  Coroutine(co[c].pc, None) \in CoroutineType
    BY DEF Typed, CoroutineType, Coroutine
  <2>6. co' \in [Coroutines -> CoroutineType]
    BY <1>3, <2>5 DEF Destroyed, Typed
  <2> QED
    BY <1>3, <2>2, <2>4, <2>6 DEF Destroyed, Typed, RestTypes, bounds, history
<1> QED
  BY <1>1, <1>2, <1>3 DEF DestroyStep

\* A semaphore of a characteristic, its registration or its callback changes.
LEMMA CharacteristicUpdates ==
    ASSUME chr \in [Objects -> CharacteristicType], NEW o, NEW b \in BOOLEAN,
           NEW h \in Receivers \cup {None}
    PROVE  /\ [chr EXCEPT ![o].reading = b] \in [Objects -> CharacteristicType]
           /\ [chr EXCEPT ![o].unsubscribing = b] \in [Objects -> CharacteristicType]
           /\ [chr EXCEPT ![o].unsubscribing = TRUE, ![o].registered = FALSE]
                 \in [Objects -> CharacteristicType]
           /\ [chr EXCEPT ![o].callback = h] \in [Objects -> CharacteristicType]
<1>1. \A q \in CharacteristicType, d \in BOOLEAN :
        /\ [q EXCEPT !.reading = d] \in CharacteristicType
        /\ [q EXCEPT !.unsubscribing = d] \in CharacteristicType
        /\ [q EXCEPT !.registered = d] \in CharacteristicType
  BY DEF CharacteristicType
<1>2. \A q \in CharacteristicType : [q EXCEPT !.callback = h] \in CharacteristicType
  BY DEF CharacteristicType
<1>3. ASSUME NEW f \in [Objects -> CharacteristicType], NEW d \in BOOLEAN
      PROVE  /\ [f EXCEPT ![o].reading = d] \in [Objects -> CharacteristicType]
             /\ [f EXCEPT ![o].unsubscribing = d] \in [Objects -> CharacteristicType]
             /\ [f EXCEPT ![o].registered = d] \in [Objects -> CharacteristicType]
  <2>1. CASE o \in Objects
    <3>1. \A q \in CharacteristicType : [f EXCEPT ![o] = q] \in [Objects -> CharacteristicType]
      OBVIOUS
    <3> QED
      BY <1>1, <2>1, <3>1
  <2>2. CASE o \notin Objects
    BY <2>2
  <2> QED
    BY <2>1, <2>2
<1>4. [chr EXCEPT ![o].callback = h] \in [Objects -> CharacteristicType]
  <2>1. CASE o \in Objects
    BY <1>2, <2>1
  <2>2. CASE o \notin Objects
    BY <2>2
  <2> QED
    BY <2>1, <2>2
<1>5. ASSUME NEW d \in BOOLEAN, NEW e \in BOOLEAN
      PROVE  [chr EXCEPT ![o].unsubscribing = d, ![o].registered = e]
                \in [Objects -> CharacteristicType]
  <2> DEFINE first == [chr EXCEPT ![o].unsubscribing = d]
  <2>1. first \in [Objects -> CharacteristicType]
    BY <1>3
  <2> HIDE DEF first
  <2>2. [first EXCEPT ![o].registered = e] \in [Objects -> CharacteristicType]
    BY <1>3, <2>1
  <2> QED
    BY <2>2, Zenon DEF first
<1> QED
  BY <1>3, <1>4, <1>5

\* Steps of a coroutine leave the devices alone.
LEMMA CoroutineTypes ==
    ASSUME Typed, Shaped, NEW c \in Coroutines, CoroutineStep(c)
    PROVE  Typed' /\ Shaped'
<1> USE GattClientAssumption
<1>t. /\ chr \in [Objects -> CharacteristicType]
      /\ co \in [Coroutines -> CoroutineType] /\ co[c] \in CoroutineType
      /\ RestTypes
  BY DEF Typed
<1>1. dev' = dev /\ Shaped'
  <2>1. dev' = dev
    BY DEF CoroutineStep, Ask, AssertionFails, Look, ReadEnds, FireSubscribe, Subscribe,
       SubscribeEnds, FireUnsubscribe, Unsubscribe, UnsubscribeEnds, Skip, FireDemand, DemandEnds
  <2> QED
    BY <2>1 DEF Shaped
<1>2. ASSUME NEW pc \in {"free", "fireSubscribe", "fireDemand"} \cup Holding \cup Weak,
             NEW o \in Objects \cup {None}, Goto(c, pc, o)
      PROVE  co' \in [Coroutines -> CoroutineType]
  <2>1. Coroutine(pc, o) \in CoroutineType
    BY DEF CoroutineType, Coroutine
  <2> QED
    BY <1>2, <1>t, <2>1 DEF Goto
<1>3. ASSUME Return(c)
      PROVE  co' \in [Coroutines -> CoroutineType]
  <2>1. FreeCoroutine \in CoroutineType
    BY DEF CoroutineType, Coroutine, FreeCoroutine
  <2> QED
    BY <1>3, <1>t, <2>1 DEF Return
<1>o. co[c].object \in Objects \cup {None} /\ m_Server \in Objects \cup {None}
  BY <1>t DEF CoroutineType, RestTypes
<1>4. CASE Ask(c)
  <2>1. co' \in [Coroutines -> CoroutineType]
    BY <1>4, <1>2, <1>o DEF Ask, Holding
  <2> QED
    BY <1>4, <1>1, <1>t, <2>1 DEF Ask, Typed, RestTypes, bounds, history
<1>5. CASE AssertionFails(c)
  BY <1>5, <1>1, <1>t DEF AssertionFails, Typed, RestTypes, bounds
<1>6. CASE Look(c)
  <2>1. co' \in [Coroutines -> CoroutineType]
    BY <1>6, <1>2, <1>3, <1>o DEF Look, Holding
  <2>2. chr' \in [Objects -> CharacteristicType]
    <3>1. CASE chr' = chr
      BY <3>1, <1>t
    <3>2. CASE chr' = [chr EXCEPT ![co[c].object].reading = TRUE]
      BY <3>2, <1>t, CharacteristicUpdates
    <3> QED
      BY <1>6, <3>1, <3>2 DEF Look
  <2> QED
    BY <1>6, <1>1, <1>t, <2>1, <2>2 DEF Look, Typed, RestTypes, bounds, history
<1>7. CASE ReadEnds(c)
  <2>1. co' \in [Coroutines -> CoroutineType]
    <3>1. CASE Goto(c, "fireDemand", None)
      BY <3>1, <1>2
    <3>2. CASE Goto(c, "fireSubscribe", None)
      BY <3>2, <1>2
    <3> QED
      BY <1>7, <3>1, <3>2 DEF ReadEnds
  <2>2. chr' \in [Objects -> CharacteristicType]
    <3>1. chr' = [chr EXCEPT ![co[c].object].reading = FALSE]
      BY <1>7 DEF ReadEnds
    <3> QED
      BY <3>1, <1>t, CharacteristicUpdates
  <2> QED
    <3>1. linkUp' \in BOOLEAN /\ faults' \in 0..MaxFaults
      BY <1>7, CallTypes DEF ReadEnds
    <3> QED
      BY <1>7, <1>1, <1>t, <2>1, <2>2, <3>1 DEF ReadEnds, Typed, RestTypes, history
<1>8. CASE FireSubscribe(c)
  <2>1. co' \in [Coroutines -> CoroutineType]
    BY <1>8, <1>2, <1>3, <1>o DEF FireSubscribe, Weak
  <2> QED
    BY <1>8, <1>1, <1>t, <2>1 DEF FireSubscribe, Typed, RestTypes, bounds, history
<1>9. ASSUME NEW r \in Receivers, Subscribe(c, r)
      PROVE  Typed' /\ Shaped'
  <2>1. co' \in [Coroutines -> CoroutineType]
    BY <1>9, <1>2, <1>o DEF Subscribe, Holding
  <2>2. chr' \in [Objects -> CharacteristicType]
    <3> DEFINE o == co[c].object
               k == [chr[o] EXCEPT !.subscribing = TRUE, !.handler = r, !.registered = TRUE]
    <3>1. chr' = [chr EXCEPT ![o] = k]
      BY <1>9 DEF Subscribe
    <3>2. ASSUME o \in Objects PROVE k \in CharacteristicType
      <4>1. chr[o] \in CharacteristicType
        BY <1>t, <3>2
      <4> QED
        BY <4>1 DEF CharacteristicType
    <3> HIDE DEF o, k
    <3> QED
      BY <1>t, <3>1, <3>2
  <2> QED
    BY <1>9, <1>1, <1>t, <2>1, <2>2 DEF Subscribe, Typed, RestTypes, bounds, history
<1>10. CASE SubscribeEnds(c)
  <2>1. writer' \in Objects \cup {None, Gone}
    BY <1>10, <1>t, <1>o DEF SubscribeEnds, RestTypes
  <2> QED
    <3>1. linkUp' \in BOOLEAN /\ faults' \in 0..MaxFaults
      BY <1>10, CallTypes DEF SubscribeEnds
    <3> QED
      BY <1>10, <1>1, <1>3, <1>t, <2>1, <3>1 DEF SubscribeEnds, Typed, RestTypes, history
<1>11. CASE FireUnsubscribe(c)
  <2>1. co' \in [Coroutines -> CoroutineType]
    <3>1. m_Server \in Objects \cup {None} /\ Goto(c, "unsubscribe", m_Server)
      BY <1>11, <1>o DEF FireUnsubscribe
    <3>2. "unsubscribe" \in {"free", "fireSubscribe", "fireDemand"} \cup Holding \cup Weak
      BY DEF Weak
    <3> QED
      BY <3>1, <3>2, <1>2
  <2> QED
    BY <1>11, <1>1, <1>t, <2>1 DEF FireUnsubscribe, Typed, RestTypes, history
<1>12. CASE Unsubscribe(c)
  <2>1. co' \in [Coroutines -> CoroutineType]
    <3>1. co[c].object \in Objects \cup {None} /\ Goto(c, "erase", co[c].object)
      BY <1>12, <1>o DEF Unsubscribe
    <3>2. "erase" \in {"free", "fireSubscribe", "fireDemand"} \cup Holding \cup Weak
      BY DEF Holding
    <3> QED
      BY <3>1, <3>2, <1>2
  <2>2. chr' \in [Objects -> CharacteristicType]
    <3>1. chr' = [chr EXCEPT ![co[c].object].unsubscribing = TRUE, ![co[c].object].registered = FALSE]
      BY <1>12 DEF Unsubscribe
    <3> QED
      BY <3>1, <1>t, CharacteristicUpdates
  <2> QED
    BY <1>12, <1>1, <1>t, <2>1, <2>2 DEF Unsubscribe, Typed, RestTypes, bounds, history
<1>13. CASE UnsubscribeEnds(c)
  <2>1. chr' \in [Objects -> CharacteristicType]
    <3>1. chr' = [chr EXCEPT ![co[c].object].unsubscribing = FALSE]
      BY <1>13 DEF UnsubscribeEnds
    <3> QED
      BY <3>1, <1>t, CharacteristicUpdates
  <2> QED
    <3>1. linkUp' \in BOOLEAN /\ faults' \in 0..MaxFaults
      BY <1>13, CallTypes DEF UnsubscribeEnds
    <3>2. writer' \in Objects \cup {None, Gone}
      BY <1>13, <1>t DEF UnsubscribeEnds, RestTypes
    <3> QED
      BY <1>13, <1>1, <1>3, <1>t, <2>1, <3>1, <3>2 DEF UnsubscribeEnds, Typed, RestTypes, history
<1>14. CASE Skip(c)
  BY <1>14, <1>1, <1>3, <1>t DEF Skip, Typed, RestTypes, bounds, history
<1>15. CASE FireDemand(c)
  <2>1. co' \in [Coroutines -> CoroutineType]
    BY <1>15, <1>2, <1>3, <1>o DEF FireDemand, Holding
  <2> QED
    BY <1>15, <1>1, <1>t, <2>1 DEF FireDemand, Typed, RestTypes, bounds, history
<1>16. CASE DemandEnds(c)
  <2>1. linkUp' \in BOOLEAN /\ faults' \in 0..MaxFaults
    BY <1>16, CallTypes DEF DemandEnds
  <2>2. m_Server' \in Objects \cup {None}
    BY <1>16, <1>t DEF DemandEnds, RestTypes
  <2> QED
    BY <1>16, <1>1, <1>3, <1>t, <2>1, <2>2 DEF DemandEnds, Typed, RestTypes, history
<1> QED
  BY <1>4, <1>5, <1>6, <1>7, <1>8, <1>9, <1>10, <1>11, <1>12, <1>13, <1>14, <1>15, <1>16
  DEF CoroutineStep

\* Notifications and the link.
SystemStep ==
    \/ \E o \in Objects : Notified(o) \/ HandlerReturns(o)
    \/ LinkLost \/ ReadStatus \/ RevokeAuthentication

LEMMA SystemTypes ==
    ASSUME Typed, Shaped, SystemStep
    PROVE  Typed' /\ Shaped'
<1> USE GattClientAssumption
<1>1. dev' = dev /\ co' = co /\ Shaped'
  <2>1. dev' = dev /\ co' = co
    BY DEF SystemStep, Notified, HandlerReturns, LinkLost, ReadStatus, RevokeAuthentication
  <2> QED
    BY <2>1 DEF Shaped
<1>2. ASSUME NEW o \in Objects, Notified(o) \/ HandlerReturns(o)
      PROVE  Typed'
  <2>1. chr' \in [Objects -> CharacteristicType]
    <3>1. chr \in [Objects -> CharacteristicType] /\ chr[o].handler \in Receivers \cup {None}
      BY DEF Typed, CharacteristicType
    <3>2. PICK h \in {chr[o].handler, None} : chr' = [chr EXCEPT ![o].callback = h]
      BY <1>2 DEF Notified, HandlerReturns
    <3>3. h \in Receivers \cup {None}
      BY <3>1, <3>2
    <3> QED
      BY <3>1, <3>2, <3>3, CharacteristicUpdates
  <2> QED
    BY <1>1, <1>2, <2>1 DEF Notified, HandlerReturns, Typed, RestTypes, bounds, history
<1>3. CASE LinkLost
  <2>1. losses' \in 0..MaxLosses
    BY <1>3 DEF LinkLost, Typed, RestTypes
  <2>2. linkUp' \in BOOLEAN
    BY <1>3 DEF LinkLost
  <2>3. event' \in {"none", "queued", "sawDown"}
    BY <1>3 DEF LinkLost, Typed, RestTypes
  <2>4. UNCHANGED <<chr, m_Server, faults, unsubscribes, refused, trapped>> /\ writer' = None
    BY <1>3 DEF LinkLost, history
  <2> QED
    BY <1>1, <2>1, <2>2, <2>3, <2>4 DEF Typed, RestTypes
<1>4. CASE ReadStatus
  BY <1>1, <1>4 DEF ReadStatus, Typed, RestTypes, bounds, history
<1>5. CASE RevokeAuthentication
  BY <1>1, <1>5 DEF RevokeAuthentication, Typed, RestTypes, bounds, history
<1> QED
  BY <1>1, <1>2, <1>3, <1>4, <1>5 DEF SystemStep

\* The steps, by who takes them.
LEMMA Steps ==
    ASSUME Next
    PROVE  \/ \E o \in Objects : MakeStep(o) \/ DestroyStep(o)
           \/ \E c \in Coroutines : CoroutineStep(c)
           \/ SystemStep
BY DEF Next, SystemStep

LEMMA TypeInit == Init => Typed /\ Shaped
<1> SUFFICES ASSUME Init PROVE Typed /\ Shaped
  OBVIOUS
<1> USE GattClientAssumption
<1>1. FreeDevice \in DeviceType /\ FreeDevice.pc = "free"
  BY DEF DeviceType, FreeDevice, Attributes
<1>2. FreeCharacteristic \in CharacteristicType
  BY DEF CharacteristicType, FreeCharacteristic
<1>3. FreeCoroutine \in CoroutineType
  BY DEF CoroutineType, Coroutine, FreeCoroutine
<1>4. linkUp \in BOOLEAN /\ refused \in BOOLEAN
  BY DEF Init
<1>5. RestTypes
  BY <1>4 DEF Init, RestTypes
<1> QED
  BY <1>1, <1>2, <1>3, <1>5 DEF Init, Typed, Shaped

LEMMA TypeStep == Typed /\ Shaped /\ [Next]_vars => Typed' /\ Shaped'
<1> SUFFICES ASSUME Typed, Shaped, [Next]_vars PROVE Typed' /\ Shaped'
  OBVIOUS
<1>1. CASE UNCHANGED vars
  BY <1>1 DEF vars, Typed, RestTypes, Shaped, bounds, history
<1> QED
  BY <1>1, Steps, MakeTypes, DestroyTypes, CoroutineTypes, SystemTypes

\* Every variable keeps its type, and a service that is open is one of the
\* device's own, for any number of objects, coroutines, failures and losses.
THEOREM TypeCorrect == Spec => []TypeOK
<1>1. Typed => TypeOK
  BY TypeParts
<1> QED
  BY <1>1, TypeInit, TypeStep, PTL DEF Spec

-----------------------------------------------------------------------------
\* What a step does to the devices.

\* A device is only touched by its own steps.
LEMMA OthersStay ==
    ASSUME Typed, NEW o \in Objects, MakeStep(o) \/ DestroyStep(o)
    PROVE  \A p \in Objects \ {o} : dev'[p] = dev[p]
<1>1. CASE MakeStep(o)
  BY <1>1 DEF Typed, MakeStep, FindDevice, MakeFails, QueryServices, QueryCharacteristics,
     CharacteristicsFail, QueryDescriptors, RegisterHandler, Verify, Reject, CheckAuthenticated, Grant
<1>2. CASE DestroyStep(o)
  BY <1>2 DEF Typed, DestroyStep, Destroy, CloseService, Destroyed
<1> QED
  BY <1>1, <1>2

\* What is being made is not in use; only Grant makes it the server.
LEMMA MakingApart ==
    ASSUME NEW o \in Objects, MakeStep(o)
    PROVE  /\ dev[o].pc \notin {"kept", "closing"}
           /\ UNCHANGED <<chr, co, writer, unsubscribes>>
           /\ m_Server' = m_Server \/ Grant(o)
BY DEF MakeStep, FindDevice, MakeFails, QueryServices, QueryCharacteristics,
       CharacteristicsFail, QueryDescriptors, RegisterHandler, Verify, Reject, CheckAuthenticated,
       Grant, bounds, Probing

LEMMA GrantKeeps ==
    ASSUME Typed, NEW o \in Objects, Grant(o)
    PROVE  m_Server' = o /\ dev'[o].pc = "kept"
BY DEF Typed, DeviceType, Grant

LEMMA OwnedMake ==
    ASSUME Typed, Owned, NEW o \in Objects, MakeStep(o)
    PROVE  Owned'
<1>1. \A p \in Objects : dev[p].pc \in {"kept", "closing"} => dev'[p].pc = dev[p].pc
  BY OthersStay, MakingApart
<1>2. m_Server' # None => dev'[m_Server'].pc = "kept"
  BY <1>1, MakingApart, GrantKeeps DEF Owned, Typed, RestTypes
<1>3. ASSUME NEW c \in Coroutines
      PROVE  /\ co'[c].pc \in Holding => co'[c].object \in Objects /\ dev'[co'[c].object].pc = "kept"
             /\ co'[c].pc \in Weak /\ co'[c].object # None =>
                   dev'[co'[c].object].pc \in {"kept", "closing"}
  BY <1>1, MakingApart DEF Owned, Typed, CoroutineType
<1>4. writer' \in Objects => dev'[writer'].pc \in {"kept", "closing"}
  BY <1>1, MakingApart DEF Owned
<1> QED
  BY <1>2, <1>3, <1>4 DEF Owned

LEMMA OwnedDestroy ==
    ASSUME Typed, Owned, NEW o \in Objects, DestroyStep(o)
    PROVE  Owned'
<1> USE GattClientAssumption
<1>1. CASE Destroy(o)
  <2>1. UNCHANGED <<m_Server, co, writer>>
    BY <1>1 DEF Destroy
  <2>2. dev[o].pc = "kept" /\ dev'[o].pc = "closing" /\ \A p \in Objects \ {o} : dev'[p] = dev[p]
    BY <1>1 DEF Destroy, Typed, DeviceType
  <2>3. m_Server # o /\ \A c \in Coroutines : co[c].object = o => co[c].pc \notin Holding
    BY <1>1 DEF Destroy, Alive, Held
  <2> QED
    BY <2>1, <2>2, <2>3 DEF Owned, Typed, RestTypes, CoroutineType
<1>2. ASSUME NEW s \in Services, CloseService(o, s)
      PROVE  Owned'
  <2>1. UNCHANGED <<m_Server, co, writer>> /\ \A p \in Objects : dev'[p].pc = dev[p].pc
    BY <1>2 DEF CloseService, Typed, DeviceType
  <2> QED
    BY <2>1 DEF Owned, Typed, RestTypes, CoroutineType
<1>3. CASE Destroyed(o)
  <2>1. /\ dev[o].pc = "closing" /\ m_Server' = m_Server
        /\ writer' = IF writer = o THEN Gone ELSE writer
    BY <1>3 DEF Destroyed
  <2>2. \A p \in Objects \ {o} : dev'[p] = dev[p]
    BY <1>3 DEF Destroyed, Typed
  <2>3. ASSUME NEW c \in Coroutines
        PROVE  /\ co'[c].pc = co[c].pc
               /\ co'[c].object = IF co[c].object = o THEN None ELSE co[c].object
    BY <1>3 DEF Destroyed, Coroutine
  <2>4. m_Server' # None => dev'[m_Server'].pc = "kept"
    BY <2>1, <2>2 DEF Owned, Typed, RestTypes
  <2>5. ASSUME NEW c \in Coroutines
        PROVE  /\ co'[c].pc \in Holding => co'[c].object \in Objects /\ dev'[co'[c].object].pc = "kept"
               /\ co'[c].pc \in Weak /\ co'[c].object # None =>
                     dev'[co'[c].object].pc \in {"kept", "closing"}
    BY <2>1, <2>2, <2>3 DEF Owned, Typed, CoroutineType
  <2>6. writer' \in Objects => dev'[writer'].pc \in {"kept", "closing"}
    BY <2>1, <2>2 DEF Owned
  <2> QED
    BY <2>4, <2>5, <2>6 DEF Owned
<1> QED
  BY <1>1, <1>2, <1>3 DEF DestroyStep

\* Where a coroutine goes, it has an object that is kept, or none.
LEMMA OwnedCoroutine ==
    ASSUME Typed, Owned, NEW c \in Coroutines, CoroutineStep(c)
    PROVE  Owned'
<1> USE GattClientAssumption
<1>1. dev' = dev
  BY DEF CoroutineStep, Ask, AssertionFails, Look, ReadEnds, FireSubscribe, Subscribe,
     SubscribeEnds, FireUnsubscribe, Unsubscribe, UnsubscribeEnds, Skip, FireDemand, DemandEnds
<1>2. m_Server' \in {m_Server, None}
  BY DEF CoroutineStep, Ask, AssertionFails, Look, ReadEnds, FireSubscribe, Subscribe,
     SubscribeEnds, FireUnsubscribe, Unsubscribe, UnsubscribeEnds, Skip, FireDemand, DemandEnds
<1>3. writer' \in {writer, None} \/ SubscribeEnds(c)
  BY DEF CoroutineStep, Ask, AssertionFails, Look, ReadEnds, FireSubscribe, Subscribe,
     FireUnsubscribe, Unsubscribe, UnsubscribeEnds, Skip, FireDemand, DemandEnds
<1>4. SubscribeEnds(c) => writer' \in {writer, co[c].object} /\ co[c].pc = "write"
  BY DEF SubscribeEnds
<1>5. writer' \in Objects => dev'[writer'].pc \in {"kept", "closing"}
  BY <1>1, <1>3, <1>4 DEF Owned, Holding
<1>6. ASSUME NEW o, Locks(o), o \in Objects, o = co[c].object, co[c].pc \in Weak
      PROVE  dev[o].pc = "kept"
  <2>1. dev[o].pc \in {"kept", "closing"}
    BY <1>6 DEF Owned
  <2>2. m_Server = o \/ Held(o)
    BY <2>1, <1>6 DEF Locks, Alive, Probing
  <2> QED
    BY <2>2, <1>6 DEF Owned, Held
<1>7. \/ co' = co
      \/ \E pc \in {"free", "fireSubscribe", "fireDemand"} \cup Holding \cup Weak :
          \E o \in Objects \cup {None} :
              /\ Goto(c, pc, o)
              /\ pc \in Holding \cup Weak => o \in Objects /\ dev[o].pc = "kept"
  <2>o. /\ co[c].object \in Objects \cup {None}
        /\ m_Server \in Objects \cup {None}
    BY DEF Typed, CoroutineType, RestTypes
  <2>m. m_Server # None => m_Server \in Objects /\ dev[m_Server].pc = "kept"
    BY <2>o DEF Owned
  <2>r. ASSUME Return(c) PROVE Goto(c, "free", None)
    BY <2>r DEF Return, Goto, FreeCoroutine
  <2>1. CASE Ask(c)
    BY <2>1, <2>m DEF Ask, Holding
  <2>2. CASE AssertionFails(c)
    BY <2>2 DEF AssertionFails
  <2>3. CASE Look(c)
    <3>1. CASE Return(c)
      BY <3>1, <2>r DEF Holding, Weak
    <3>2. CASE Goto(c, "read", co[c].object) /\ co[c].pc = "look"
      BY <3>2 DEF Owned, Holding
    <3> QED
      BY <2>3, <3>1, <3>2 DEF Look
  <2>4. CASE ReadEnds(c)
    <3>1. Goto(c, "fireDemand", None) \/ Goto(c, "fireSubscribe", None)
      BY <2>4 DEF ReadEnds
    <3> QED
      BY <3>1 DEF Holding, Weak
  <2>5. CASE FireSubscribe(c)
    <3>1. CASE m_Server # None
      BY <2>5, <3>1, <2>m DEF FireSubscribe, Weak
    <3>2. CASE m_Server = None
      BY <2>5, <3>2, <2>r DEF FireSubscribe, Holding, Weak
    <3> QED
      BY <3>1, <3>2
  <2>6. ASSUME NEW r \in Receivers, Subscribe(c, r)
        PROVE  \E o \in Objects : Goto(c, "write", o) /\ dev[o].pc = "kept"
    <3>1. co[c].pc \in Weak /\ Locks(co[c].object) /\ Goto(c, "write", co[c].object)
      BY <2>6 DEF Subscribe, Weak
    <3>2. co[c].object \in Objects
      BY <3>1, <2>o DEF Locks
    <3> QED
      BY <3>1, <3>2, <1>6
  <2>7. CASE FireUnsubscribe(c)
    BY <2>7, <2>m DEF FireUnsubscribe, Weak
  <2>8. CASE Unsubscribe(c)
    <3>1. co[c].pc \in Weak /\ Locks(co[c].object) /\ Goto(c, "erase", co[c].object)
      BY <2>8 DEF Unsubscribe, Weak
    <3>2. co[c].object \in Objects
      BY <3>1, <2>o DEF Locks
    <3>3. dev[co[c].object].pc = "kept"
      BY <3>1, <3>2, <1>6
    <3> QED
      BY <3>1, <3>2, <3>3 DEF Holding
  <2>9. CASE SubscribeEnds(c) \/ UnsubscribeEnds(c) \/ Skip(c) \/ DemandEnds(c)
    <3>1. Return(c)
      BY <2>9 DEF SubscribeEnds, UnsubscribeEnds, Skip, DemandEnds
    <3> QED
      BY <3>1, <2>r DEF Holding, Weak
  <2>10. CASE FireDemand(c)
    <3>1. CASE m_Server # None /\ Finds(m_Server, "demand")
      BY <2>10, <3>1, <2>m DEF FireDemand, Holding
    <3>2. CASE Return(c)
      BY <3>2, <2>r DEF Holding, Weak
    <3> QED
      BY <2>10, <3>1, <3>2 DEF FireDemand
  <2> QED
    BY <2>1, <2>2, <2>3, <2>4, <2>5, <2>6, <2>7, <2>8, <2>9, <2>10 DEF CoroutineStep, Holding
<1> DEFINE Fits(k) ==
             /\ k.pc \in Holding => k.object \in Objects /\ dev[k.object].pc = "kept"
             /\ k.pc \in Weak /\ k.object # None => dev[k.object].pc \in {"kept", "closing"}
<1>8. ASSUME NEW b \in Coroutines
      PROVE  Fits(co'[b])
  <2>1. CASE co' = co
    BY <2>1 DEF Owned
  <2>2. ASSUME NEW pc, NEW o, Goto(c, pc, o),
               pc \in Holding \cup Weak => o \in Objects /\ dev[o].pc = "kept"
        PROVE  Fits(co'[b])
    <3>1. CASE b = c
      <4>1. co'[b].pc = pc /\ co'[b].object = o
        BY <2>2, <3>1 DEF Goto, Coroutine, Typed
      <4> QED
        BY <4>1, <2>2
    <3>2. CASE b # c
      <4>1. co'[b] = co[b]
        BY <2>2, <3>2 DEF Goto, Typed
      <4> QED
        BY <4>1 DEF Owned
    <3> QED
      BY <3>1, <3>2
  <2> QED
    BY <1>7, <2>1, <2>2
<1>9. m_Server' # None => dev[m_Server'].pc = "kept"
  BY <1>2 DEF Owned
<1> QED
  BY <1>1, <1>5, <1>8, <1>9 DEF Owned

LEMMA OwnedSystem ==
    ASSUME Owned, SystemStep
    PROVE  Owned'
<1> USE GattClientAssumption
<1>1. /\ UNCHANGED <<dev, co>>
      /\ m_Server' \in {m_Server, None}
      /\ writer' \in {writer, None}
  BY DEF SystemStep, Notified, HandlerReturns, LinkLost, ReadStatus, RevokeAuthentication
<1> QED
  BY <1>1 DEF Owned

LEMMA OwnedStep == Typed /\ Owned /\ [Next]_vars => Owned'
<1> SUFFICES ASSUME Typed, Owned, [Next]_vars PROVE Owned'
  OBVIOUS
<1>1. CASE UNCHANGED vars
  BY <1>1 DEF vars, Owned
<1> QED
  BY <1>1, Steps, OwnedMake, OwnedDestroy, OwnedCoroutine, OwnedSystem

-----------------------------------------------------------------------------
\* The handler.

\* Who leaves the characteristics alone, and what the others do to them.
LEMMA CharacteristicMoves ==
    ASSUME Typed, Next
    PROVE  \/ chr' = chr
           \/ \E o \in Objects : Destroyed(o) \/ Notified(o) \/ HandlerReturns(o)
           \/ \E c \in Coroutines, b \in BOOLEAN :
                 \/ chr' = [chr EXCEPT ![co[c].object].reading = b]
                 \/ chr' = [chr EXCEPT ![co[c].object].unsubscribing = b]
                 \/ Unsubscribe(c)
                 \/ \E r \in Receivers : Subscribe(c, r)
<1>1. ASSUME NEW o \in Objects, MakeStep(o) PROVE chr' = chr
  BY <1>1, MakingApart
<1>2. ASSUME NEW o \in Objects, DestroyStep(o) PROVE chr' = chr \/ Destroyed(o)
  BY <1>2 DEF DestroyStep, Destroy, CloseService
<1>3. ASSUME NEW c \in Coroutines, CoroutineStep(c)
      PROVE  \/ chr' = chr
             \/ \E b \in BOOLEAN : \/ chr' = [chr EXCEPT ![co[c].object].reading = b]
                                  \/ chr' = [chr EXCEPT ![co[c].object].unsubscribing = b]
             \/ Unsubscribe(c)
             \/ \E r \in Receivers : Subscribe(c, r)
  <2>1. \/ chr' = chr \/ Unsubscribe(c) \/ \E r \in Receivers : Subscribe(c, r)
        \/ chr' = [chr EXCEPT ![co[c].object].reading = TRUE]
        \/ chr' = [chr EXCEPT ![co[c].object].reading = FALSE]
        \/ chr' = [chr EXCEPT ![co[c].object].unsubscribing = FALSE]
    BY <1>3 DEF CoroutineStep, Ask, AssertionFails, Look, ReadEnds, FireSubscribe,
       SubscribeEnds, FireUnsubscribe, UnsubscribeEnds, Skip, FireDemand, DemandEnds
  <2> QED
    BY <2>1
<1>4. CASE SystemStep
  BY <1>4 DEF SystemStep, LinkLost, ReadStatus, RevokeAuthentication
<1> QED
  BY <1>1, <1>2, <1>3, <1>4, Steps

LEMMA HandledStep == Typed /\ Handled /\ [Next]_vars => Handled'
<1> SUFFICES ASSUME Typed, Handled, [Next]_vars PROVE Handled'
  OBVIOUS
<1> USE GattClientAssumption
<1>t. chr \in [Objects -> CharacteristicType]
  BY DEF Typed
<1>1. CASE chr' = chr
  BY <1>1 DEF Handled
<1>2. ASSUME NEW o \in Objects, Destroyed(o) PROVE Handled'
  BY <1>2, <1>t DEF Destroyed, Handled, FreeCharacteristic
<1>3. ASSUME NEW o \in Objects, Notified(o) PROVE Handled'
  BY <1>3, <1>t DEF Notified, Handled, CharacteristicType
<1>4. ASSUME NEW o \in Objects, HandlerReturns(o) PROVE Handled'
  BY <1>4, <1>t DEF HandlerReturns, Handled, CharacteristicType
<1>5. ASSUME NEW o, NEW b \in BOOLEAN, chr' = [chr EXCEPT ![o].reading = b] PROVE Handled'
  BY <1>5, <1>t DEF Handled, CharacteristicType
<1>6. ASSUME NEW o, NEW b \in BOOLEAN, chr' = [chr EXCEPT ![o].unsubscribing = b] PROVE Handled'
  BY <1>6, <1>t DEF Handled, CharacteristicType
<1>7. ASSUME NEW c \in Coroutines, Unsubscribe(c) PROVE Handled'
  BY <1>7, <1>t DEF Unsubscribe, Handled, CharacteristicType
<1>8. ASSUME NEW c \in Coroutines, NEW r \in Receivers, Subscribe(c, r) PROVE Handled'
  \* The semaphore was free, so there was no handler to run.
  <2> DEFINE o == co[c].object
  <2>1. chr' = [chr EXCEPT ![o].subscribing = TRUE, ![o].handler = r, ![o].registered = TRUE]
    BY <1>8 DEF Subscribe
  <2>2. ~chr[o].subscribing
    BY <1>8 DEF Subscribe
  <2> HIDE DEF o
  <2>3. ASSUME NEW p \in Objects, p # o
        PROVE  chr'[p] = chr[p]
    BY <2>1, <2>3, <1>t
  <2>4. ASSUME o \in Objects
        PROVE  chr'[o].subscribing /\ chr'[o].handler = r /\ chr'[o].callback = chr[o].callback
    BY <2>1, <2>4, <1>t DEF CharacteristicType
  <2>5. ASSUME o \in Objects
        PROVE  chr[o].callback = None
    BY <2>2, <2>5 DEF Handled
  <2>6. ASSUME NEW p \in Objects
        PROVE  /\ chr'[p].handler # None \/ chr'[p].registered => chr'[p].subscribing
               /\ chr'[p].callback # None => chr'[p].handler = chr'[p].callback
    BY <2>3, <2>4, <2>5 DEF Handled
  <2> QED
    BY <2>6 DEF Handled
<1>9. CASE UNCHANGED vars
  BY <1>1, <1>9 DEF vars
<1>10. CASE Next
  BY <1>10, <1>1, <1>2, <1>3, <1>4, <1>5, <1>6, <1>7, <1>8, CharacteristicMoves
<1> QED
  BY <1>9, <1>10

\* m_NotifyEventHandler is not assigned while a thread of the system runs it,
\* for any number of objects, coroutines, failures and losses of the link.
THEOREM HandlerStays == Spec => []HandlerStable
<1>1. Init => Handled
  BY DEF Init, Handled, FreeCharacteristic
<1>2. Handled => HandlerStable
  BY DEF Handled, HandlerStable
<1> QED
  BY <1>1, <1>2, TypeInit, TypeStep, HandledStep, PTL DEF Spec

-----------------------------------------------------------------------------
\* Who writes is heard.

\* A device that is kept stays as it is until somebody drops it.
LEMMA KeptStays ==
    ASSUME Typed, Next, NEW o \in Objects, dev[o].pc = "kept"
    PROVE  dev'[o] = dev[o] \/ (Destroy(o) /\ dev'[o].pc = "closing")
<1>1. ASSUME NEW p \in Objects, MakeStep(p) PROVE dev'[o] = dev[o]
  BY <1>1, MakingApart, OthersStay
<1>2. ASSUME NEW p \in Objects, DestroyStep(p), p # o PROVE dev'[o] = dev[o]
  BY <1>2, OthersStay
<1>3. ASSUME DestroyStep(o) PROVE Destroy(o) /\ dev'[o].pc = "closing"
  BY <1>3 DEF DestroyStep, Destroy, CloseService, Destroyed, Typed, DeviceType
<1>4. ASSUME NEW c \in Coroutines, CoroutineStep(c) PROVE dev' = dev
  BY <1>4 DEF CoroutineStep, Ask, AssertionFails, Look, ReadEnds, FireSubscribe, Subscribe,
     SubscribeEnds, FireUnsubscribe, Unsubscribe, UnsubscribeEnds, Skip, FireDemand, DemandEnds
<1>5. ASSUME SystemStep PROVE dev' = dev
  BY <1>5 DEF SystemStep, Notified, HandlerReturns, LinkLost, ReadStatus, RevokeAuthentication
<1> QED
  BY <1>1, <1>2, <1>3, <1>4, <1>5, Steps

\* What is being destroyed is not kept any more.
LEMMA ClosingCloses ==
    ASSUME Typed, Next, NEW o \in Objects, dev[o].pc = "closing"
    PROVE  dev'[o].pc # "kept"
<1>1. ASSUME NEW p \in Objects, MakeStep(p) PROVE dev'[o] = dev[o]
  BY <1>1, MakingApart, OthersStay
<1>2. ASSUME NEW p \in Objects, DestroyStep(p), p # o PROVE dev'[o] = dev[o]
  BY <1>2, OthersStay
<1>3. ASSUME DestroyStep(o) PROVE dev'[o].pc # "kept"
  <2>1. CASE Destroyed(o)
    BY <2>1 DEF Destroyed, Typed, FreeDevice
  <2>2. ASSUME NEW s \in Services, CloseService(o, s) PROVE dev'[o].pc # "kept"
    BY <2>2 DEF CloseService, Typed, DeviceType
  <2>3. ~Destroy(o)
    BY DEF Destroy
  <2> QED
    BY <1>3, <2>1, <2>2, <2>3 DEF DestroyStep
<1>4. ASSUME NEW c \in Coroutines, CoroutineStep(c) PROVE dev' = dev
  BY <1>4 DEF CoroutineStep, Ask, AssertionFails, Look, ReadEnds, FireSubscribe, Subscribe,
     SubscribeEnds, FireUnsubscribe, Unsubscribe, UnsubscribeEnds, Skip, FireDemand, DemandEnds
<1>5. ASSUME SystemStep PROVE dev' = dev
  BY <1>5 DEF SystemStep, Notified, HandlerReturns, LinkLost, ReadStatus, RevokeAuthentication
<1> QED
  BY <1>1, <1>2, <1>3, <1>4, <1>5, Steps

\* A coroutine writes because it did or because it subscribes.
LEMMA Writing ==
    ASSUME Typed, Owned, Next, NEW c \in Coroutines, co'[c].pc = "write"
    PROVE  \/ co'[c] = co[c]
           \/ /\ \E r \in Receivers : Subscribe(c, r)
              /\ co'[c].object = co[c].object
<1>1. ASSUME NEW o \in Objects, MakeStep(o) PROVE co' = co
  BY <1>1, MakingApart
<1>2. ASSUME NEW o \in Objects, DestroyStep(o) PROVE co'[c] = co[c]
  <2>1. CASE Destroyed(o)
    <3>1. dev[o].pc = "closing"
      BY <2>1 DEF Destroyed
    <3>2. co'[c].pc = co[c].pc
      BY <2>1 DEF Destroyed, Coroutine
    <3>3. co[c].object # o
      BY <3>1, <3>2 DEF Owned, Holding
    <3> QED
      BY <2>1, <3>3 DEF Destroyed
  <2> QED
    BY <1>2, <2>1 DEF DestroyStep, Destroy, CloseService
<1>3. ASSUME NEW b \in Coroutines, CoroutineStep(b), b # c PROVE co'[c] = co[c]
  BY <1>3 DEF Typed, CoroutineStep, Ask, AssertionFails, Look, ReadEnds, FireSubscribe, Subscribe,
     SubscribeEnds, FireUnsubscribe, Unsubscribe, UnsubscribeEnds, Skip, FireDemand, DemandEnds,
     Goto, Return
<1>4. ASSUME CoroutineStep(c)
      PROVE  \/ co' = co
             \/ (\E r \in Receivers : Subscribe(c, r)) /\ co'[c].object = co[c].object
  <2>1. ASSUME NEW pc, NEW o, pc # "write", Goto(c, pc, o) PROVE FALSE
    BY <2>1 DEF Goto, Coroutine, Typed
  <2>2. ~Return(c)
    BY DEF Return, FreeCoroutine, Coroutine, Typed
  <2>3. ASSUME NEW r \in Receivers, Subscribe(c, r) PROVE co'[c].object = co[c].object
    BY <2>3 DEF Subscribe, Goto, Coroutine, Typed
  <2>4. co' = co \/ \E r \in Receivers : Subscribe(c, r)
    BY <1>4, <2>1, <2>2 DEF CoroutineStep, Ask, AssertionFails, Look, ReadEnds, FireSubscribe,
       SubscribeEnds, FireUnsubscribe, Unsubscribe, UnsubscribeEnds, Skip, FireDemand, DemandEnds
  <2> QED
    BY <2>3, <2>4
<1>5. ASSUME SystemStep PROVE co' = co
  BY <1>5 DEF SystemStep, Notified, HandlerReturns, LinkLost, ReadStatus, RevokeAuthentication
<1> QED
  BY <1>1, <1>2, <1>3, <1>4, <1>5, Steps

\* Notifications are enabled by a coroutine that wrote.
LEMMA Enabling ==
    ASSUME Typed, Next, writer' \in Objects
    PROVE  /\ \/ writer' = writer
              \/ \E c \in Coroutines :
                    co[c].pc = "write" /\ writer' = co[c].object /\ UNCHANGED <<dev, chr>>
           /\ ~Destroyed(writer')
<1> USE GattClientAssumption
<1>1. ASSUME NEW o \in Objects, MakeStep(o)
      PROVE  writer' = writer /\ \A p \in Objects : ~Destroyed(p)
  <2>1. writer' = writer /\ dev[o].pc \notin {"kept", "closing"}
    BY <1>1, MakingApart
  <2>2. ASSUME NEW p \in Objects, Destroyed(p) PROVE FALSE
    <3>1. p # o /\ dev[p].pc = "closing" /\ dev'[p].pc = "free"
      BY <2>1, <2>2 DEF Destroyed, Typed, FreeDevice
    <3> QED
      BY <1>1, <3>1, OthersStay
  <2> QED
    BY <2>1, <2>2
<1>2. ASSUME NEW o \in Objects, Destroyed(o) PROVE writer' = writer /\ writer' # o
  BY <1>2 DEF Destroyed
<1>3. ASSUME NEW o \in Objects, DestroyStep(o) PROVE writer' = writer
  BY <1>2, <1>3 DEF DestroyStep, Destroy, CloseService
<1>4. ASSUME NEW c \in Coroutines, CoroutineStep(c)
      PROVE  \/ writer' = writer
             \/ co[c].pc = "write" /\ writer' = co[c].object /\ UNCHANGED <<dev, chr>>
  BY <1>4 DEF CoroutineStep, Ask, AssertionFails, Look, ReadEnds, FireSubscribe, Subscribe,
     SubscribeEnds, FireUnsubscribe, Unsubscribe, UnsubscribeEnds, Skip, FireDemand, DemandEnds
<1>5. ASSUME SystemStep PROVE writer' = writer
  BY <1>5 DEF SystemStep, Notified, HandlerReturns, LinkLost, ReadStatus, RevokeAuthentication
<1>6. ~Destroyed(writer')
  BY <1>2
<1> QED
  BY <1>1, <1>3, <1>4, <1>5, <1>6, Steps

LEMMA NotedStep == Typed /\ Owned /\ Noted /\ [Next]_vars => Noted'
<1> SUFFICES ASSUME Typed, Owned, Noted, [Next]_vars PROVE Noted'
  OBVIOUS
<1>1. CASE UNCHANGED vars
  BY <1>1 DEF vars, Noted
<1>2. CASE Next
  <2>1. ASSUME NEW c \in Coroutines, co'[c].pc = "write"
        PROVE  "notification" \in dev'[co'[c].object].found
    <3> DEFINE o == co[c].object
    <3>1. CASE co'[c] = co[c]
      <4>1. o \in Objects /\ dev[o].pc = "kept" /\ "notification" \in dev[o].found
        BY <2>1, <3>1 DEF Owned, Holding, Noted
      <4>2. ~Destroy(o)
        BY <2>1, <3>1 DEF Destroy, Alive, Held, Holding
      <4> QED
        BY <1>2, <3>1, <4>1, <4>2, KeptStays
    <3>2. CASE (\E r \in Receivers : Subscribe(c, r)) /\ co'[c].object = o
      BY <3>2 DEF Subscribe, Locks, Finds
    <3> QED
      BY <1>2, <2>1, <3>1, <3>2, Writing
  <2>2. ASSUME writer' \in Objects, dev'[writer'].pc = "kept"
        PROVE  "notification" \in dev'[writer'].found
    <3> DEFINE w == writer'
    <3>1. CASE writer' = writer
      <4>1. dev[w].pc \in {"kept", "closing"}
        BY <2>2, <3>1 DEF Owned
      <4>2. CASE dev[w].pc = "kept"
        BY <1>2, <2>2, <3>1, <4>2, KeptStays DEF Noted
      <4>3. CASE dev[w].pc = "closing"
        BY <1>2, <2>2, <4>3, ClosingCloses
      <4> QED
        BY <4>1, <4>2, <4>3
    <3>2. ASSUME NEW c \in Coroutines, co[c].pc = "write", writer' = co[c].object, UNCHANGED dev
          PROVE  "notification" \in dev'[w].found
      BY <3>2 DEF Noted
    <3> QED
      BY <1>2, <2>2, <3>1, <3>2, Enabling
  <2> QED
    BY <2>1, <2>2 DEF Noted
<1> QED
  BY <1>1, <1>2

\* The uses of unsubscribe are counted.
LEMMA CountsUnsubscribes ==
    ASSUME Typed, Next, unsubscribes' = 0
    PROVE  unsubscribes = 0 /\ \A c \in Coroutines : ~FireUnsubscribe(c)
<1>1. \A c \in Coroutines : ~FireUnsubscribe(c)
  BY GattClientAssumption DEF FireUnsubscribe, Typed, RestTypes
<1>2. ASSUME NEW o \in Objects, MakeStep(o) PROVE unsubscribes' = unsubscribes
  BY <1>2, MakingApart
<1>3. ASSUME NEW o \in Objects, DestroyStep(o) PROVE unsubscribes' = unsubscribes
  BY <1>3 DEF DestroyStep, Destroy, CloseService, Destroyed, bounds
<1>4. ASSUME NEW c \in Coroutines, CoroutineStep(c) PROVE unsubscribes' = unsubscribes
  BY <1>1, <1>4 DEF CoroutineStep, Ask, AssertionFails, Look, ReadEnds, FireSubscribe, Subscribe,
     SubscribeEnds, Unsubscribe, UnsubscribeEnds, Skip, FireDemand, DemandEnds, bounds
<1>5. ASSUME SystemStep PROVE unsubscribes' = unsubscribes
  BY <1>5 DEF SystemStep, Notified, HandlerReturns, LinkLost, ReadStatus, RevokeAuthentication,
     bounds
<1> QED
  BY <1>1, <1>2, <1>3, <1>4, <1>5, Steps

\* Nobody comes to unsubscribe without its first step.
LEMMA Unsubscribing ==
    ASSUME Typed, Next, NEW c \in Coroutines, co[c].pc \notin {"unsubscribe", "erase"},
           ~FireUnsubscribe(c)
    PROVE  co'[c].pc \notin {"unsubscribe", "erase"}
<1>1. ASSUME NEW o \in Objects, MakeStep(o) PROVE co' = co
  BY <1>1, MakingApart
<1>2. ASSUME NEW o \in Objects, DestroyStep(o) PROVE co'[c].pc = co[c].pc
  <2>1. CASE Destroyed(o)
    BY <2>1 DEF Destroyed, Coroutine
  <2> QED
    BY <1>2, <2>1 DEF DestroyStep, Destroy, CloseService
<1>3. ASSUME NEW b \in Coroutines, CoroutineStep(b), b # c PROVE co'[c] = co[c]
  BY <1>3 DEF Typed, CoroutineStep, Ask, AssertionFails, Look, ReadEnds, FireSubscribe, Subscribe,
     SubscribeEnds, FireUnsubscribe, Unsubscribe, UnsubscribeEnds, Skip, FireDemand, DemandEnds,
     Goto, Return
<1>4. ASSUME CoroutineStep(c)
      PROVE  co'[c].pc \notin {"unsubscribe", "erase"}
  <2>1. ASSUME NEW pc, NEW o, Goto(c, pc, o) PROVE co'[c].pc = pc
    BY <2>1 DEF Goto, Coroutine, Typed
  <2>2. ASSUME Return(c) PROVE co'[c].pc = "free"
    BY <2>2 DEF Return, FreeCoroutine, Coroutine, Typed
  <2>3. ~Unsubscribe(c) /\ ~UnsubscribeEnds(c)
    BY DEF Unsubscribe, UnsubscribeEnds
  <2> QED
    BY <1>4, <2>1, <2>2, <2>3 DEF CoroutineStep, Ask, AssertionFails, Look, ReadEnds,
       FireSubscribe, Subscribe, SubscribeEnds, Skip, FireDemand, DemandEnds
<1>5. ASSUME SystemStep PROVE co' = co
  BY <1>5 DEF SystemStep, Notified, HandlerReturns, LinkLost, ReadStatus, RevokeAuthentication
<1> QED
  BY <1>1, <1>2, <1>3, <1>4, <1>5, Steps

\* Only unsubscribe and the destructor take a handler away.
LEMMA StaysRegistered ==
    ASSUME Typed, Next, NEW o \in Objects, chr[o].registered, ~Destroyed(o),
           \A c \in Coroutines : co[c].pc # "unsubscribe"
    PROVE  chr'[o].registered
<1>t. chr \in [Objects -> CharacteristicType]
  BY DEF Typed
<1>1. ASSUME NEW p \in Objects, Destroyed(p) \/ Notified(p) \/ HandlerReturns(p)
      PROVE  chr'[o].registered
  BY <1>1, <1>t DEF Destroyed, Notified, HandlerReturns, CharacteristicType
<1>2. ASSUME NEW p, NEW b, \/ chr' = [chr EXCEPT ![p].reading = b]
                           \/ chr' = [chr EXCEPT ![p].unsubscribing = b]
      PROVE  chr'[o].registered
  BY <1>2, <1>t DEF CharacteristicType
<1>3. ASSUME NEW c \in Coroutines, NEW r \in Receivers, Subscribe(c, r)
      PROVE  chr'[o].registered
  BY <1>3, <1>t DEF Subscribe, CharacteristicType
<1>4. ASSUME NEW c \in Coroutines PROVE ~Unsubscribe(c)
  BY DEF Unsubscribe
<1> QED
  BY <1>1, <1>2, <1>3, <1>4, CharacteristicMoves

LEMMA RegisteredStep == Typed /\ Owned /\ Registered /\ [Next]_vars => Registered'
<1> SUFFICES ASSUME Typed, Owned, Registered, [Next]_vars PROVE Registered'
  OBVIOUS
<1> USE GattClientAssumption
<1>1. CASE UNCHANGED vars
  BY <1>1 DEF vars, Registered, bounds
<1>2. ASSUME Next, unsubscribes' = 0
      PROVE  /\ \A c \in Coroutines :
                   /\ co'[c].pc \notin {"unsubscribe", "erase"}
                   /\ co'[c].pc = "write" => chr'[co'[c].object].registered
             /\ writer' \in Objects => chr'[writer'].registered
  <2>1. unsubscribes = 0 /\ \A c \in Coroutines : ~FireUnsubscribe(c)
    BY <1>2, CountsUnsubscribes
  <2>2. /\ \A c \in Coroutines :
              /\ co[c].pc \notin {"unsubscribe", "erase"}
              /\ co[c].pc = "write" => chr[co[c].object].registered
        /\ writer \in Objects => chr[writer].registered
    BY <2>1 DEF Registered
  <2>3. ASSUME NEW o \in Objects, chr[o].registered, ~Destroyed(o)
        PROVE  chr'[o].registered
    BY <1>2, <2>2, <2>3, StaysRegistered
  <2>4. ASSUME NEW c \in Coroutines
        PROVE  co'[c].pc \notin {"unsubscribe", "erase"}
    BY <1>2, <2>1, <2>2, Unsubscribing
  <2>5. ASSUME NEW c \in Coroutines, co'[c].pc = "write"
        PROVE  chr'[co'[c].object].registered
    <3> DEFINE o == co[c].object
    <3>1. CASE co'[c] = co[c]
      <4>1. o \in Objects /\ dev[o].pc = "kept" /\ chr[o].registered
        BY <2>5, <3>1, <2>2 DEF Owned, Holding
      <4> QED
        BY <2>3, <3>1, <4>1 DEF Destroyed
    <3>2. ASSUME NEW r \in Receivers, Subscribe(c, r), co'[c].object = o
          PROVE  chr'[co'[c].object].registered
      <4>1. o \in Objects
        BY <3>2 DEF Subscribe, Locks, Typed, CoroutineType
      <4> QED
        BY <3>2, <4>1 DEF Subscribe, Typed, CharacteristicType
    <3> QED
      BY <1>2, <2>5, <3>1, <3>2, Writing
  <2>6. ASSUME writer' \in Objects
        PROVE  chr'[writer'].registered
    <3>1. CASE writer' = writer /\ ~Destroyed(writer')
      BY <2>2, <2>3, <2>6, <3>1
    <3>2. ASSUME NEW c \in Coroutines, co[c].pc = "write", writer' = co[c].object, UNCHANGED chr
          PROVE  chr'[writer'].registered
      BY <2>2, <3>2
    <3> QED
      BY <1>2, <2>6, <3>1, <3>2, Enabling
  <2> QED
    BY <2>4, <2>5, <2>6
<1> QED
  BY <1>1, <1>2 DEF Registered

\* While the server is the one whose write enabled notifications, it hears
\* them, unless unsubscribe is used, for any number of failures and losses.
THEOREM WriterAlwaysHears == Spec => []WriterHears
<1> USE GattClientAssumption
<1>1. Init => Owned /\ Noted /\ Registered
  BY DEF Init, Owned, Noted, Registered, FreeCoroutine, Coroutine, Holding, Weak
<1>2. Typed /\ Owned /\ Noted /\ Registered => WriterHears
  <2> SUFFICES ASSUME Typed, Owned, Noted, Registered,
                      NEW o \in Objects, m_Server = o, writer = o, unsubscribes = 0
               PROVE  Deliverable(o)
    BY DEF WriterHears
  <2>1. dev[o].pc = "kept" /\ writer # None
    BY DEF Owned
  <2>2. "notification" \in dev[o].found
    BY <2>1 DEF Noted
  <2>3. chr[o].registered
    BY DEF Registered
  <2> QED
    BY <2>1, <2>2, <2>3 DEF Deliverable, Finds
<1> QED
  BY <1>1, <1>2, TypeInit, TypeStep, OwnedStep, NotedStep, RegisteredStep, PTL DEF Spec

-----------------------------------------------------------------------------
\* Without a failure nothing is missing.

\* Failures are not forgotten.
LEMMA CleanBefore ==
    ASSUME Typed, Next, Clean'
    PROVE  /\ Clean
           /\ ~CallFails
           /\ \A o \in Objects : ~CharacteristicsFail(o)
<1> USE GattClientAssumption
<1>1. faults \in Nat
  BY DEF Typed, RestTypes
<1>2. ~CallFails
  BY <1>1 DEF CallFails, Clean
<1>3. \A o \in Objects : ~CharacteristicsFail(o)
  BY <1>2 DEF CharacteristicsFail, Clean
<1>4. ASSUME NEW o \in Objects, MakeStep(o) PROVE UNCHANGED <<faults, refused>>
  BY <1>2, <1>3, <1>4 DEF MakeStep, FindDevice, MakeFails, QueryServices, QueryCharacteristics,
     QueryDescriptors, RegisterHandler, Verify, Reject, CheckAuthenticated, Grant, CallSucceeds,
     bounds, history
<1>5. ASSUME NEW o \in Objects, DestroyStep(o) PROVE UNCHANGED <<faults, refused>>
  BY <1>5 DEF DestroyStep, Destroy, CloseService, Destroyed, bounds, history
<1>6. ASSUME NEW c \in Coroutines, CoroutineStep(c) PROVE UNCHANGED <<faults, refused>>
  BY <1>2, <1>6 DEF CoroutineStep, Ask, AssertionFails, Look, ReadEnds, FireSubscribe, Subscribe,
     SubscribeEnds, FireUnsubscribe, Unsubscribe, UnsubscribeEnds, Skip, FireDemand, DemandEnds,
     CallSucceeds, bounds, history
<1>7. ASSUME SystemStep PROVE UNCHANGED <<faults, refused>>
  BY <1>7 DEF SystemStep, Notified, HandlerReturns, LinkLost, ReadStatus, RevokeAuthentication,
     bounds, history
<1>8. UNCHANGED <<faults, refused>>
  BY <1>4, <1>5, <1>6, <1>7, Steps
<1> QED
  BY <1>2, <1>3, <1>8 DEF Clean

\* The question about a service, and what remains.
LEMMA ServiceQuestion ==
    ASSUME NEW ask \in Asks, ask # <<>>, Head(ask) \in Services
    PROVE  LET rest == Children[Head(ask)] \o Tail(ask) IN
           \/ rest = <<"authenticate", "whereami">>
           \/ rest = <<"notification", "demand">> /\ "notification" \in ToSet(Children[Head(ask)])
<1>1. Children[Head(ask)] \o Tail(ask) \in Asks
  BY Questions
<1>2. CASE ask = <<"whereami">>
  <2>1. Head(ask) = "whereami" /\ Tail(ask) = <<>>
    BY <1>2
  <2>2. <<"notification", "demand">> \in Seq(Attributes)
    BY DEF Attributes, Services
  <2>3. Children["whereami"] \o <<>> = <<"notification", "demand">>
    BY <2>2, ConcatEmptySeq DEF Children
  <2> QED
    BY <2>1, <2>3, Table
<1>3. CASE ask = <<"whoami", "whereami">>
  <2>1. Head(ask) = "whoami" /\ Tail(ask) = <<"whereami">>
    BY <1>3
  <2>2. Children["whoami"] = <<"authenticate">>
    BY DEF Children
  <2> QED
    BY <2>1, <2>2, AfterWhoAmI
<1> QED
  BY <1>2, <1>3 DEF Asks, Services

\* The question about a characteristic, and what remains.
LEMMA CharacteristicQuestion ==
    ASSUME NEW ask \in Asks, ask # <<>>, Head(ask) \notin Services
    PROVE  \/ Tail(ask) = <<"whereami">>
           \/ /\ ask = <<"notification", "demand">> /\ Tail(ask) = <<"demand">>
              /\ "configuration" \in ToSet(Children[Head(ask)])
           \/ ask = <<"demand">> /\ Tail(ask) = <<>>
<1>1. CASE ask = <<"authenticate", "whereami">>
  BY <1>1
<1>2. CASE ask = <<"notification", "demand">>
  <2>1. Head(ask) = "notification" /\ Tail(ask) = <<"demand">>
    BY <1>2
  <2> QED
    BY <1>2, <2>1, Table
<1>3. CASE ask = <<"demand">>
  BY <1>3
<1>4. ask # <<"whoami", "whereami">> /\ ask # <<"whereami">>
  BY DEF Services
<1> QED
  BY <1>1, <1>2, <1>3, <1>4 DEF Asks

LEMMA LearnedMake ==
    ASSUME Typed, Shaped, NEW o \in Objects, MakeStep(o), Learned(dev[o]),
           ~CallFails, ~CharacteristicsFail(o)
    PROVE  Learned(dev'[o])
<1>t. dev \in [Objects -> DeviceType] /\ dev[o] \in DeviceType
  BY DEF Typed
<1>1. CASE FindDevice(o) \/ MakeFails(o)
  <2>1. dev'[o].pc \in {"making", "free"}
    BY <1>1, <1>t DEF FindDevice, MakeFails, FreeDevice, DeviceType
  <2> QED
    BY <2>1 DEF Learned
<1>2. CASE QueryServices(o)
  <2>1. dev'[o].pc = "query" /\ dev'[o].ask = <<"whoami", "whereami">>
    BY <1>2, <1>t DEF QueryServices, FreeDevice
  <2> QED
    BY <2>1 DEF Learned
<1>3. CASE QueryCharacteristics(o)
  <2>1. /\ dev[o].pc = "query" /\ dev[o].ask \in Asks /\ dev[o].ask # <<>>
        /\ Head(dev[o].ask) \in Services
    BY <1>3 DEF QueryCharacteristics, Shaped, Asked
  <2>2. /\ dev'[o].pc = "query"
        /\ dev'[o].ask = Children[Head(dev[o].ask)] \o Tail(dev[o].ask)
        /\ ToSet(Children[Head(dev[o].ask)]) \subseteq dev'[o].found
    BY <1>3, <1>t, <2>1 DEF QueryCharacteristics, Asked, DeviceType
  <2>3. \/ dev'[o].ask = <<"authenticate", "whereami">>
        \/ dev'[o].ask = <<"notification", "demand">> /\ "notification" \in dev'[o].found
    BY <2>1, <2>2, ServiceQuestion
  <2>q. dev'[o].pc = "query"
    BY <2>2
  <2>4. CASE dev'[o].ask = <<"authenticate", "whereami">>
    BY <2>q, <2>4 DEF Learned
  <2>5. CASE dev'[o].ask = <<"notification", "demand">> /\ "notification" \in dev'[o].found
    BY <2>q, <2>5 DEF Learned
  <2> QED
    BY <2>3, <2>4, <2>5
<1>4. CASE QueryDescriptors(o)
  <2>1. /\ dev[o].pc = "query" /\ dev[o].ask \in Asks /\ dev[o].ask # <<>>
        /\ Head(dev[o].ask) \notin Services
    BY <1>4 DEF QueryDescriptors, Shaped, Asked
  <2>2. /\ dev'[o].pc = "query" /\ dev'[o].ask = Tail(dev[o].ask)
        /\ dev'[o].found = dev[o].found \cup ToSet(Children[Head(dev[o].ask)])
    BY <1>4, <1>t, <2>1 DEF QueryDescriptors, Asked, DeviceType
  <2>3. CASE Tail(dev[o].ask) = <<"whereami">>
    BY <2>2, <2>3 DEF Learned
  <2>4. CASE /\ dev[o].ask = <<"notification", "demand">> /\ Tail(dev[o].ask) = <<"demand">>
             /\ "configuration" \in ToSet(Children[Head(dev[o].ask)])
    <3>1. "notification" \in dev[o].found
      BY <2>1, <2>4 DEF Learned
    <3> QED
      BY <2>2, <2>4, <3>1 DEF Learned
  <2>5. CASE dev[o].ask = <<"demand">> /\ Tail(dev[o].ask) = <<>>
    <3>1. {"notification", "configuration"} \subseteq dev[o].found
      BY <2>1, <2>5 DEF Learned
    <3> QED
      BY <2>2, <2>5, <3>1 DEF Learned
  <2> QED
    BY <2>1, <2>3, <2>4, <2>5, CharacteristicQuestion
<1>5. CASE RegisterHandler(o)
  <2>1. /\ dev[o].pc = "query" /\ dev[o].ask = <<>>
        /\ dev'[o].pc = "verify" /\ dev'[o].found = dev[o].found
    BY <1>5, <1>t DEF RegisterHandler, DeviceType
  <2> QED
    BY <2>1 DEF Learned
<1>6. CASE Verify(o) \/ CheckAuthenticated(o) \/ Grant(o)
  <2>1. /\ dev[o].pc \in {"verify", "check", "grant"}
        /\ dev'[o].pc \in {"check", "grant", "kept"} /\ dev'[o].found = dev[o].found
    BY <1>6, <1>t DEF Verify, CheckAuthenticated, Grant, DeviceType
  <2> QED
    BY <2>1 DEF Learned
<1>7. CASE Reject(o)
  <2>1. dev'[o].pc = "closing"
    BY <1>7, <1>t DEF Reject, DeviceType
  <2> QED
    BY <2>1 DEF Learned
<1> QED
  BY <1>1, <1>2, <1>3, <1>4, <1>5, <1>6, <1>7 DEF MakeStep

LEMMA CompleteStep == Typed /\ Shaped /\ Owned /\ Complete /\ [Next]_vars => Complete'
<1> SUFFICES ASSUME Typed, Shaped, Owned, Complete, [Next]_vars PROVE Complete'
  OBVIOUS
<1>1. CASE UNCHANGED vars
  BY <1>1 DEF vars, Complete, Clean, Learned, bounds, history
<1>2. ASSUME Next, Clean'
      PROVE  trapped' = {} /\ \A o \in Objects : Learned(dev'[o])
  <2>1. Clean /\ ~CallFails /\ \A o \in Objects : ~CharacteristicsFail(o)
    BY <1>2, CleanBefore
  <2>2. trapped = {} /\ \A o \in Objects : Learned(dev[o])
    BY <2>1 DEF Complete
  <2>3. ASSUME NEW o \in Objects, MakeStep(o)
        PROVE  trapped' = trapped /\ \A p \in Objects : Learned(dev'[p])
    <3>1. trapped' = trapped
      BY <2>3 DEF MakeStep, FindDevice, MakeFails, QueryServices, QueryCharacteristics,
         CharacteristicsFail, QueryDescriptors, RegisterHandler, Verify, Reject,
         CheckAuthenticated, Grant, history
    <3>2. Learned(dev'[o])
      BY <2>1, <2>2, <2>3, LearnedMake
    <3>3. \A p \in Objects \ {o} : dev'[p] = dev[p]
      BY <2>3, OthersStay
    <3> QED
      BY <2>2, <3>1, <3>2, <3>3
  <2>4. ASSUME NEW o \in Objects, DestroyStep(o)
        PROVE  trapped' = trapped /\ \A p \in Objects : Learned(dev'[p])
    <3>1. trapped' = trapped
      BY <2>4 DEF DestroyStep, Destroy, CloseService, Destroyed, history
    <3>2. dev'[o].pc \in {"closing", "free"}
      <4>1. CASE Destroy(o)
        BY <4>1 DEF Destroy, Typed, DeviceType
      <4>2. ASSUME NEW s \in Services, CloseService(o, s) PROVE dev'[o].pc = "closing"
        BY <4>2 DEF CloseService, Typed, DeviceType
      <4>3. CASE Destroyed(o)
        BY <4>3 DEF Destroyed, Typed, FreeDevice
      <4> QED
        BY <2>4, <4>1, <4>2, <4>3 DEF DestroyStep
    <3>3. Learned(dev'[o])
      BY <3>2 DEF Learned
    <3>4. \A p \in Objects \ {o} : dev'[p] = dev[p]
      BY <2>4, OthersStay
    <3> QED
      BY <2>2, <3>1, <3>3, <3>4
  <2>5. ASSUME NEW c \in Coroutines, CoroutineStep(c)
        PROVE  trapped' = trapped /\ dev' = dev
    <3>1. ASSUME AssertionFails(c) PROVE FALSE
      <4>1. co[c].object \in Objects /\ dev[co[c].object].pc = "kept"
        BY <3>1 DEF AssertionFails, Owned, Holding
      <4>2. Learned(dev[co[c].object])
        BY <2>2, <4>1
      <4> QED
        BY <3>1, <4>1, <4>2 DEF AssertionFails, Finds, Learned
    <3> QED
      BY <2>5, <3>1 DEF CoroutineStep, Ask, Look, ReadEnds, FireSubscribe, Subscribe,
         SubscribeEnds, FireUnsubscribe, Unsubscribe, UnsubscribeEnds, Skip, FireDemand,
         DemandEnds, history
  <2>6. ASSUME SystemStep
        PROVE  trapped' = trapped /\ dev' = dev
    BY <2>6 DEF SystemStep, Notified, HandlerReturns, LinkLost, ReadStatus, RevokeAuthentication,
       history
  <2> QED
    BY <1>2, <2>2, <2>3, <2>4, <2>5, <2>6, Steps
<1> QED
  BY <1>1, <1>2 DEF Complete

\* The assertions of has_subscribed fail only after a failed GATT call or a
\* service that another object had open, for any number of objects and losses.
THEOREM AssertionsExplainedAlways == Spec => []AssertionsExplained
<1>1. Init => Owned
  BY GattClientAssumption DEF Init, Owned, FreeCoroutine, Coroutine, Holding, Weak
<1>2. Init => Complete
  <2> SUFFICES ASSUME Init PROVE Complete
    OBVIOUS
  <2>1. trapped = {} /\ \A o \in Objects : dev[o].pc = "free"
    BY DEF Init, FreeDevice
  <2>2. \A o \in Objects : Learned(dev[o])
    BY <2>1 DEF Learned
  <2> QED
    BY <2>1, <2>2 DEF Complete
<1>3. Typed /\ Complete => AssertionsExplained
  <2> SUFFICES ASSUME Typed, Complete, trapped # {}, ~refused PROVE faults > 0
    BY DEF AssertionsExplained
  <2>1. faults # 0
    BY DEF Complete, Clean
  <2> QED
    BY <2>1, GattClientAssumption DEF Typed, RestTypes
<1> QED
  BY <1>1, <1>2, <1>3, TypeInit, TypeStep, OwnedStep, CompleteStep, PTL DEF Spec
=============================================================================
