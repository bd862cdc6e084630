-------------------------- MODULE RssiExchangeProofs --------------------------
(***************************************************************************)
(* Proofs about RssiExchange for any number of demands, coroutines,        *)
(* sessions and plots, and any interval and window.                        *)
(***************************************************************************)
EXTENDS RssiExchange, TLAPS

PacketStates == {"new", "cached", "answered", "removed"}
CoStates == {"free", "read", "subscribed", "notSubscribed", "subscribe", "write"}

ChrType == [reading : BOOLEAN, subscribing : BOOLEAN, handler : 0..MaxDemanders,
            notify : BOOLEAN]
PacketType == [state : PacketStates, demander : 0..MaxDemanders, age : 0..Window]
CoType == [pc : CoStates, demander : 0..MaxDemanders, session : 0..MaxSessions,
           nonce : Nonces \cup {None}]

\* What a coroutine at an await works on; a plot is replaced only if there is
\* room for another.
Working ==
    /\ \A c \in Coroutines :
        /\ co[c].pc \in {"read", "subscribe", "write"} => co[c].session \in Sessions
        /\ co[c].pc = "write" => co[c].nonce \in Nonces
    /\ gui = "replace" => plot < MaxDemanders

TypeInv == TypeOK /\ Working

KeysTyped == keys \in BOOLEAN /\ keyed \subseteq Demanders

\* demand_rssi of coroutine c makes a demand.
Demands(c) == m_Server # 0 /\ co[c].demander \in keyed

-----------------------------------------------------------------------------
\* A coroutine record is well typed: has_subscribed, subscribe, demand_rssi all
\* make theirs from parts that are.
LEMMA CoroutineType ==
    ASSUME NEW pc \in CoStates, NEW d \in 0..MaxDemanders, NEW s \in 0..MaxSessions,
           NEW n \in Nonces \cup {None}
    PROVE  /\ Coroutine(pc, d, s, n) \in CoType
           /\ Coroutine(pc, d, s, n).pc = pc
           /\ Coroutine(pc, d, s, n).demander = d
           /\ Coroutine(pc, d, s, n).session = s
           /\ Coroutine(pc, d, s, n).nonce = n
BY DEF Coroutine, CoType

\* A coroutine that has returned holds nothing.
LEMMA FreeType ==
    /\ FreeCoroutine \in CoType
    /\ FreeCoroutine.pc = "free"
    /\ FreeCoroutine.demander = 0
    /\ FreeCoroutine.session = 0
BY RssiExchangeAssumption DEF FreeCoroutine, Coroutine, CoType, CoStates

\* remove_outdated_packets changes states only, and only to "removed".
LEMMA PurgeType ==
    ASSUME NEW d, packet \in [Nonces -> PacketType]
    PROVE  /\ remove_outdated_packets(d) \in [Nonces -> PacketType]
           /\ \A n \in Nonces :
                /\ remove_outdated_packets(d)[n].demander = packet[n].demander
                /\ remove_outdated_packets(d)[n].age = packet[n].age
                /\ \/ remove_outdated_packets(d)[n].state = packet[n].state
                   \/ /\ remove_outdated_packets(d)[n].state = "removed"
                      /\ packet[n].state \in {"cached", "answered"}
                      /\ packet[n].demander = d
BY DEF remove_outdated_packets, Outdated, PacketType, PacketStates

\* The same for expected_random_data, which also marks an expected block.
LEMMA ExpectedType ==
    ASSUME NEW d, NEW n \in Nonces, packet \in [Nonces -> PacketType],
           expected_random_data(d, n)
    PROVE  /\ packet' \in [Nonces -> PacketType]
           /\ \A k \in Nonces :
                /\ packet'[k].demander = packet[k].demander
                /\ packet'[k].age = packet[k].age
                /\ \/ packet'[k].state = packet[k].state
                   \/ /\ packet'[k].state \in {"answered", "removed"}
                      /\ packet[k].state \in {"cached", "answered"}
                      /\ packet[k].demander = d
           /\ Expected(d, n) => packet'[n].state = "answered"
<1> DEFINE P == remove_outdated_packets(d)
<1>1. /\ P \in [Nonces -> PacketType]
      /\ \A k \in Nonces :
           /\ P[k].demander = packet[k].demander
           /\ P[k].age = packet[k].age
           /\ \/ P[k].state = packet[k].state
              \/ /\ P[k].state = "removed"
                 /\ packet[k].state \in {"cached", "answered"}
                 /\ packet[k].demander = d
  BY PurgeType
<1> HIDE DEF P
<1>2. CASE Expected(d, n)
  <2>1. packet' = [P EXCEPT ![n].state = "answered"]
    BY <1>2 DEF expected_random_data, P
  <2>2. packet[n].state = "cached" /\ packet[n].demander = d
    BY <1>2 DEF Expected
  <2> QED BY <1>1, <2>1, <2>2 DEF PacketType, PacketStates
<1>3. CASE ~Expected(d, n)
  <2>1. packet' = P
    BY <1>3 DEF expected_random_data, P
  <2> QED BY <1>1, <1>3, <2>1
<1> QED BY <1>2, <1>3

-----------------------------------------------------------------------------
\* Typing.

\* One field of one characteristic changes.
LEMMA ChrUpdates ==
    ASSUME chr \in [Sessions -> ChrType], NEW s \in Sessions, NEW b \in BOOLEAN
    PROVE  /\ [chr EXCEPT ![s].reading = b] \in [Sessions -> ChrType]
           /\ [chr EXCEPT ![s].subscribing = b] \in [Sessions -> ChrType]
           /\ [chr EXCEPT ![s].notify = b] \in [Sessions -> ChrType]
<1>1. chr[s] \in ChrType
  OBVIOUS
<1>2. /\ [chr[s] EXCEPT !.reading = b] \in ChrType
      /\ [chr[s] EXCEPT !.subscribing = b] \in ChrType
      /\ [chr[s] EXCEPT !.notify = b] \in ChrType
  BY <1>1 DEF ChrType
<1>3. \A r \in ChrType : [chr EXCEPT ![s] = r] \in [Sessions -> ChrType]
  OBVIOUS
<1>4. [chr EXCEPT ![s].reading = b] \in [Sessions -> ChrType]
  BY <1>2, <1>3
<1>5. [chr EXCEPT ![s].subscribing = b] \in [Sessions -> ChrType]
  BY <1>2, <1>3
<1>6. [chr EXCEPT ![s].notify = b] \in [Sessions -> ChrType]
  BY <1>2, <1>3
<1> QED BY <1>4, <1>5, <1>6

LEMMA TypeUnfold ==
    TypeOK <=> /\ m_Server \in 0..MaxSessions
               /\ sessions \in 0..MaxSessions
               /\ chr \in [Sessions -> ChrType]
               /\ plot \in Demanders
               /\ m_Timer \in [Demanders -> 0..Interval]
               /\ m_Queue \in [Demanders -> Seq(Nonces)]
               /\ packet \in [Nonces -> PacketType]
               /\ shown \in Seq(Nonces)
               /\ co \in [Coroutines -> CoType]
               /\ net \subseteq Messages
               /\ gui \in {"frame", "replace"}
               /\ halted \in BOOLEAN
               /\ KeysTyped
BY DEF TypeOK, KeysTyped, ChrType, PacketType, PacketStates, CoType, CoStates

LEMMA TypeUnfoldNext ==
    TypeOK' <=> /\ m_Server' \in 0..MaxSessions
                /\ sessions' \in 0..MaxSessions
                /\ chr' \in [Sessions -> ChrType]
                /\ plot' \in Demanders
                /\ m_Timer' \in [Demanders -> 0..Interval]
                /\ m_Queue' \in [Demanders -> Seq(Nonces)]
                /\ packet' \in [Nonces -> PacketType]
                /\ shown' \in Seq(Nonces)
                /\ co' \in [Coroutines -> CoType]
                /\ net' \subseteq Messages
                /\ gui' \in {"frame", "replace"}
                /\ halted' \in BOOLEAN
                /\ KeysTyped'
BY DEF TypeOK, KeysTyped, ChrType, PacketType, PacketStates, CoType, CoStates

LEMMA TypeInit == Init => TypeInv
<1> SUFFICES ASSUME Init PROVE TypeInv
  OBVIOUS
<1>1. Working
  BY FreeType DEF Init, Working
<1>2. m_Server \in 0..MaxSessions /\ sessions \in 0..MaxSessions /\ plot \in Demanders
  BY RssiExchangeAssumption DEF Init, Demanders
<1>7. net \subseteq Messages /\ gui \in {"frame", "replace"} /\ halted \in BOOLEAN
  BY DEF Init
<1>8. m_Timer \in [Demanders -> 0..Interval]
  BY RssiExchangeAssumption DEF Init
<1>3. chr \in [Sessions -> ChrType]
  BY RssiExchangeAssumption DEF Init, ChrType
<1>4. packet \in [Nonces -> PacketType]
  BY RssiExchangeAssumption DEF Init, PacketType, PacketStates
<1>5. m_Queue \in [Demanders -> Seq(Nonces)] /\ shown \in Seq(Nonces)
  BY DEF Init
<1>6. co \in [Coroutines -> CoType]
  BY FreeType DEF Init
<1>9. KeysTyped
  BY <1>2 DEF Init, KeysTyped, Demanders
<1> QED BY <1>1, <1>2, <1>3, <1>4, <1>5, <1>6, <1>7, <1>8, <1>9, TypeUnfold DEF TypeInv

\* Every step keeps the types.  Each action changes few variables; the others
\* are covered by the first step of its case.
LEMMA TypeStep == TypeInv /\ [Next]_vars => TypeInv'
<1> SUFFICES ASSUME TypeInv, [Next]_vars PROVE TypeInv'
  OBVIOUS
<1> USE RssiExchangeAssumption
<1>0. /\ m_Server \in 0..MaxSessions /\ sessions \in 0..MaxSessions
      /\ chr \in [Sessions -> ChrType] /\ plot \in Demanders
      /\ m_Timer \in [Demanders -> 0..Interval]
      /\ m_Queue \in [Demanders -> Seq(Nonces)]
      /\ packet \in [Nonces -> PacketType]
      /\ shown \in Seq(Nonces) /\ co \in [Coroutines -> CoType]
      /\ net \subseteq Messages /\ gui \in {"frame", "replace"} /\ halted \in BOOLEAN
      /\ Working /\ KeysTyped
  BY TypeUnfold DEF TypeInv
<1>a. 0 \in 0..MaxSessions /\ 0 \in 0..MaxDemanders /\ 0 \in 0..Interval /\ 0 \in 0..Window
      /\ 1 \in Sessions /\ Sessions \subseteq 0..MaxSessions
      /\ Demanders \subseteq 0..MaxDemanders
  BY DEF Sessions, Demanders
<1>b. ASSUME NEW c \in Coroutines, NEW x \in CoType, co' = [co EXCEPT ![c] = x],
             x.pc \in {"read", "subscribe", "write"} => x.session \in Sessions,
             x.pc = "write" => x.nonce \in Nonces,
             gui' = gui, plot' = plot
      PROVE  co' \in [Coroutines -> CoType] /\ Working'
  BY <1>0, <1>b DEF Working
<1>k. KeysTyped'
  <2>1. CASE UNCHANGED <<keys, keyed>>
    BY <1>0, <2>1 DEF KeysTyped
  <2>2. CASE ReplacePlot
    <3>1. plot < MaxDemanders /\ keys' = keys /\ keyed' = keyed \cup {plot + 1}
      BY <1>0, <2>2 DEF ReplacePlot, Working
    <3> QED BY <1>0, <3>1 DEF KeysTyped, Demanders
  <2>3. CASE GenerateKeys \/ DeleteKeys
    BY <1>0, <2>3 DEF KeysTyped, GenerateKeys, DeleteKeys
  <2>4. UNCHANGED <<keys, keyed>> \/ ReplacePlot \/ GenerateKeys \/ DeleteKeys
    BY DEF Next, vars, guiVars, Frame, CheckAuthenticated, CoroutineStep, SubscriptionRead,
           DemandRssi, DemandWritten, DemandUnreachable, Subscribe, SubscribeSkipped,
           SubscribeEnds, Answer, Damage, Receive, Undefined, GrantAuthentication,
           RevokeAuthentication, LinkRestored, Tick
  <2> QED BY <2>1, <2>2, <2>3, <2>4
<1>1. CASE Frame
  <2>1. UNCHANGED <<m_Server, sessions, m_Timer, packet, plot, gui, net, halted>>
    BY <1>1 DEF Frame
  <2>2. m_Queue' \in [Demanders -> Seq(Nonces)] /\ shown' \in Seq(Nonces)
    BY <1>0, <1>1 DEF Frame, Drain
  <2>3. chr' \in [Sessions -> ChrType] /\ co' \in [Coroutines -> CoType] /\ Working'
    <3>1. CASE ReadBegins
      <4>1. PICK c \in Coroutines : co' = [co EXCEPT ![c] = Coroutine("read", plot, m_Server, None)]
        BY <1>1, <3>1 DEF Frame
      <4>2. m_Server \in Sessions
        BY <1>0, <3>1 DEF ReadBegins, Sessions
      <4> DEFINE x == Coroutine("read", plot, m_Server, None)
      <4>3. x \in CoType /\ x.pc = "read" /\ x.session = m_Server
        BY <1>0, <1>a, CoroutineType DEF CoStates
      <4> HIDE DEF x
      <4>4. co' = [co EXCEPT ![c] = x]
        BY <4>1 DEF x
      <4>5. co' \in [Coroutines -> CoType] /\ Working'
        BY <1>b, <2>1, <4>2, <4>3, <4>4
      <4>6. chr' = [chr EXCEPT ![m_Server].reading = TRUE]
        BY <1>1, <3>1 DEF Frame
      <4>7. chr' \in [Sessions -> ChrType]
        BY <1>0, <4>2, <4>6, ChrUpdates
      <4> QED BY <4>5, <4>7
    <3>2. CASE ~ReadBegins
      BY <1>0, <1>1, <2>1, <3>2 DEF Frame, Working
    <3> QED BY <3>1, <3>2
  <2> QED BY <1>0, <2>1, <2>2, <2>3, <1>k, TypeUnfoldNext DEF TypeInv
<1>2. CASE CheckAuthenticated
  <2>1. UNCHANGED <<m_Server, sessions, chr, m_Timer, m_Queue, packet, plot, shown, co, net, halted>>
    BY <1>2 DEF CheckAuthenticated, demandVars
  <2>2. gui' = "replace" /\ plot < MaxDemanders
    BY <1>2 DEF CheckAuthenticated
  <2>3. Working'
    BY <1>0, <2>1, <2>2 DEF Working
  <2> QED BY <1>0, <2>1, <2>2, <2>3, <1>k, TypeUnfoldNext DEF TypeInv
<1>3. CASE ReplacePlot
  <2>1. UNCHANGED <<m_Server, sessions, chr, m_Timer, m_Queue, packet, co, net, halted>>
    BY <1>3 DEF ReplacePlot, demandVars
  <2>2. gui' = "frame" /\ plot' = plot + 1 /\ plot < MaxDemanders /\ shown' = <<>>
    BY <1>0, <1>3 DEF ReplacePlot, Working
  <2>3. plot' \in Demanders
    BY <1>0, <2>2 DEF Demanders
  <2>4. Working' /\ shown' \in Seq(Nonces)
    BY <1>0, <2>1, <2>2 DEF Working
  <2> QED BY <1>0, <2>1, <2>2, <2>3, <2>4, <1>k, TypeUnfoldNext DEF TypeInv
<1>12. CASE GenerateKeys
  <2>1. UNCHANGED <<m_Server, sessions, chr, m_Timer, m_Queue, packet, plot, shown, gui, co, net, halted>>
    BY <1>12 DEF GenerateKeys, demandVars
  <2>2. Working'
    BY <1>0, <2>1 DEF Working
  <2> QED BY <1>0, <2>1, <2>2, <1>k, TypeUnfoldNext DEF TypeInv
<1>13. CASE DeleteKeys
  <2>1. UNCHANGED <<m_Server, sessions, chr, m_Timer, m_Queue, packet, gui, co, net, halted>>
    BY <1>13 DEF DeleteKeys, demandVars
  <2>2. gui = "frame" /\ plot' = plot + 1 /\ plot < MaxDemanders /\ shown' = <<>>
    BY <1>13 DEF DeleteKeys
  <2>3. plot' \in Demanders
    BY <1>0, <2>2 DEF Demanders
  <2>4. Working' /\ shown' \in Seq(Nonces)
    BY <1>0, <2>1, <2>2 DEF Working
  <2> QED BY <1>0, <2>1, <2>2, <2>3, <2>4, <1>k, TypeUnfoldNext DEF TypeInv
<1>4. ASSUME NEW c \in Coroutines, CoroutineStep(c) PROVE TypeInv'
  <2>0. /\ co[c] \in CoType /\ co[c].demander \in 0..MaxDemanders
        /\ co[c].session \in 0..MaxSessions
    BY <1>0, <1>4 DEF CoType
  <2>1. CASE SubscriptionRead(c)
    <3>1. UNCHANGED <<m_Server, sessions, m_Timer, m_Queue, packet, plot, shown, gui, net, halted>>
      BY <2>1 DEF SubscriptionRead, demandVars, guiVars
    <3>2. PICK result \in {"subscribed", "notSubscribed"} :
            co' = [co EXCEPT ![c] = Coroutine(result, co[c].demander, 0, None)]
      BY <2>1 DEF SubscriptionRead
    <3> DEFINE x == Coroutine(result, co[c].demander, 0, None)
    <3>3. x \in CoType /\ x.pc = result
      BY <1>a, <2>0, CoroutineType DEF CoStates
    <3>4. co' = [co EXCEPT ![c] = x]
      BY <3>2
    <3> HIDE DEF x
    <3>5. co' \in [Coroutines -> CoType] /\ Working'
      BY <1>4, <1>b, <3>1, <3>3, <3>4
    <3>6. chr' = [chr EXCEPT ![co[c].session].reading = FALSE]
      BY <2>1 DEF SubscriptionRead
    <3>7. chr' \in [Sessions -> ChrType]
      <4>1. co[c].session \in Sessions
        BY <1>0, <2>1 DEF SubscriptionRead, Working
      <4> QED BY <1>0, <3>6, <4>1, ChrUpdates
    <3> QED BY <1>0, <3>1, <3>5, <3>7, <1>k, TypeUnfoldNext DEF TypeInv
  <2>2. CASE DemandRssi(c)
    <3>1. UNCHANGED <<m_Server, sessions, chr, m_Queue, plot, shown, gui, net, halted>>
      BY <2>2 DEF DemandRssi, guiVars
    <3>2. m_Timer' = [m_Timer EXCEPT ![co[c].demander] = 0]
      BY <2>2 DEF DemandRssi
    <3>3. m_Timer' \in [Demanders -> 0..Interval]
      BY <1>0, <1>a, <3>2
    <3>4. CASE ~Demands(c)
      <4>1. co' = [co EXCEPT ![c] = FreeCoroutine] /\ packet' = packet
        BY <2>2, <3>4 DEF DemandRssi, Demands
      <4>2. co' \in [Coroutines -> CoType] /\ Working'
        BY <1>4, <1>b, <3>1, <4>1, FreeType
      <4> QED BY <1>0, <3>1, <3>3, <4>1, <4>2, <1>k, TypeUnfoldNext DEF TypeInv
    <3>5. CASE Demands(c)
      <4>1. PICK n \in Fresh :
              /\ generate_random_block(co[c].demander, n)
              /\ co' = [co EXCEPT ![c] = Coroutine("write", co[c].demander, m_Server, n)]
        BY <2>2, <3>5 DEF DemandRssi, Demands
      <4> DEFINE x == Coroutine("write", co[c].demander, m_Server, n)
      <4>2. n \in Nonces /\ m_Server \in Sessions
        BY <1>0, <3>5 DEF Fresh, Sessions, Demands
      <4>3. x \in CoType /\ x.pc = "write" /\ x.session = m_Server /\ x.nonce = n
        <5>1. "write" \in CoStates /\ m_Server \in 0..MaxSessions
          BY <1>0 DEF CoStates
        <5> QED BY <2>0, <4>2, <5>1, CoroutineType
      <4>4. co' = [co EXCEPT ![c] = x]
        BY <4>1
      <4> HIDE DEF x
      <4>5. co' \in [Coroutines -> CoType] /\ Working'
        BY <1>4, <1>b, <3>1, <4>2, <4>3, <4>4
      <4> DEFINE entry == [state |-> "cached", demander |-> co[c].demander, age |-> 0]
      <4>7. entry \in PacketType
        BY <1>a, <2>0 DEF PacketType, PacketStates
      <4>8. packet' = [packet EXCEPT ![n] = entry]
        BY <4>1 DEF generate_random_block
      <4> HIDE DEF entry
      <4>6. packet' \in [Nonces -> PacketType]
        BY <1>0, <4>2, <4>7, <4>8
      <4> QED BY <1>0, <3>1, <3>3, <4>5, <4>6, <1>k, TypeUnfoldNext DEF TypeInv
    <3> QED BY <3>4, <3>5
  <2>3. CASE DemandWritten(c)
    <3>1. UNCHANGED <<m_Server, sessions, chr, m_Timer, m_Queue, packet, plot, shown, gui, halted>>
      BY <2>3 DEF DemandWritten, demandVars, guiVars
    <3>2. co' = [co EXCEPT ![c] = FreeCoroutine]
      BY <2>3 DEF DemandWritten
    <3>3. co' \in [Coroutines -> CoType] /\ Working'
      BY <1>4, <1>b, <3>1, <3>2, FreeType
    <3>4. co[c].session \in Sessions /\ co[c].nonce \in Nonces
      BY <1>0, <1>4, <2>3 DEF DemandWritten, Working
    <3> DEFINE message == [kind |-> "demand", session |-> co[c].session,
                           nonce |-> co[c].nonce, verifies |-> TRUE]
    <3>6. message \in Messages
      BY <3>4 DEF Messages
    <3>7. net' = net \cup {message}
      BY <2>3 DEF DemandWritten
    <3> HIDE DEF message
    <3>5. net' \subseteq Messages
      BY <1>0, <3>6, <3>7
    <3> QED BY <1>0, <3>1, <3>3, <3>5, <1>k, TypeUnfoldNext DEF TypeInv
  <2>4. CASE DemandUnreachable(c)
    <3>1. UNCHANGED <<sessions, chr, m_Timer, m_Queue, packet, plot, shown, gui, net, halted>>
      BY <2>4 DEF DemandUnreachable, demandVars, guiVars
    <3>2. co' = [co EXCEPT ![c] = FreeCoroutine] /\ m_Server' = 0
      BY <2>4 DEF DemandUnreachable
    <3>3. co' \in [Coroutines -> CoType] /\ Working'
      BY <1>4, <1>b, <3>1, <3>2, FreeType
    <3> QED BY <1>0, <1>a, <3>1, <3>2, <3>3, <1>k, TypeUnfoldNext DEF TypeInv
  <2>5. CASE Subscribe(c)
    <3>1. UNCHANGED <<m_Server, sessions, m_Timer, m_Queue, packet, plot, shown, gui, net, halted>>
      BY <2>5 DEF Subscribe, demandVars, guiVars
    <3> DEFINE x == Coroutine("subscribe", 0, m_Server, None)
    <3>2. m_Server \in Sessions
      BY <1>0, <2>5 DEF Subscribe, Sessions
    <3>3. x \in CoType /\ x.pc = "subscribe" /\ x.session = m_Server
      BY <1>0, <1>a, CoroutineType DEF CoStates
    <3>4. co' = [co EXCEPT ![c] = x]
      BY <2>5 DEF Subscribe
    <3> HIDE DEF x
    <3>5. co' \in [Coroutines -> CoType] /\ Working'
      BY <1>4, <1>b, <3>1, <3>2, <3>3, <3>4
    <3> DEFINE first == [chr EXCEPT ![m_Server].subscribing = TRUE]
    <3>6. first \in [Sessions -> ChrType]
      BY <1>0, <3>2, ChrUpdates
    <3>7. chr' = [first EXCEPT ![m_Server].handler = co[c].demander]
      BY <2>5 DEF Subscribe
    <3> HIDE DEF first
    <3>8. chr' \in [Sessions -> ChrType]
      BY <2>0, <3>6, <3>7 DEF ChrType
    <3> QED BY <1>0, <3>1, <3>5, <3>8, <1>k, TypeUnfoldNext DEF TypeInv
  <2>6. CASE SubscribeSkipped(c)
    <3>1. UNCHANGED <<m_Server, sessions, chr, m_Timer, m_Queue, packet, plot, shown, gui, net, halted>>
      BY <2>6 DEF SubscribeSkipped, demandVars, guiVars
    <3>2. co' = [co EXCEPT ![c] = FreeCoroutine]
      BY <2>6 DEF SubscribeSkipped
    <3>3. co' \in [Coroutines -> CoType] /\ Working'
      BY <1>4, <1>b, <3>1, <3>2, FreeType
    <3> QED BY <1>0, <3>1, <3>3, <1>k, TypeUnfoldNext DEF TypeInv
  <2>7. CASE SubscribeEnds(c)
    <3>1. UNCHANGED <<m_Server, sessions, m_Timer, m_Queue, packet, plot, shown, gui, net, halted>>
      BY <2>7 DEF SubscribeEnds, demandVars, guiVars
    <3>2. co' = [co EXCEPT ![c] = FreeCoroutine]
      BY <2>7 DEF SubscribeEnds
    <3>3. co' \in [Coroutines -> CoType] /\ Working'
      BY <1>4, <1>b, <3>1, <3>2, FreeType
    <3>4. PICK success \in BOOLEAN : chr' = [chr EXCEPT ![co[c].session].notify = @ \/ success]
      BY <2>7 DEF SubscribeEnds
    <3> DEFINE s == co[c].session
               notify == chr[s].notify \/ success
    <3>6. notify \in BOOLEAN
      OBVIOUS
    <3>7. chr' = [chr EXCEPT ![s].notify = notify]
      BY <3>4
    <3>8. s \in Sessions
      BY <1>0, <2>7 DEF SubscribeEnds, Working
    <3> HIDE DEF s, notify
    <3>5. chr' \in [Sessions -> ChrType]
      BY <1>0, <3>6, <3>7, <3>8, ChrUpdates
    <3> QED BY <1>0, <3>1, <3>3, <3>5, <1>k, TypeUnfoldNext DEF TypeInv
  <2> QED BY <1>4, <2>1, <2>2, <2>3, <2>4, <2>5, <2>6, <2>7 DEF CoroutineStep
<1>5. ASSUME NEW m \in net, Answer(m) \/ Damage(m) PROVE TypeInv'
  <2>1. UNCHANGED <<m_Server, sessions, chr, m_Timer, m_Queue, packet, plot, shown, gui, co, halted>>
    BY <1>5 DEF Answer, Damage, demandVars, guiVars
  <2>2. m \in Messages
    BY <1>0
  <2>3. net' \subseteq Messages
    <3>1. [m EXCEPT !.kind = "answer"] \in Messages
      BY <2>2 DEF Messages
    <3>2. [m EXCEPT !.verifies = FALSE] \in Messages
      BY <2>2 DEF Messages
    <3> QED BY <1>0, <1>5, <3>1, <3>2 DEF Answer, Damage
  <2>4. Working'
    BY <1>0, <2>1 DEF Working
  <2> QED BY <1>0, <2>1, <2>3, <2>4, <1>k, TypeUnfoldNext DEF TypeInv
<1>6. ASSUME NEW m \in net, Receive(m) PROVE TypeInv'
  <2>1. UNCHANGED <<m_Server, sessions, chr, m_Timer, plot, shown, gui, co, net, halted>>
    BY <1>6 DEF Receive, guiVars
  <2>2. m.nonce \in Nonces /\ m.session \in Sessions
    BY <1>0 DEF Messages
  <2> DEFINE d == chr[m.session].handler
  <2>3. expected_random_data(d, m.nonce)
    BY <1>6 DEF Receive
  <2>4. packet' \in [Nonces -> PacketType]
    BY <1>0, <2>2, <2>3, ExpectedType
  <2>5. m_Queue' = m_Queue \/ m_Queue' = [m_Queue EXCEPT ![d] = Append(@, m.nonce)]
    BY <1>6 DEF Receive
  <2>8. d \in Demanders
    BY <1>0, <1>6, <2>2 DEF Receive, Deliverable, ChrType, Demanders
  <2> HIDE DEF d
  <2>6. m_Queue' \in [Demanders -> Seq(Nonces)]
    <3>1. Append(m_Queue[d], m.nonce) \in Seq(Nonces)
      BY <1>0, <2>2, <2>8
    <3> QED BY <1>0, <2>5, <2>8, <3>1
  <2>7. Working'
    BY <1>0, <2>1 DEF Working
  <2> QED BY <1>0, <2>1, <2>4, <2>6, <2>7, <1>k, TypeUnfoldNext DEF TypeInv
<1>7. CASE Undefined
  <2>1. UNCHANGED <<m_Server, sessions, chr, m_Timer, m_Queue, packet, plot, shown, gui, co, net>>
    BY <1>7 DEF Undefined, demandVars, guiVars
  <2>2. halted' \in BOOLEAN
    BY <1>7 DEF Undefined
  <2>3. Working'
    BY <1>0, <2>1 DEF Working
  <2> QED BY <1>0, <2>1, <2>2, <2>3, <1>k, TypeUnfoldNext DEF TypeInv
<1>8. CASE GrantAuthentication \/ RevokeAuthentication
  <2>1. UNCHANGED <<chr, m_Timer, m_Queue, packet, plot, shown, gui, co, net, halted>>
    BY <1>8 DEF GrantAuthentication, RevokeAuthentication, demandVars, guiVars
  <2>2. m_Server' \in 0..MaxSessions /\ sessions' \in 0..MaxSessions
    BY <1>0, <1>8 DEF GrantAuthentication, RevokeAuthentication
  <2>3. Working'
    BY <1>0, <2>1 DEF Working
  <2> QED BY <1>0, <2>1, <2>2, <2>3, <1>k, TypeUnfoldNext DEF TypeInv
<1>9. ASSUME NEW s \in Sessions, LinkRestored(s) PROVE TypeInv'
  <2>1. UNCHANGED <<m_Server, sessions, m_Timer, m_Queue, packet, plot, shown, gui, co, net, halted>>
    BY <1>9 DEF LinkRestored, demandVars, guiVars
  <2>2. chr' = [chr EXCEPT ![s].notify = FALSE]
    BY <1>9 DEF LinkRestored
  <2>3. chr' \in [Sessions -> ChrType]
    BY <1>0, <1>9, <2>2, ChrUpdates
  <2>4. Working'
    BY <1>0, <2>1 DEF Working
  <2> QED BY <1>0, <2>1, <2>3, <2>4, <1>k, TypeUnfoldNext DEF TypeInv
<1>10. CASE Tick
  <2>1. UNCHANGED <<m_Server, sessions, chr, m_Queue, plot, shown, gui, co, net, halted>>
    BY <1>10 DEF Tick, guiVars
  <2>2. m_Timer' \in [Demanders -> 0..Interval]
    BY <1>0, <1>10 DEF Tick
  <2>3. packet' \in [Nonces -> PacketType]
    <3> DEFINE older(n) == IF packet[n].age < Window THEN packet[n].age + 1 ELSE Window
    <3>1. \A n \in Nonces : older(n) \in 0..Window
      BY <1>0 DEF PacketType
    <3>2. packet' = [n \in Nonces |-> [packet[n] EXCEPT !.age = older(n)]]
      BY <1>10 DEF Tick
    <3> HIDE DEF older
    <3> QED BY <1>0, <3>1, <3>2 DEF PacketType
  <2>4. Working'
    BY <1>0, <2>1 DEF Working
  <2> QED BY <1>0, <2>1, <2>2, <2>3, <2>4, <1>k, TypeUnfoldNext DEF TypeInv
<1>11. CASE UNCHANGED vars
  <2>1. UNCHANGED <<m_Server, sessions, chr, m_Timer, m_Queue, packet, plot, shown, gui, co, net, halted>>
    BY <1>11 DEF vars, demandVars, guiVars
  <2>2. Working'
    BY <1>0, <2>1 DEF Working
  <2> QED BY <1>0, <2>1, <2>2, <1>k, TypeUnfoldNext DEF TypeInv
<1> QED
  BY <1>1, <1>2, <1>3, <1>4, <1>5, <1>6, <1>7, <1>8, <1>9, <1>10, <1>11, <1>12, <1>13 DEF Next

\* The types hold in every reachable state, whatever the bounds.
THEOREM TypeCorrect == Spec => []TypeOK
<1>1. TypeInv => TypeOK
  BY DEF TypeInv
<1> QED BY TypeInit, TypeStep, <1>1, PTL DEF Spec

-----------------------------------------------------------------------------
\* The semaphores of a characteristic.

Reads(c, s) == co[c].pc = "read" /\ co[c].session = s

LEMMA ReadFlat ==
    ReadSemaphore <=> \A s \in Sessions :
                        /\ chr[s].reading <=> \E c \in Coroutines : Reads(c, s)
                        /\ \A c, k \in Coroutines : Reads(c, s) /\ Reads(k, s) => c = k
BY DEF ReadSemaphore, Reads

LEMMA ReadFlatNext ==
    ReadSemaphore' <=> \A s \in Sessions :
                         /\ chr'[s].reading <=> \E c \in Coroutines : Reads(c, s)'
                         /\ \A c, k \in Coroutines : Reads(c, s)' /\ Reads(k, s)' => c = k
BY DEF ReadSemaphore, Reads

\* A step that neither touches the has_subscribed semaphores nor the coroutines
\* between their two ends keeps ReadSemaphore.
LEMMA ReadKept ==
    ASSUME ReadSemaphore,
           \A s \in Sessions : chr'[s].reading = chr[s].reading,
           \A c \in Coroutines, s \in Sessions : Reads(c, s)' <=> Reads(c, s)
    PROVE  ReadSemaphore'
BY ReadFlat, ReadFlatNext

\* A receiver is stored by whoever has the subscribe semaphore.
ReceiverInv == \A s \in Sessions : chr[s].handler # 0 => chr[s].subscribing

LEMMA ReadInit == Init => ReadSemaphore /\ ReceiverInv
<1> SUFFICES ASSUME Init PROVE ReadSemaphore /\ ReceiverInv
  OBVIOUS
<1>1. \A s \in Sessions : chr[s].reading = FALSE /\ chr[s].handler = 0
  BY DEF Init
<1>2. \A c \in Coroutines : co[c].pc = "free"
  BY FreeType DEF Init
<1> QED BY <1>1, <1>2, ReadFlat DEF Reads, ReceiverInv

\* What a step of coroutine c other than the end of its read does.
LEMMA CoroutineNotReading ==
    ASSUME TypeInv, NEW c \in Coroutines, CoroutineStep(c), ~SubscriptionRead(c)
    PROVE  /\ \E x \in CoType : co' = [co EXCEPT ![c] = x] /\ x.pc # "read"
           /\ co[c].pc # "read"
<1>0. /\ m_Server \in 0..MaxSessions /\ co[c].demander \in 0..MaxDemanders
      /\ 0 \in 0..MaxSessions /\ 0 \in 0..MaxDemanders
  BY TypeUnfold, RssiExchangeAssumption DEF TypeInv, CoType
<1>1. CASE DemandRssi(c)
  <2>1. co[c].pc # "read"
    BY <1>1 DEF DemandRssi
  <2>2. CASE ~Demands(c)
    BY <1>1, <2>1, <2>2, FreeType DEF DemandRssi, Demands
  <2>3. CASE Demands(c)
    <3>1. PICK n \in Fresh : co' = [co EXCEPT ![c] = Coroutine("write", co[c].demander, m_Server, n)]
      BY <1>1, <2>3 DEF DemandRssi, Demands
    <3>2. n \in Nonces \cup {None}
      BY DEF Fresh
    <3> DEFINE x == Coroutine("write", co[c].demander, m_Server, n)
    <3>3. x \in CoType /\ x.pc = "write"
      BY <1>0, <3>2, CoroutineType DEF CoStates
    <3> QED BY <2>1, <3>1, <3>3
  <2> QED BY <2>2, <2>3
<1>2. CASE Subscribe(c)
  <2>1. co[c].pc # "read"
    BY <1>2 DEF Subscribe
  <2> DEFINE x == Coroutine("subscribe", 0, m_Server, None)
  <2>2. x \in CoType /\ x.pc = "subscribe"
    BY <1>0, CoroutineType DEF CoStates
  <2>3. co' = [co EXCEPT ![c] = x]
    BY <1>2 DEF Subscribe
  <2> QED BY <2>1, <2>2, <2>3
<1>3. CASE DemandWritten(c) \/ DemandUnreachable(c) \/ SubscribeSkipped(c) \/ SubscribeEnds(c)
  BY <1>3, FreeType DEF DemandWritten, DemandUnreachable, SubscribeSkipped, SubscribeEnds
<1> QED BY <1>1, <1>2, <1>3 DEF CoroutineStep

LEMMA ReadStep == TypeInv /\ ReadSemaphore /\ [Next]_vars => ReadSemaphore'
<1> SUFFICES ASSUME TypeInv, ReadSemaphore, [Next]_vars PROVE ReadSemaphore'
  OBVIOUS
<1>0. /\ chr \in [Sessions -> ChrType] /\ co \in [Coroutines -> CoType] /\ Working
      /\ m_Server \in 0..MaxSessions /\ plot \in 0..MaxDemanders /\ 0 \in 0..MaxSessions
  BY TypeUnfold, RssiExchangeAssumption DEF TypeInv, Demanders
<1>1. CASE Frame
  <2>1. CASE ReadBegins
    <3>1. PICK c \in Coroutines : /\ co[c].pc = "free"
                                  /\ co' = [co EXCEPT ![c] = Coroutine("read", plot, m_Server, None)]
      BY <1>1, <2>1 DEF Frame
    <3> DEFINE x == Coroutine("read", plot, m_Server, None)
    <3>2. x \in CoType /\ x.pc = "read" /\ x.session = m_Server
      BY <1>0, CoroutineType DEF CoStates
    <3>3. co' = [co EXCEPT ![c] = x]
      BY <3>1
    <3> HIDE DEF x
    <3>4. m_Server \in Sessions /\ ~chr[m_Server].reading
      BY <1>0, <2>1 DEF ReadBegins, Sessions
    <3>5. chr' = [chr EXCEPT ![m_Server].reading = TRUE]
      BY <1>1, <2>1 DEF Frame
    <3>6. \A s \in Sessions : chr'[s].reading = IF s = m_Server THEN TRUE ELSE chr[s].reading
      BY <1>0, <3>4, <3>5 DEF ChrType
    <3>7. \A k \in Coroutines, s \in Sessions :
            Reads(k, s)' <=> (IF k = c THEN s = m_Server ELSE Reads(k, s))
      BY <1>0, <3>2, <3>3 DEF Reads
    <3>8. \A s \in Sessions : ~Reads(c, s)
      BY <3>1 DEF Reads
    <3>9. \A k \in Coroutines : ~Reads(k, m_Server)
      BY <3>4, ReadFlat
    <3>10. \A s \in Sessions :
             /\ chr'[s].reading <=> \E k \in Coroutines : Reads(k, s)'
             /\ \A k, l \in Coroutines : Reads(k, s)' /\ Reads(l, s)' => k = l
      <4> TAKE s \in Sessions
      <4>1. CASE s = m_Server
        BY <3>6, <3>7, <3>9, <4>1
      <4>2. CASE s # m_Server
        <5>1. /\ chr[s].reading <=> \E k \in Coroutines : Reads(k, s)
              /\ \A k, l \in Coroutines : Reads(k, s) /\ Reads(l, s) => k = l
          BY ReadFlat
        <5>2. \A k \in Coroutines : Reads(k, s)' <=> Reads(k, s)
          BY <3>7, <3>8, <4>2
        <5>3. chr'[s].reading = chr[s].reading
          BY <3>6, <4>2
        <5> QED BY <5>1, <5>2, <5>3
      <4> QED BY <4>1, <4>2
    <3> QED BY <3>10, ReadFlatNext
  <2>2. CASE ~ReadBegins
    <3>1. UNCHANGED <<co, chr>>
      BY <1>1, <2>2 DEF Frame
    <3> QED BY <3>1, ReadKept DEF Reads
  <2> QED BY <2>1, <2>2
<1>2. ASSUME NEW c \in Coroutines, CoroutineStep(c) PROVE ReadSemaphore'
  <2>1. CASE SubscriptionRead(c)
    <3>1. PICK result \in {"subscribed", "notSubscribed"} :
            co' = [co EXCEPT ![c] = Coroutine(result, co[c].demander, 0, None)]
      BY <2>1 DEF SubscriptionRead
    <3> DEFINE x == Coroutine(result, co[c].demander, 0, None)
               r == co[c].session
    <3>2. x.pc # "read"
      BY DEF Coroutine
    <3>3. co' = [co EXCEPT ![c] = x]
      BY <3>1
    <3>4. r \in Sessions /\ Reads(c, r)
      BY <1>0, <2>1 DEF SubscriptionRead, Working, Reads
    <3>5. chr' = [chr EXCEPT ![r].reading = FALSE]
      BY <2>1 DEF SubscriptionRead
    <3>9. \A s \in Sessions : Reads(c, s) => s = r
      BY DEF Reads
    <3> HIDE DEF x, r
    <3>6. \A s \in Sessions : chr'[s].reading = IF s = r THEN FALSE ELSE chr[s].reading
      BY <1>0, <3>4, <3>5 DEF ChrType
    <3>7. \A k \in Coroutines, s \in Sessions : Reads(k, s)' <=> k # c /\ Reads(k, s)
      BY <1>0, <3>2, <3>3 DEF Reads
    <3>8. \A s \in Sessions :
            /\ chr'[s].reading <=> \E k \in Coroutines : Reads(k, s)'
            /\ \A k, l \in Coroutines : Reads(k, s)' /\ Reads(l, s)' => k = l
      <4> TAKE s \in Sessions
      <4>1. CASE s = r
        <5>1. Reads(c, s) /\ \A k \in Coroutines : Reads(k, s) => k = c
          BY <3>4, <4>1, ReadFlat
        <5>2. \A k \in Coroutines : ~Reads(k, s)'
          BY <3>7, <5>1
        <5>3. ~chr'[s].reading
          BY <3>6, <4>1
        <5> QED BY <5>2, <5>3
      <4>2. CASE s # r
        <5>1. /\ chr[s].reading <=> \E k \in Coroutines : Reads(k, s)
              /\ \A k, l \in Coroutines : Reads(k, s) /\ Reads(l, s) => k = l
          BY ReadFlat
        <5>2. \A k \in Coroutines : Reads(k, s)' <=> Reads(k, s)
          BY <3>7, <3>9, <4>2
        <5>3. chr'[s].reading = chr[s].reading
          BY <3>6, <4>2
        <5> QED BY <5>1, <5>2, <5>3
      <4> QED BY <4>1, <4>2
    <3> QED BY <3>8, ReadFlatNext
  <2>2. CASE ~SubscriptionRead(c)
    <3>1. PICK x \in CoType : co' = [co EXCEPT ![c] = x] /\ x.pc # "read"
      BY <1>2, <2>2, CoroutineNotReading
    <3>2. \A k \in Coroutines, s \in Sessions : Reads(k, s)' <=> Reads(k, s)
      BY <1>0, <1>2, <2>2, <3>1, CoroutineNotReading DEF Reads
    <3>3. \A s \in Sessions : chr'[s].reading = chr[s].reading
      <4>1. CASE Subscribe(c)
        <5> DEFINE first == [chr EXCEPT ![m_Server].subscribing = TRUE]
        <5>1. first \in [Sessions -> ChrType] /\ \A s \in Sessions : first[s].reading = chr[s].reading
          BY <1>0 DEF ChrType
        <5>2. chr' = [first EXCEPT ![m_Server].handler = co[c].demander]
          BY <4>1 DEF Subscribe
        <5> HIDE DEF first
        <5> QED BY <5>1, <5>2 DEF ChrType
      <4>2. CASE SubscribeEnds(c)
        BY <1>0, <4>2 DEF SubscribeEnds, ChrType
      <4>3. CASE ~Subscribe(c) /\ ~SubscribeEnds(c)
        <5>1. chr' = chr
          BY <1>2, <2>2, <4>3
             DEF CoroutineStep, DemandRssi, DemandWritten, DemandUnreachable, SubscribeSkipped
        <5> QED BY <5>1
      <4> QED BY <4>1, <4>2, <4>3
    <3> QED BY <3>2, <3>3, ReadKept
  <2> QED BY <2>1, <2>2
<1>3. ASSUME NEW s \in Sessions, LinkRestored(s) PROVE ReadSemaphore'
  <2>1. co' = co /\ chr' = [chr EXCEPT ![s].notify = FALSE]
    BY <1>3 DEF LinkRestored
  <2>2. \A r \in Sessions : chr'[r].reading = chr[r].reading
    BY <1>0, <2>1 DEF ChrType
  <2> QED BY <2>1, <2>2, ReadKept DEF Reads
<1>4. CASE UNCHANGED <<co, chr>>
  BY <1>4, ReadKept DEF Reads
<1>5. \/ Frame \/ (\E c \in Coroutines : CoroutineStep(c)) \/ (\E s \in Sessions : LinkRestored(s))
      \/ UNCHANGED <<co, chr>>
  BY DEF Next, vars, CheckAuthenticated, ReplacePlot, GenerateKeys, DeleteKeys, Answer, Damage, Receive, Undefined,
         GrantAuthentication, RevokeAuthentication, Tick
<1> QED BY <1>1, <1>2, <1>3, <1>4, <1>5

\* Reads of the subscription descriptor never overlap, and the semaphore is
\* given back, for any number of coroutines.
THEOREM ReadSemaphoreHolds == Spec => []ReadSemaphore
BY TypeInit, TypeStep, ReadInit, ReadStep, PTL DEF Spec

-----------------------------------------------------------------------------
\* The receiver.

\* What a step does to the receiver of a characteristic: nothing, or it is the
\* first to take the subscribe semaphore.
LEMMA ReceiverChange ==
    ASSUME TypeInv, [Next]_vars, NEW s \in Sessions
    PROVE  \/ /\ chr'[s].handler = chr[s].handler
              /\ chr'[s].subscribing = chr[s].subscribing
           \/ /\ ~chr[s].subscribing
              /\ chr'[s].subscribing
              /\ \E c \in Coroutines : chr'[s].handler = co[c].demander
<1>0. /\ chr \in [Sessions -> ChrType] /\ co \in [Coroutines -> CoType]
      /\ m_Server \in 0..MaxSessions
  BY TypeUnfold DEF TypeInv
<1>1. CASE Frame
  <2>1. chr' = chr \/ chr' = [chr EXCEPT ![m_Server].reading = TRUE]
    BY <1>1 DEF Frame
  <2> QED BY <1>0, <2>1 DEF ChrType
<1>2. ASSUME NEW c \in Coroutines, SubscriptionRead(c)
      PROVE  chr'[s].handler = chr[s].handler /\ chr'[s].subscribing = chr[s].subscribing
  <2>1. chr' = [chr EXCEPT ![co[c].session].reading = FALSE]
    BY <1>2 DEF SubscriptionRead
  <2> QED BY <1>0, <2>1 DEF ChrType
<1>3. ASSUME NEW c \in Coroutines, Subscribe(c)
      PROVE  \/ /\ chr'[s].handler = chr[s].handler
                /\ chr'[s].subscribing = chr[s].subscribing
             \/ /\ ~chr[s].subscribing
                /\ chr'[s].subscribing
                /\ chr'[s].handler = co[c].demander
  <2>1. m_Server \in Sessions /\ ~chr[m_Server].subscribing
    BY <1>0, <1>3 DEF Subscribe, Sessions
  <2> DEFINE first == [chr EXCEPT ![m_Server].subscribing = TRUE]
  <2>2. /\ first \in [Sessions -> ChrType]
        /\ first[s].handler = chr[s].handler
        /\ first[s].subscribing = IF s = m_Server THEN TRUE ELSE chr[s].subscribing
    BY <1>0, <2>1 DEF ChrType
  <2>3. chr' = [first EXCEPT ![m_Server].handler = co[c].demander]
    BY <1>3 DEF Subscribe
  <2> HIDE DEF first
  <2>4. /\ chr'[s].subscribing = first[s].subscribing
        /\ chr'[s].handler = IF s = m_Server THEN co[c].demander ELSE first[s].handler
    BY <1>0, <2>1, <2>2, <2>3 DEF ChrType
  <2> QED BY <2>1, <2>2, <2>4
<1>4. ASSUME NEW c \in Coroutines, SubscribeEnds(c)
      PROVE  chr'[s].handler = chr[s].handler /\ chr'[s].subscribing = chr[s].subscribing
  <2>1. PICK success \in BOOLEAN : chr' = [chr EXCEPT ![co[c].session].notify = @ \/ success]
    BY <1>4 DEF SubscribeEnds
  <2> QED BY <1>0, <2>1 DEF ChrType
<1>5. ASSUME NEW r \in Sessions, LinkRestored(r)
      PROVE  chr'[s].handler = chr[s].handler /\ chr'[s].subscribing = chr[s].subscribing
  <2>1. chr' = [chr EXCEPT ![r].notify = FALSE]
    BY <1>5 DEF LinkRestored
  <2> QED BY <1>0, <2>1 DEF ChrType
<1>6. \/ Frame \/ chr' = chr \/ \E r \in Sessions : LinkRestored(r)
      \/ \E c \in Coroutines : SubscriptionRead(c) \/ Subscribe(c) \/ SubscribeEnds(c)
  BY DEF Next, vars, CheckAuthenticated, ReplacePlot, GenerateKeys, DeleteKeys, CoroutineStep, DemandRssi, DemandWritten,
         DemandUnreachable, SubscribeSkipped, Answer, Damage, Receive, Undefined,
         GrantAuthentication, RevokeAuthentication, Tick
<1> QED BY <1>1, <1>2, <1>3, <1>4, <1>5, <1>6

\* A registered receiver is never replaced: the semaphore it was stored under is
\* never given back.
THEOREM ReceiverNeverReplaced == Spec => ReceiverStable
<1> DEFINE Stable == \A s \in Sessions : chr[s].handler # 0 => chr'[s].handler = chr[s].handler
<1>1. TypeInv /\ ReceiverInv /\ [Next]_vars => ReceiverInv'
  BY ReceiverChange DEF ReceiverInv
<1>2. TypeInv /\ ReceiverInv /\ [Next]_vars => [Stable]_vars
  BY ReceiverChange DEF ReceiverInv
<1>3. ReceiverStable <=> [][Stable]_vars
  BY PTL DEF ReceiverStable
<1> HIDE DEF Stable
<1> QED BY TypeInit, TypeStep, ReadInit, <1>1, <1>2, <1>3, PTL DEF Spec

-----------------------------------------------------------------------------
\* The refinement of FreshAnswers.

\* No entry of a cache, coroutine, receiver or queue is of a demander that is
\* yet to be made: a new plot starts with an empty queue and no open demands.
NoneAhead ==
    /\ \A n \in Nonces : packet[n].demander <= plot
    /\ \A c \in Coroutines : co[c].demander <= plot
    /\ \A s \in Sessions : chr[s].handler <= plot
    /\ \A d \in Demanders : d > plot => m_Queue[d] = <<>>

Open == {n \in Nonces : packet[n].state = "cached" /\ packet[n].demander = plot}
Age == [n \in Nonces |-> packet[n].age]

LEMMA NoneAheadInit == Init => NoneAhead
<1> SUFFICES ASSUME Init PROVE NoneAhead
  OBVIOUS
<1>1. plot = 1 /\ \A n \in Nonces : packet[n].demander = 0
  BY DEF Init
<1>2. \A c \in Coroutines : co[c].demander = 0
  BY FreeType DEF Init
<1>3. \A s \in Sessions : chr[s].handler = 0
  BY DEF Init
<1>4. \A d \in Demanders : m_Queue[d] = <<>>
  BY DEF Init
<1> QED BY <1>1, <1>2, <1>3, <1>4 DEF NoneAhead

\* What a step does to the coroutines' demanders: they keep theirs, drop it or
\* take the plot's.
LEMMA CoroutineDemander ==
    ASSUME TypeInv, NoneAhead, [Next]_vars
    PROVE  \A c \in Coroutines : co'[c].demander <= plot
<1>0. /\ co \in [Coroutines -> CoType] /\ m_Server \in 0..MaxSessions
      /\ plot \in 1..MaxDemanders /\ 0 \in 0..MaxSessions /\ 0 \in 0..MaxDemanders
      /\ plot \in 0..MaxDemanders
      /\ \A c \in Coroutines : co[c].demander <= plot /\ co[c].demander \in 0..MaxDemanders
  BY TypeUnfold, RssiExchangeAssumption DEF TypeInv, NoneAhead, Demanders, CoType
<1>1. ASSUME NEW c \in Coroutines, NEW x \in CoType, x.demander <= plot,
             co' = [co EXCEPT ![c] = x]
      PROVE  \A k \in Coroutines : co'[k].demander <= plot
  BY <1>0, <1>1
<1>2. CASE Frame
  <2>1. CASE ReadBegins
    <3>1. PICK c \in Coroutines : co' = [co EXCEPT ![c] = Coroutine("read", plot, m_Server, None)]
      BY <1>2, <2>1 DEF Frame
    <3> DEFINE x == Coroutine("read", plot, m_Server, None)
    <3>2. x \in CoType /\ x.demander = plot
      BY <1>0, CoroutineType DEF CoStates
    <3>3. co' = [co EXCEPT ![c] = x]
      BY <3>1
    <3> HIDE DEF x
    <3> QED BY <1>0, <1>1, <3>2, <3>3
  <2>2. CASE ~ReadBegins
    BY <1>0, <1>2, <2>2 DEF Frame
  <2> QED BY <2>1, <2>2
<1>3. ASSUME NEW c \in Coroutines, CoroutineStep(c)
      PROVE  \A k \in Coroutines : co'[k].demander <= plot
  <2>1. CASE SubscriptionRead(c)
    <3>1. PICK result \in {"subscribed", "notSubscribed"} :
            co' = [co EXCEPT ![c] = Coroutine(result, co[c].demander, 0, None)]
      BY <2>1 DEF SubscriptionRead
    <3> DEFINE x == Coroutine(result, co[c].demander, 0, None)
    <3>2. x \in CoType /\ x.demander = co[c].demander
      BY <1>0, CoroutineType DEF CoStates
    <3>3. co' = [co EXCEPT ![c] = x]
      BY <3>1
    <3> HIDE DEF x
    <3> QED BY <1>0, <1>1, <3>2, <3>3
  <2>2. CASE DemandRssi(c) /\ Demands(c)
    <3>1. PICK n \in Fresh : co' = [co EXCEPT ![c] = Coroutine("write", co[c].demander, m_Server, n)]
      BY <2>2 DEF DemandRssi, Demands
    <3> DEFINE x == Coroutine("write", co[c].demander, m_Server, n)
    <3>2. n \in Nonces \cup {None}
      BY DEF Fresh
    <3>3. x \in CoType /\ x.demander = co[c].demander
      BY <1>0, <3>2, CoroutineType DEF CoStates
    <3>4. co' = [co EXCEPT ![c] = x]
      BY <3>1
    <3> HIDE DEF x
    <3> QED BY <1>0, <1>1, <3>3, <3>4
  <2>3. CASE Subscribe(c)
    <3> DEFINE x == Coroutine("subscribe", 0, m_Server, None)
    <3>1. x \in CoType /\ x.demander <= plot
      BY <1>0, CoroutineType DEF CoStates
    <3>2. co' = [co EXCEPT ![c] = x]
      BY <2>3 DEF Subscribe
    <3> HIDE DEF x
    <3> QED BY <1>1, <3>1, <3>2
  <2>4. CASE co' = [co EXCEPT ![c] = FreeCoroutine]
    BY <1>0, <1>1, <2>4, FreeType
  <2>5. \/ SubscriptionRead(c) \/ (DemandRssi(c) /\ Demands(c)) \/ Subscribe(c)
        \/ co' = [co EXCEPT ![c] = FreeCoroutine]
    BY <1>3 DEF Demands, CoroutineStep, DemandRssi, DemandWritten, DemandUnreachable, SubscribeSkipped,
                SubscribeEnds
  <2> QED BY <2>1, <2>2, <2>3, <2>4, <2>5
<1>4. \/ Frame \/ co' = co \/ \E c \in Coroutines : CoroutineStep(c)
  BY DEF Next, vars, CheckAuthenticated, ReplacePlot, GenerateKeys, DeleteKeys, Answer, Damage, Receive, Undefined,
         GrantAuthentication, RevokeAuthentication, LinkRestored, Tick
<1> QED BY <1>0, <1>2, <1>3, <1>4

\* No receiver is of a demander that is yet to be made.
LEMMA ReceiverDemander ==
    ASSUME TypeInv, NoneAhead, [Next]_vars
    PROVE  \A s \in Sessions : chr'[s].handler <= plot
BY ReceiverChange DEF NoneAhead

Used == Nonces \ Fresh

\* The steps of FreshAnswers in terms of this module.
LEMMA AnswersUnfold ==
    /\ \A n : Answers!Issue(n) <=> /\ n \notin Used
                                   /\ Used' = Used \cup {n}
                                   /\ Open' = Open \cup {n}
                                   /\ Age' = [Age EXCEPT ![n] = 0]
                                   /\ m_Queue[plot]' = m_Queue[plot]
                                   /\ shown' = shown
    /\ \A n : Answers!IssueElsewhere(n) <=> /\ n \notin Used
                                            /\ Used' = Used \cup {n}
                                            /\ Age' = [Age EXCEPT ![n] = 0]
                                            /\ Open' = Open
                                            /\ m_Queue[plot]' = m_Queue[plot]
                                            /\ shown' = shown
    /\ \A n : Answers!Take(n) <=> /\ n \in Open
                                  /\ Age[n] < Window
                                  /\ Open' \in SUBSET (Open \ {n})
                                  /\ m_Queue[plot]' = Append(m_Queue[plot], n)
                                  /\ Used' = Used
                                  /\ Age' = Age
                                  /\ shown' = shown
    /\ Answers!GiveUp <=> /\ Open' \in SUBSET Open
                          /\ Used' = Used
                          /\ Age' = Age
                          /\ m_Queue[plot]' = m_Queue[plot]
                          /\ shown' = shown
    /\ Answers!Show <=> /\ shown' = shown \o m_Queue[plot]
                        /\ m_Queue[plot]' = <<>>
                        /\ Used' = Used
                        /\ Open' = Open
                        /\ Age' = Age
    /\ Answers!NewPlot <=> /\ Open' = {}
                           /\ m_Queue[plot]' = <<>>
                           /\ shown' = <<>>
                           /\ Used' = Used
                           /\ Age' = Age
    /\ Answers!Pass <=> /\ Age' = [n \in Nonces |-> IF Age[n] < Window THEN Age[n] + 1 ELSE Window]
                        /\ Used' = Used
                        /\ Open' = Open
                        /\ m_Queue[plot]' = m_Queue[plot]
                        /\ shown' = shown
    /\ UNCHANGED Answers!vars <=> /\ Used' = Used
                                  /\ Open' = Open
                                  /\ Age' = Age
                                  /\ m_Queue[plot]' = m_Queue[plot]
                                  /\ shown' = shown
BY DEF Answers!Issue, Answers!IssueElsewhere, Answers!Take, Answers!GiveUp, Answers!Show,
       Answers!NewPlot, Answers!Pass, Answers!vars, Used, Open, Age

LEMMA AnswersInit == Init => Answers!Init
<1> SUFFICES ASSUME Init PROVE Answers!Init
  OBVIOUS
<1>1. plot \in Demanders
  BY TypeInit, TypeUnfold DEF TypeInv
<1>2. packet = [n \in Nonces |-> [state |-> "new", demander |-> 0, age |-> Window]]
  BY DEF Init
<1>3. Used = {} /\ Open = {} /\ Age = [n \in Nonces |-> Window]
  BY <1>2 DEF Used, Fresh, Open, Age
<1>4. m_Queue[plot] = <<>> /\ shown = <<>>
  BY <1>1 DEF Init
<1> QED BY <1>3, <1>4 DEF Answers!Init, Used, Open, Age

\* What remains of NoneAhead when the plot stays: entries and queues.
LEMMA NoneAheadKept ==
    ASSUME TypeInv, NoneAhead, [Next]_vars, plot' = plot,
           \A n \in Nonces : packet'[n].demander <= plot,
           \A d \in Demanders : d > plot => m_Queue'[d] = m_Queue[d]
    PROVE  NoneAhead'
<1>1. \A c \in Coroutines : co'[c].demander <= plot
  BY CoroutineDemander
<1>2. \A s \in Sessions : chr'[s].handler <= plot
  BY ReceiverDemander
<1>3. \A d \in Demanders : d > plot => m_Queue'[d] = <<>>
  BY DEF NoneAhead
<1> QED BY <1>1, <1>2, <1>3 DEF NoneAhead

\* Every step of the exchange is one of FreshAnswers or changes nothing there.
LEMMA AnswersStep ==
    TypeInv /\ NoneAhead /\ [Next]_vars
    => NoneAhead' /\ [Answers!Next]_(Answers!vars)
<1> SUFFICES ASSUME TypeInv, NoneAhead, [Next]_vars
             PROVE  NoneAhead' /\ [Answers!Next]_(Answers!vars)
  OBVIOUS
<1>0. /\ chr \in [Sessions -> ChrType] /\ co \in [Coroutines -> CoType]
      /\ packet \in [Nonces -> PacketType]
      /\ m_Queue \in [Demanders -> Seq(Nonces)]
      /\ plot \in Demanders /\ plot \in 1..MaxDemanders /\ net \subseteq Messages
  BY TypeUnfold DEF TypeInv, Demanders
<1>1. ASSUME NEW n \in Nonces, Answers!Issue(n) \/ Answers!IssueElsewhere(n) \/ Answers!Take(n)
      PROVE  Answers!Next
  BY <1>1 DEF Answers!Next
<1>2. ASSUME Answers!GiveUp \/ Answers!Show \/ Answers!NewPlot \/ Answers!Pass
      PROVE  Answers!Next
  BY <1>2 DEF Answers!Next
<1>3. CASE Frame
  <2>1. UNCHANGED <<packet, plot>>
    BY <1>3 DEF Frame
  <2>2. m_Queue' = [m_Queue EXCEPT ![plot] = <<>>] /\ shown' = shown \o m_Queue[plot]
    BY <1>3 DEF Frame, Drain
  <2>3. m_Queue[plot]' = <<>>
    BY <1>0, <2>1, <2>2
  <2>4. Used' = Used /\ Open' = Open /\ Age' = Age
    BY <2>1 DEF Used, Fresh, Open, Age
  <2>5. Answers!Show
    BY <2>2, <2>3, <2>4, AnswersUnfold
  <2>6. NoneAhead'
    <3>1. \A d \in Demanders : d > plot => m_Queue'[d] = m_Queue[d]
      BY <1>0, <2>2
    <3>2. \A n \in Nonces : packet'[n].demander <= plot
      BY <2>1 DEF NoneAhead
    <3> QED BY <2>1, <3>1, <3>2, NoneAheadKept
  <2> QED BY <1>2, <2>5, <2>6
<1>4. CASE ReplacePlot \/ DeleteKeys
  <2>1. UNCHANGED <<chr, m_Queue, packet, co>>
    BY <1>4 DEF ReplacePlot, DeleteKeys, demandVars
  <2>2. plot' = plot + 1 /\ shown' = <<>> /\ plot' \in Demanders
    <3>1. plot < MaxDemanders /\ plot' = plot + 1 /\ shown' = <<>>
      BY <1>4 DEF ReplacePlot, DeleteKeys, TypeInv, Working
    <3> QED BY <1>0, <3>1, RssiExchangeAssumption DEF Demanders
  <2>3. NoneAhead'
    <3>1. plot \in Nat /\ plot' = plot + 1
      BY <1>0, <2>2
    <3>2. \A n \in Nonces : packet[n].demander \in Nat
      BY <1>0 DEF PacketType
    <3>3. \A c \in Coroutines : co[c].demander \in Nat
      BY <1>0 DEF CoType
    <3>4. \A s \in Sessions : chr[s].handler \in Nat
      BY <1>0 DEF ChrType
    <3>5. \A d \in Demanders : d \in Nat
      BY DEF Demanders
    <3>6. /\ \A n \in Nonces : packet[n].demander <= plot + 1
          /\ \A c \in Coroutines : co[c].demander <= plot + 1
          /\ \A s \in Sessions : chr[s].handler <= plot + 1
          /\ \A d \in Demanders : d > plot + 1 => m_Queue[d] = <<>>
      BY <3>1, <3>2, <3>3, <3>4, <3>5 DEF NoneAhead
    <3> QED BY <2>1, <3>1, <3>6 DEF NoneAhead
  <2>4. m_Queue[plot]' = <<>>
    BY <1>0, <2>1, <2>2 DEF NoneAhead
  <2>5. \A n \in Nonces : packet[n].demander # plot + 1
    BY <1>0 DEF PacketType, NoneAhead
  <2>6. Open' = {}
    BY <2>1, <2>2, <2>5 DEF Open
  <2>7. Used' = Used /\ Age' = Age
    BY <2>1 DEF Used, Fresh, Age
  <2>8. Answers!NewPlot
    BY <2>2, <2>4, <2>6, <2>7, AnswersUnfold
  <2> QED BY <1>2, <2>3, <2>8
<1>5. ASSUME NEW c \in Coroutines, DemandRssi(c), Demands(c)
      PROVE  NoneAhead' /\ [Answers!Next]_(Answers!vars)
  <2> DEFINE d == co[c].demander
             entry == [state |-> "cached", demander |-> d, age |-> 0]
  <2>1. UNCHANGED <<m_Queue, plot, shown>>
    BY <1>5 DEF DemandRssi, guiVars
  <2>2. PICK n \in Fresh : packet' = [packet EXCEPT ![n] = entry]
    BY <1>5 DEF DemandRssi, Demands, generate_random_block
  <2>3. n \in Nonces /\ packet[n].state = "new"
    BY DEF Fresh
  <2>4. d <= plot
    BY DEF NoneAhead
  <2>10. entry.state = "cached" /\ entry.demander = d /\ entry.age = 0
    OBVIOUS
  <2> HIDE DEF d, entry
  <2>5. \A k \in Nonces : packet'[k] = IF k = n THEN entry ELSE packet[k]
    BY <1>0, <2>2
  <2>6. n \notin Used /\ Used' = Used \cup {n}
    BY <2>3, <2>5, <2>10 DEF Used, Fresh
  <2>7. Age' = [Age EXCEPT ![n] = 0]
    BY <2>3, <2>5, <2>10 DEF Age
  <2>8. NoneAhead'
    <3>1. \A k \in Nonces : packet'[k].demander <= plot
      BY <2>4, <2>5, <2>10 DEF NoneAhead
    <3> QED BY <2>1, <3>1, NoneAheadKept
  <2>9. m_Queue[plot]' = m_Queue[plot]
    BY <2>1
  <2>11. CASE d = plot
    <3>1. Open' = Open \cup {n}
      BY <2>1, <2>3, <2>5, <2>10, <2>11 DEF Open
    <3>2. Answers!Issue(n)
      BY <2>1, <2>6, <2>7, <2>9, <3>1, AnswersUnfold
    <3> QED BY <1>1, <2>3, <2>8, <3>2
  <2>12. CASE d # plot
    <3>1. Open' = Open
      BY <2>1, <2>3, <2>5, <2>10, <2>12 DEF Open
    <3>2. Answers!IssueElsewhere(n)
      BY <2>1, <2>6, <2>7, <2>9, <3>1, AnswersUnfold
    <3> QED BY <1>1, <2>3, <2>8, <3>2
  <2> QED BY <2>11, <2>12
<1>6. ASSUME NEW m \in net, Receive(m)
      PROVE  NoneAhead' /\ [Answers!Next]_(Answers!vars)
  <2> DEFINE d == chr[m.session].handler
             n == m.nonce
  <2>1. UNCHANGED <<plot, shown>>
    BY <1>6 DEF Receive, guiVars
  <2>2. n \in Nonces /\ m.session \in Sessions
    BY <1>0 DEF Messages
  <2>3. expected_random_data(d, n)
    BY <1>6 DEF Receive
  <2>4. d <= plot /\ d \in Nat /\ d # 0 /\ d \in Demanders
    BY <1>0, <1>6, <2>2 DEF NoneAhead, Receive, Deliverable, ChrType, Demanders
  <2>5. m_Queue' = IF Expected(d, n) /\ m.verifies
                   THEN [m_Queue EXCEPT ![d] = Append(@, n)]
                   ELSE m_Queue
    BY <1>6 DEF Receive
  <2> HIDE DEF d, n
  <2>6. \A k \in Nonces :
          /\ packet'[k].demander = packet[k].demander
          /\ packet'[k].age = packet[k].age
          /\ \/ packet'[k].state = packet[k].state
             \/ /\ packet'[k].state \in {"answered", "removed"}
                /\ packet[k].state \in {"cached", "answered"}
    BY <1>0, <2>2, <2>3, ExpectedType
  <2>7. Used' = Used
    BY <2>6 DEF Used, Fresh
  <2>8. Age' = Age
    BY <2>6 DEF Age
  <2>9. Open' \subseteq Open
    BY <2>1, <2>6 DEF Open
  <2>10. NoneAhead'
    <3>1. \A k \in Nonces : packet'[k].demander <= plot
      BY <2>6 DEF NoneAhead
    <3>2. \A e \in Demanders : e > plot => m_Queue'[e] = m_Queue[e]
      <4>1. \A e \in Demanders : e > plot => e # d
        BY <1>0, <2>4 DEF Demanders
      <4> QED BY <1>0, <2>5, <4>1
    <3> QED BY <2>1, <3>1, <3>2, NoneAheadKept
  <2>11. CASE Expected(d, n) /\ m.verifies /\ d = plot
    <3>1. m_Queue[plot]' = Append(m_Queue[plot], n)
      BY <1>0, <2>1, <2>5, <2>11
    <3>2. n \in Open /\ Age[n] < Window
      <4>1. packet[n].demander = plot /\ packet[n].state = "cached" /\ ~(packet[n].age >= Window)
        BY <2>2, <2>11 DEF Expected, Outdated
      <4>2. packet[n].age \in Nat /\ Window \in Nat
        BY <1>0, <2>2, RssiExchangeAssumption DEF PacketType
      <4> QED BY <2>2, <4>1, <4>2 DEF Open, Age
    <3>3. packet'[n].state = "answered"
      BY <1>0, <2>2, <2>3, <2>11, ExpectedType
    <3>4. Open' \in SUBSET (Open \ {n})
      BY <2>9, <3>3 DEF Open
    <3>5. Answers!Take(n)
      BY <2>1, <2>7, <2>8, <3>1, <3>2, <3>4, AnswersUnfold
    <3> QED BY <1>1, <2>2, <2>10, <3>5
  <2>12. CASE ~(Expected(d, n) /\ m.verifies /\ d = plot)
    <3>1. m_Queue[plot]' = m_Queue[plot]
      BY <1>0, <2>1, <2>5, <2>12
    <3>2. Answers!GiveUp
      BY <2>1, <2>7, <2>8, <2>9, <3>1, AnswersUnfold
    <3> QED BY <1>2, <2>10, <3>2
  <2> QED BY <2>11, <2>12
<1>7. CASE Tick
  <2> DEFINE older(n) == IF packet[n].age < Window THEN packet[n].age + 1 ELSE Window
  <2>1. UNCHANGED <<m_Queue, plot, shown>>
    BY <1>7 DEF Tick, guiVars
  <2>2. packet' = [n \in Nonces |-> [packet[n] EXCEPT !.age = older(n)]]
    BY <1>7 DEF Tick
  <2>6. \A n \in Nonces : older(n) = IF Age[n] < Window THEN Age[n] + 1 ELSE Window
    BY DEF Age
  <2> HIDE DEF older
  <2>3. \A n \in Nonces : /\ packet'[n].state = packet[n].state
                          /\ packet'[n].demander = packet[n].demander
                          /\ packet'[n].age = older(n)
    BY <1>0, <2>2 DEF PacketType
  <2>4. Used' = Used /\ Open' = Open
    BY <2>1, <2>3 DEF Used, Fresh, Open
  <2>5. Age' = [n \in Nonces |-> IF Age[n] < Window THEN Age[n] + 1 ELSE Window]
    <3>1. Age' = [n \in Nonces |-> older(n)]
      BY <2>3 DEF Age
    <3> QED BY <2>6, <3>1
  <2>7. m_Queue[plot]' = m_Queue[plot]
    BY <2>1
  <2>8. Answers!Pass
    BY <2>1, <2>4, <2>5, <2>7, AnswersUnfold
  <2>9. NoneAhead'
    BY <2>1, <2>3, NoneAheadKept DEF NoneAhead
  <2> QED BY <1>2, <2>8, <2>9
<1>8. CASE UNCHANGED <<m_Queue, packet, plot, shown>>
  <2>1. Used' = Used /\ Open' = Open /\ Age' = Age /\ m_Queue[plot]' = m_Queue[plot]
    BY <1>8 DEF Used, Fresh, Open, Age
  <2>2. UNCHANGED Answers!vars
    BY <1>8, <2>1, AnswersUnfold
  <2>3. NoneAhead'
    BY <1>8, NoneAheadKept DEF NoneAhead
  <2> QED BY <2>2, <2>3
<1>9. \/ Frame \/ ReplacePlot \/ DeleteKeys \/ (\E m \in net : Receive(m)) \/ Tick
      \/ (\E c \in Coroutines : DemandRssi(c) /\ Demands(c))
      \/ UNCHANGED <<m_Queue, packet, plot, shown>>
  <2>1. ASSUME NEW c \in Coroutines, CoroutineStep(c)
        PROVE  \/ DemandRssi(c) /\ Demands(c)
               \/ UNCHANGED <<m_Queue, packet, plot, shown>>
    BY <2>1 DEF Demands, CoroutineStep, SubscriptionRead, DemandRssi, DemandWritten, DemandUnreachable,
                Subscribe, SubscribeSkipped, SubscribeEnds, demandVars, guiVars
  <2>2. \/ Frame \/ ReplacePlot \/ DeleteKeys \/ (\E m \in net : Receive(m)) \/ Tick
        \/ (\E c \in Coroutines : CoroutineStep(c))
        \/ UNCHANGED <<m_Queue, packet, plot, shown>>
    BY DEF Next, vars, CheckAuthenticated, GenerateKeys, Answer, Damage, Undefined, GrantAuthentication,
           RevokeAuthentication, LinkRestored, demandVars, guiVars
  <2> QED BY <2>1, <2>2
<1> QED BY <1>3, <1>4, <1>5, <1>6, <1>7, <1>8, <1>9

\* The exchange implements FreshAnswers: for any number of demands, coroutines,
\* plots and servers the plot shows fresh answers only, each once, in order.
THEOREM AnswersAreFreshAlways == Spec => AnswersAreFresh
BY TypeInit, TypeStep, NoneAheadInit, AnswersInit, AnswersStep, PTL
   DEF Spec, AnswersAreFresh, Answers!Spec

-----------------------------------------------------------------------------
\* Answers are shown once.

\* With the demands u drawn and o open, the answers in q that wait and in s that
\* were shown are all different, and their demands are not open any more.
Once(u, o, q, s) ==
    /\ o \subseteq u
    /\ \A i \in 1..Len(s) : s[i] \in u /\ s[i] \notin o
    /\ \A i \in 1..Len(q) : q[i] \in u /\ q[i] \notin o
    /\ \A i, j \in 1..Len(s) : s[i] = s[j] => i = j
    /\ \A i, j \in 1..Len(q) : q[i] = q[j] => i = j
    /\ \A i \in 1..Len(s), j \in 1..Len(q) : s[i] # q[j]

OnceInv == Once(Used, Open, m_Queue[plot], shown)

\* A demand that was not drawn before has no answer yet.
LEMMA OnceKept ==
    ASSUME NEW u, NEW o, NEW q, NEW s, Once(u, o, q, s),
           NEW v, NEW w, u \subseteq v, w \subseteq v, w \subseteq o \cup (v \ u)
    PROVE  Once(v, w, q, s)
BY DEF Once

\* An answer is to an open demand, which it closes.
LEMMA OnceTaken ==
    ASSUME NEW u, NEW o, NEW q \in Seq(Nonces), NEW s, Once(u, o, q, s),
           NEW n \in Nonces, n \in o, NEW w, w \subseteq o \ {n}
    PROVE  Once(u, w, Append(q, n), s)
<1>1. PICK k \in Nat : k = Len(q)
  OBVIOUS
<1>2. PICK r : r = Append(q, n)
  OBVIOUS
<1>3. Len(r) = k + 1 /\ r[k + 1] = n /\ \A i \in 1..k : r[i] = q[i]
  BY <1>1, <1>2
<1>4. \A i \in 1..k + 1 : i \in 1..k \/ i = k + 1
  BY <1>1
<1>5. \A i \in 1..k : q[i] \in u /\ q[i] \notin o /\ q[i] # n
  BY <1>1 DEF Once
<1>6. \A i \in 1..k + 1 : r[i] \in u /\ r[i] \notin w
  BY <1>3, <1>4, <1>5 DEF Once
<1>7. ASSUME NEW i \in 1..k + 1, NEW j \in 1..k + 1, r[i] = r[j] PROVE i = j
  <2>1. CASE i \in 1..k /\ j \in 1..k
    BY <1>1, <1>3, <1>7, <2>1 DEF Once
  <2>2. CASE ~(i \in 1..k /\ j \in 1..k)
    BY <1>3, <1>4, <1>5, <1>7, <2>2
  <2> QED
    BY <2>1, <2>2
<1>8. \A i \in 1..Len(s) : s[i] \in u /\ s[i] \notin w /\ s[i] # n
  BY DEF Once
<1>9. \A i \in 1..Len(s), j \in 1..k + 1 : s[i] # r[j]
  BY <1>1, <1>3, <1>4, <1>8 DEF Once
<1>10. w \subseteq u
  BY DEF Once
<1>11. \A i, j \in 1..Len(s) : s[i] = s[j] => i = j
  BY DEF Once
<1>12. Once(u, w, r, s)
  <2>1. Len(r) = k + 1
    BY <1>3
  <2>2. \A i \in 1..Len(s) : s[i] \in u /\ s[i] \notin w
    BY <1>8
  <2> QED
    BY <2>1, <2>2, <1>6, <1>7, <1>9, <1>10, <1>11, Zenon DEF Once
<1> QED
  BY <1>2, <1>12

\* A frame shows what waits.
LEMMA OnceShown ==
    ASSUME NEW u, NEW o, NEW q \in Seq(Nonces), NEW s \in Seq(Nonces), Once(u, o, q, s)
    PROVE  Once(u, o, <<>>, s \o q)
<1>1. PICK k \in Nat, m \in Nat : k = Len(s) /\ m = Len(q)
  OBVIOUS
<1>2. PICK r : r = s \o q
  OBVIOUS
<1>3. Len(r) = k + m /\ \A i \in 1..k + m : r[i] = IF i <= k THEN s[i] ELSE q[i - k]
  BY <1>1, <1>2
<1>4. \A i \in 1..k + m : (i <= k /\ i \in 1..k) \/ (i > k /\ i - k \in 1..m)
  BY <1>1
<1>5. ASSUME NEW i \in 1..k + m PROVE r[i] \in u /\ r[i] \notin o
  <2>1. CASE i <= k /\ i \in 1..k
    <3>1. r[i] = s[i] /\ i \in 1..Len(s)
      BY <1>1, <1>3, <2>1
    <3> QED
      BY <3>1 DEF Once
  <2>2. CASE i > k /\ i - k \in 1..m
    <3>1. r[i] = q[i - k] /\ i - k \in 1..Len(q)
      BY <1>1, <1>3, <2>2
    <3> QED
      BY <3>1 DEF Once
  <2> QED
    BY <1>4, <2>1, <2>2
<1>6. ASSUME NEW i \in 1..k + m, NEW j \in 1..k + m, r[i] = r[j] PROVE i = j
  <2>1. CASE i <= k /\ j <= k
    BY <1>1, <1>3, <1>4, <1>6, <2>1 DEF Once
  <2>2. CASE i > k /\ j > k
    <3>1. q[i - k] = q[j - k] /\ i - k \in 1..m /\ j - k \in 1..m
      BY <1>3, <1>4, <1>6, <2>2
    <3>2. i - k = j - k
      BY <1>1, <3>1 DEF Once
    <3> QED
      BY <1>1, <3>2
  <2>3. CASE i <= k /\ j > k
    <3>1. s[i] = q[j - k] /\ i \in 1..k /\ j - k \in 1..m
      BY <1>3, <1>4, <1>6, <2>3
    <3> QED
      BY <1>1, <3>1 DEF Once
  <2>4. CASE i > k /\ j <= k
    <3>1. s[j] = q[i - k] /\ j \in 1..k /\ i - k \in 1..m
      BY <1>3, <1>4, <1>6, <2>4
    <3> QED
      BY <1>1, <3>1 DEF Once
  <2> QED
    BY <1>1, <2>1, <2>2, <2>3, <2>4
<1>7. Len(<<>>) = 0 /\ 1..0 = {} /\ o \subseteq u
  BY DEF Once
<1> QED
  BY <1>2, <1>3, <1>5, <1>6, <1>7 DEF Once

\* A new plot has shown nothing.
LEMMA OnceEmpty == \A u : Once(u, {}, <<>>, <<>>)
<1>1. Len(<<>>) = 0 /\ 1..0 = {}
  OBVIOUS
<1> QED
  BY <1>1 DEF Once

\* Every step of FreshAnswers keeps the answers different.
LEMMA OnceStep ==
    ASSUME TypeInv, OnceInv, [Answers!Next]_(Answers!vars)
    PROVE  OnceInv'
<1>1. m_Queue[plot] \in Seq(Nonces) /\ shown \in Seq(Nonces)
  BY TypeUnfold DEF TypeInv
<1> DEFINE q == m_Queue[plot]
<1>2. Once(Used, Open, q, shown)
  BY DEF OnceInv
<1> SUFFICES Once(Used', Open', q', shown')
  BY DEF OnceInv
<1>3. ASSUME NEW n \in Nonces, Answers!Issue(n) \/ Answers!IssueElsewhere(n)
      PROVE  Once(Used', Open', q', shown')
  <2>1. /\ Used' = Used \cup {n} /\ n \notin Used /\ Open' \in {Open, Open \cup {n}}
        /\ q' = q /\ shown' = shown
    BY <1>3, AnswersUnfold
  <2>2. Open \subseteq Used
    BY <1>2 DEF Once
  <2> HIDE DEF q
  <2>3. Once(Used', Open', q, shown)
    BY <1>2, <2>1, <2>2, OnceKept
  <2> QED
    BY <2>1, <2>3
<1>4. ASSUME NEW n \in Nonces, Answers!Take(n) PROVE Once(Used', Open', q', shown')
  <2>1. /\ n \in Open /\ Open' \subseteq Open \ {n} /\ Used' = Used
        /\ q' = Append(q, n) /\ shown' = shown
    BY <1>4, AnswersUnfold
  <2>2. q \in Seq(Nonces)
    BY <1>1
  <2> HIDE DEF q
  <2> QED
    BY <1>2, <2>1, <2>2, OnceTaken
<1>5. CASE Answers!GiveUp \/ Answers!Pass \/ UNCHANGED Answers!vars
  <2>1. Open' \subseteq Open /\ Used' = Used /\ q' = q /\ shown' = shown
    BY <1>5, AnswersUnfold
  <2>2. Open \subseteq Used
    BY <1>2 DEF Once
  <2> HIDE DEF q
  <2>3. Once(Used', Open', q, shown)
    BY <1>2, <2>1, <2>2, OnceKept
  <2> QED
    BY <2>1, <2>3
<1>6. CASE Answers!Show
  <2>1. Open' = Open /\ Used' = Used /\ q' = <<>> /\ shown' = shown \o q
    BY <1>6, AnswersUnfold
  <2>2. q \in Seq(Nonces)
    BY <1>1
  <2> HIDE DEF q
  <2> QED
    BY <1>1, <1>2, <2>1, <2>2, OnceShown
<1>7. CASE Answers!NewPlot
  <2>1. Open' = {} /\ q' = <<>> /\ shown' = <<>>
    BY <1>7, AnswersUnfold
  <2> HIDE DEF q
  <2> QED
    BY <2>1, OnceEmpty
<1> QED
  BY <1>3, <1>4, <1>5, <1>6, <1>7 DEF Answers!Next

\* For any number of demands, coroutines, plots and servers, and any repetition of
\* notifications, an answer is shown once (CReplayProtector.cpp:49-69).
THEOREM AnswersShownOnce == Spec => []ShownOnce
<1>1. Init => OnceInv
  <2> SUFFICES ASSUME Init PROVE OnceInv
    OBVIOUS
  <2>1. Used = {} /\ Open = {} /\ m_Queue[plot] = <<>> /\ shown = <<>>
    BY AnswersInit DEF Answers!Init, Used, Open
  <2> QED
    BY <2>1, OnceEmpty DEF OnceInv
<1>2. TypeInv /\ NoneAhead /\ OnceInv /\ [Next]_vars => OnceInv'
  BY AnswersStep, OnceStep
<1>3. TypeInv /\ OnceInv => ShownOnce
  <2> SUFFICES ASSUME TypeInv, OnceInv PROVE ShownOnce
    OBVIOUS
  <2>1. shown \in Seq(Nonces)
    BY TypeUnfold DEF TypeInv
  <2>2. DOMAIN shown = 1..Len(shown)
    BY <2>1
  <2> QED
    BY <2>2 DEF OnceInv, Once, ShownOnce
<1> QED
  BY TypeInit, TypeStep, NoneAheadInit, AnswersStep, <1>1, <1>2, <1>3, PTL DEF Spec
=============================================================================
