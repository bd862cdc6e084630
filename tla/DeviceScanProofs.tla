--------------------------- MODULE DeviceScanProofs ---------------------------
(***************************************************************************)
(* Proofs about DeviceScan for any number of tasks and devices.            *)
(***************************************************************************)
EXTENDS DeviceScan, SequenceTheorems, TLAPS

TaskType == [pc : Running \cup {"idle", "spawned"}, prevFound : Nat, foundDevices : Nat]

\* What holds of task t as long as nothing has raced.
Undisturbed(t) ==
    /\ task[t].pc \in {"spawned", "begin"} => m_Devices = <<>>
    /\ task[t].pc \in Loop =>
        /\ task[t].prevFound = Len(m_Devices)
        /\ task[t].prevFound <= Len(m_FoundDevices)
        /\ \A i \in 1..Len(m_Devices) : m_Devices[i] = m_FoundDevices[i]
    /\ task[t].pc \in Loop \cup {"ending"} => scanning
    /\ task[t].pc = "fetch" =>
        /\ task[t].prevFound < task[t].foundDevices
        /\ task[t].foundDevices <= Len(m_FoundDevices)
    /\ task[t].pc = "decide" /\ ~m_ScanTimer => gui.pc = "spin"

AloneAndUndisturbed ==
    ~raced =>
        /\ \A t, u \in Tasks : task[t].pc # "idle" /\ task[u].pc # "idle" => t = u
        /\ \A t \in Tasks : Undisturbed(t)

NotBegun ==
    \A t \in Tasks : task[t].pc \in {"idle", "spawned", "begin"} => task[t].prevFound = 0

Orderly == AloneAndUndisturbed /\ NotBegun

\* A fetch is due only when there is something new.
FetchAhead ==
    \A t \in Tasks : task[t].pc = "fetch" => task[t].prevFound < task[t].foundDevices

TypeInv == TypeOK /\ FetchAhead

-----------------------------------------------------------------------------
\* received_event_handler appends an address that is not there yet.
LEMMA AppendNew ==
    ASSUME NEW s \in Seq(Addresses), NEW a \in Addresses, IsInjective(s), ~Contains(s, a)
    PROVE  /\ Append(s, a) \in Seq(Addresses)
           /\ Len(Append(s, a)) = Len(s) + 1
           /\ \A i \in 1..Len(s) : Append(s, a)[i] = s[i]
           /\ IsInjective(Append(s, a))
<1>1. /\ Append(s, a) \in Seq(Addresses)
      /\ Len(Append(s, a)) = Len(s) + 1
      /\ \A i \in 1..Len(s) : Append(s, a)[i] = s[i]
      /\ Append(s, a)[Len(s) + 1] = a
  BY AppendProperties
<1>2. /\ DOMAIN s = 1..Len(s) /\ Len(s) \in Nat
      /\ DOMAIN Append(s, a) = 1..(Len(s) + 1)
  BY <1>1, LenProperties
<1>3. \A i \in 1..Len(s) : s[i] # a
  BY DEF Contains
<1>4. ASSUME NEW i \in 1..(Len(s) + 1), NEW j \in 1..(Len(s) + 1),
             Append(s, a)[i] = Append(s, a)[j]
      PROVE  i = j
  <2>1. CASE i \in 1..Len(s) /\ j \in 1..Len(s)
    BY <2>1, <1>1, <1>2, <1>4 DEF IsInjective
  <2>2. CASE i = Len(s) + 1 \/ j = Len(s) + 1
    BY <2>2, <1>1, <1>2, <1>3, <1>4
  <2> QED
    BY <2>1, <2>2, <1>2
<1> QED
  BY <1>1, <1>2, <1>4 DEF IsInjective

\* retrieve_n_devices returns what lies between prevFound and its end.
LEMMA RetrievedDevices ==
    ASSUME NEW s \in Seq(Addresses), NEW d \in Seq(Addresses), NEW prev \in Nat,
           NEW end \in Nat, prev < Len(s), end <= Len(s), prev <= end
    PROVE  LET r == d \o SubSeq(s, prev + 1, end) IN
           /\ r \in Seq(Addresses)
           /\ Len(r) = Len(d) + end - prev
           /\ \A i \in 1..Len(d) : r[i] = d[i]
           /\ \A i \in 1..(end - prev) : r[Len(d) + i] = s[prev + i]
<1> DEFINE q == SubSeq(s, prev + 1, end)
<1>1. Len(s) \in Nat /\ Len(d) \in Nat
  BY LenProperties
<1>2. \A i \in (prev + 1)..end : s[i] \in Addresses
  BY <1>1, ElementOfSeq
<1>3. /\ q \in Seq(Addresses)
      /\ Len(q) = end - prev
      /\ \A i \in 1..(end - prev) : q[i] = s[prev + i]
  <2>1. /\ q \in Seq(Addresses)
        /\ Len(q) = IF prev + 1 <= end THEN end - (prev + 1) + 1 ELSE 0
        /\ \A i \in 1..(end - (prev + 1) + 1) : q[i] = s[prev + 1 + i - 1]
    BY <1>1, <1>2, SubSeqProperties
  <2>2. end - (prev + 1) + 1 = end - prev
    OBVIOUS
  <2>3. \A i \in 1..(end - prev) : prev + 1 + i - 1 = prev + i
    OBVIOUS
  <2> QED
    BY <2>1, <2>2, <2>3
<1>4. /\ d \o q \in Seq(Addresses)
      /\ Len(d \o q) = Len(d) + Len(q)
      /\ \A i \in 1..(Len(d) + Len(q)) :
            (d \o q)[i] = IF i <= Len(d) THEN d[i] ELSE q[i - Len(d)]
  BY <1>3, ConcatProperties
<1> HIDE DEF q
<1>5. \A i \in 1..(end - prev) : /\ Len(d) + i \in 1..(Len(d) + Len(q))
                                 /\ ~(Len(d) + i <= Len(d))
                                 /\ Len(d) + i - Len(d) = i
  BY <1>1, <1>3
<1>6. \A i \in 1..Len(d) : i \in 1..(Len(d) + Len(q)) /\ i <= Len(d)
  BY <1>1, <1>3
<1>7. /\ Len(d \o q) = Len(d) + end - prev
      /\ \A i \in 1..Len(d) : (d \o q)[i] = d[i]
      /\ \A i \in 1..(end - prev) : (d \o q)[Len(d) + i] = s[prev + i]
  BY <1>1, <1>3, <1>4, <1>5, <1>6
<1> QED
  BY <1>4, <1>7 DEF q

\* retrieve_n_devices within bounds, in the terms of Fetch.
LEMMA FetchedDevices ==
    ASSUME TypeInv, NEW t \in Tasks, task[t].pc = "fetch",
           task[t].prevFound < Len(m_FoundDevices),
           RetrievedEnd(task[t].prevFound, task[t].foundDevices) <= Len(m_FoundDevices)
    PROVE  LET prev == task[t].prevFound
               end == RetrievedEnd(prev, task[t].foundDevices)
               r == m_Devices \o SubSeq(m_FoundDevices, prev + 1, end)
           IN
           /\ end \in Nat
           /\ prev < end
           /\ r \in Seq(Addresses)
           /\ Len(r) = Len(m_Devices) + end - prev
           /\ \A i \in 1..Len(m_Devices) : r[i] = m_Devices[i]
           /\ \A i \in 1..(end - prev) : r[Len(m_Devices) + i] = m_FoundDevices[prev + i]
<1> DEFINE prev == task[t].prevFound
           found == task[t].foundDevices
           end == RetrievedEnd(prev, found)
<1>1. /\ prev \in Nat /\ found \in Nat /\ prev < found
      /\ m_FoundDevices \in Seq(Addresses) /\ m_Devices \in Seq(Addresses)
  BY DEF TypeInv, TypeOK, FetchAhead
<1>2. Len(m_FoundDevices) \in Nat
  BY <1>1, LenProperties
<1>3. end \in Nat /\ prev < end /\ prev <= end
  BY <1>1, <1>2 DEF RetrievedEnd
<1>4. prev < Len(m_FoundDevices) /\ end <= Len(m_FoundDevices)
  OBVIOUS
<1> HIDE DEF prev, found, end
<1>5. LET q == m_Devices \o SubSeq(m_FoundDevices, prev + 1, end) IN
      /\ q \in Seq(Addresses)
      /\ Len(q) = Len(m_Devices) + end - prev
      /\ \A i \in 1..Len(m_Devices) : q[i] = m_Devices[i]
      /\ \A i \in 1..(end - prev) : q[Len(m_Devices) + i] = m_FoundDevices[prev + i]
  BY <1>1, <1>3, <1>4, RetrievedDevices
<1> QED
  BY <1>3, <1>5 DEF prev, found, end

-----------------------------------------------------------------------------
\* Types.

LEMMA TypeInit == Init => TypeInv
<1> SUFFICES ASSUME Init PROVE TypeInv
  OBVIOUS
<1>1. IsInjective(<<>>)
  BY DEF IsInjective
<1>2. <<>> \in Seq(Addresses)
  OBVIOUS
<1>3. task \in [Tasks -> TaskType]
  BY DEF Init, IdleTask, TaskAt, TaskType, Running, Loop
<1> QED
  BY <1>1, <1>2, <1>3 DEF Init, TypeInv, TypeOK, FetchAhead, TaskType, IdleTask, TaskAt

\* A task record is typed.
LEMMA TaskTyped ==
    ASSUME NEW pc \in Running \cup {"idle", "spawned"}, NEW p \in Nat, NEW f \in Nat
    PROVE  /\ TaskAt(pc, p, f) \in TaskType
           /\ TaskAt(pc, p, f).pc = pc
           /\ TaskAt(pc, p, f).prevFound = p
           /\ TaskAt(pc, p, f).foundDevices = f
BY DEF TaskAt, TaskType

\* A task that goes elsewhere than to a fetch stays typed.
LEMMA PcMoves ==
    ASSUME TypeInv, NEW t \in Tasks, NEW pc \in (Running \cup {"idle", "spawned"}) \ {"fetch"},
           task' = [task EXCEPT ![t].pc = pc]
    PROVE  task' \in [Tasks -> TaskType] /\ FetchAhead'
BY DEF TypeInv, TypeOK, TaskType, FetchAhead

\* A task that has fetched its devices stays typed.
LEMMA FetchMoves ==
    ASSUME task \in [Tasks -> TaskType], FetchAhead, NEW t \in Tasks, NEW n \in Nat,
           task' = [task EXCEPT ![t].pc = "top", ![t].prevFound = n]
    PROVE  task' \in [Tasks -> TaskType] /\ FetchAhead'
<1>1. "top" \in Running
  BY DEF Running, Loop
<1>2. /\ DOMAIN task' = Tasks
      /\ task' = [u \in Tasks |-> task'[u]]
      /\ \A u \in Tasks \ {t} : task'[u] = task[u]
      /\ task'[t] = [task[t] EXCEPT !.pc = "top", !.prevFound = n]
  OBVIOUS
<1>3. task[t] \in TaskType
  OBVIOUS
<1>4. task'[t] \in TaskType /\ task'[t].pc = "top"
  BY <1>1, <1>2, <1>3 DEF TaskType
<1>5. \A u \in Tasks : task'[u] \in TaskType
  BY <1>2, <1>4
<1>6. FetchAhead'
  BY <1>2, <1>4 DEF FetchAhead
<1> QED
  BY <1>2, <1>5, <1>6

\* What Fetch does when the list is long enough, and when it is not.
LEMMA FetchCases ==
    ASSUME TypeInv, NEW t \in Tasks, Fetch(t)
    PROVE  \/ /\ m_Devices' \in Seq(Addresses)
              /\ task' = [task EXCEPT ![t].pc = "top", ![t].prevFound = Len(m_Devices')]
              /\ UNCHANGED trapped
           \/ UNCHANGED <<task, m_Devices>> /\ trapped' = "retrieve"
<1> DEFINE prev == task[t].prevFound
           end == RetrievedEnd(prev, task[t].foundDevices)
<1>1. CASE prev < Len(m_FoundDevices) /\ end <= Len(m_FoundDevices)
  <2>1. /\ m_Devices' = m_Devices \o SubSeq(m_FoundDevices, prev + 1, end)
        /\ task' = [task EXCEPT ![t].pc = "top", ![t].prevFound = Len(m_Devices')]
        /\ UNCHANGED trapped
        /\ task[t].pc = "fetch"
    BY <1>1, Zenon DEF Fetch
  <2>2. m_Devices \o SubSeq(m_FoundDevices, prev + 1, end) \in Seq(Addresses)
    BY <1>1, <2>1, FetchedDevices, Zenon
  <2> QED
    BY <2>1, <2>2, Zenon
<1>2. CASE ~(prev < Len(m_FoundDevices) /\ end <= Len(m_FoundDevices))
  BY <1>2, Zenon DEF Fetch
<1> QED
  BY <1>1, <1>2

LEMMA TypeStep == TypeInv /\ [Next]_vars => TypeInv'
<1> SUFFICES ASSUME TypeInv, [Next]_vars PROVE TypeInv'
  OBVIOUS
<1> USE DEF TypeInv, TypeOK, TaskType, Running, Loop
<1>1. ASSUME NEW t \in Tasks, TaskStep(t) PROVE TypeInv'
  <2>1. CASE StartTimer(t)
    <3>1. task' = [task EXCEPT ![t].pc = "begin"]
      BY <2>1 DEF StartTimer
    <3>2. task' \in [Tasks -> TaskType] /\ FetchAhead'
      BY <3>1, PcMoves
    <3> QED
      BY <2>1, <3>2 DEF StartTimer
  <2>2. CASE BeginScan(t)
    <3>1. IsInjective(<<>>) /\ <<>> \in Seq(Addresses)
      BY DEF IsInjective
    <3>2. task' \in [Tasks -> TaskType] /\ FetchAhead'
      BY <2>2, PcMoves DEF BeginScan
    <3>3. raced' \in BOOLEAN
      BY <2>2 DEF BeginScan
    <3> QED
      BY <2>2, <3>1, <3>2, <3>3 DEF BeginScan
  <2>3. CASE TestTimer(t) \/ StopScan(t) \/ ContinueScan(t)
    <3>1. PICK pc \in {"decide", "ending", "poll"} : task' = [task EXCEPT ![t].pc = pc]
      BY <2>3 DEF TestTimer, StopScan, ContinueScan
    <3>2. task' \in [Tasks -> TaskType] /\ FetchAhead'
      BY <3>1, PcMoves
    <3> QED
      BY <2>3, <3>2 DEF TestTimer, StopScan, ContinueScan
  <2>4. CASE Poll(t)
    <3>1. Len(m_FoundDevices) \in Nat
      BY LenProperties
    <3> DEFINE pc == IF task[t].prevFound < Len(m_FoundDevices) THEN "fetch" ELSE "top"
    <3>2. /\ TaskAt(pc, task[t].prevFound, Len(m_FoundDevices)) \in TaskType
          /\ task' = [task EXCEPT ![t] = TaskAt(pc, task[t].prevFound, Len(m_FoundDevices))]
      <4>1. pc \in Running \cup {"idle", "spawned"} /\ task[t].prevFound \in Nat
        OBVIOUS
      <4>2. TaskAt(pc, task[t].prevFound, Len(m_FoundDevices)) \in TaskType
        BY <3>1, <4>1, TaskTyped
      <4>3. task' = [task EXCEPT ![t] = TaskAt(pc, task[t].prevFound, Len(m_FoundDevices))]
        BY <2>4 DEF Poll
      <4> QED
        BY <4>2, <4>3
    <3>3. task' \in [Tasks -> TaskType]
      BY <3>2
    <3>4. FetchAhead'
      <4>1. /\ task'[t].pc = pc
            /\ task'[t].prevFound = task[t].prevFound
            /\ task'[t].foundDevices = Len(m_FoundDevices)
        BY <3>1, <3>2 DEF TaskAt
      <4>2. \A u \in Tasks \ {t} : task'[u] = task[u]
        BY <3>2
      <4>3. task'[t].pc = "fetch" => task'[t].prevFound < task'[t].foundDevices
        BY <4>1
      <4> QED
        BY <4>2, <4>3 DEF FetchAhead
    <3>5. UNCHANGED <<m_ScanTimer, watcher, m_FoundDevices, m_Devices, authenticated, gui,
                      raced, trapped>>
      BY <2>4 DEF Poll
    <3> QED
      BY <3>3, <3>4, <3>5
  <2>5. CASE Fetch(t)
    <3>1. UNCHANGED <<m_ScanTimer, watcher, m_FoundDevices, authenticated, gui, raced>>
      BY <2>5 DEF Fetch
    <3>2. CASE UNCHANGED <<task, m_Devices>> /\ trapped' = "retrieve"
      BY <3>1, <3>2 DEF FetchAhead
    <3>3. CASE /\ m_Devices' \in Seq(Addresses)
               /\ task' = [task EXCEPT ![t].pc = "top", ![t].prevFound = Len(m_Devices')]
               /\ UNCHANGED trapped
      <4>1. Len(m_Devices') \in Nat
        BY <3>3, LenProperties
      <4>2. task' \in [Tasks -> TaskType] /\ FetchAhead'
        BY <3>3, <4>1, FetchMoves
      <4> QED
        BY <3>1, <3>3, <4>2
    <3> QED
      BY <2>5, <3>2, <3>3, FetchCases
  <2>6. CASE EndScan(t)
    <3>1. IdleTask \in TaskType /\ IdleTask.pc = "idle"
      BY TaskTyped DEF IdleTask
    <3>2. /\ task' = [task EXCEPT ![t] = IdleTask]
          /\ watcher' \in {watcher, "stopping"}
          /\ UNCHANGED <<m_ScanTimer, m_FoundDevices, m_Devices, authenticated, gui, raced,
                         trapped>>
      BY <2>6 DEF EndScan
    <3>3. task' \in [Tasks -> TaskType] /\ FetchAhead'
      BY <3>1, <3>2 DEF FetchAhead
    <3> QED
      BY <3>2, <3>3
  <2> QED
    BY <1>1, <2>1, <2>2, <2>3, <2>4, <2>5, <2>6 DEF TaskStep
<1>2. ASSUME NEW a \in Addresses, Received(a) PROVE TypeInv'
  BY <1>2, AppendNew DEF Received, FetchAhead
<1>3. CASE WatcherStopped \/ AuthenticationChanges
  BY <1>3 DEF WatcherStopped, AuthenticationChanges, FetchAhead
<1>4. CASE RecreateList
  <2>1. gui' \in [pc : {"frame"}, quit : BOOLEAN]
    BY <1>4 DEF RecreateList, GuiMoves
  <2>2. /\ UNCHANGED <<m_ScanTimer, watcher, m_FoundDevices, authenticated, trapped>>
        /\ RecreateScan \/ UNCHANGED <<task, m_Devices, raced>>
    BY <1>4 DEF RecreateList
  <2>3. CASE RecreateScan
    <3>1. raced' \in BOOLEAN
      BY <2>3 DEF RecreateScan, SpawnTimeLimitedScan
    <3>2. m_Devices' \in Seq(Addresses)
      BY <2>3 DEF RecreateScan
    <3>3. PICK t \in Tasks : task' = [task EXCEPT ![t].pc = "spawned"]
      BY <2>3 DEF RecreateScan, SpawnTimeLimitedScan
    <3> QED
      BY <2>1, <2>2, <3>1, <3>2, <3>3 DEF FetchAhead
  <2> QED
    BY <2>1, <2>2, <2>3 DEF FetchAhead
<1>5. CASE NotScanning \/ EndTimeLimitedScan
  <2>1. gui' \in [pc : {"recreate", "check", "clear"}, quit : BOOLEAN]
    BY <1>5 DEF NotScanning, EndTimeLimitedScan, GuiMoves
  <2> QED
    BY <1>5, <2>1 DEF NotScanning, EndTimeLimitedScan, FetchAhead
<1>6. CASE GuiStep
  <2>1. CASE TimerTested \/ TimerStopped \/ SpinEnds
    BY <2>1, ZenonT(30) DEF TimerTested, TimerStopped, SpinEnds, GuiMoves, FetchAhead
  <2>2. CASE ClearList
    <3>1. gui' \in [pc : {"gone", "frame"}, quit : BOOLEAN]
      BY <2>2 DEF ClearList, GuiMoves
    <3>2. m_Devices' \in Seq(Addresses) /\ raced' \in BOOLEAN
      <4>1. CASE gui.quit
        BY <2>2, <4>1 DEF ClearList
      <4>2. CASE ~gui.quit
        BY <2>2, <4>2 DEF ClearList
      <4> QED
        BY <4>1, <4>2
    <3> QED
      BY <2>2, <3>1, <3>2 DEF ClearList, FetchAhead
  <2> QED
    BY <1>6, <2>1, <2>2 DEF GuiStep
<1>7. CASE UNCHANGED vars
  BY <1>7 DEF vars, FetchAhead
<1> QED
  BY <1>1, <1>2, <1>3, <1>4, <1>5, <1>6, <1>7 DEF Next

\* Every variable keeps its type, and no device is reported twice in a scan
\* (CScanner.cpp:133-136).
THEOREM TypeCorrect == Spec => []TypeOK
<1>1. TypeInv => TypeOK
  BY DEF TypeInv
<1> QED
  BY <1>1, TypeInit, TypeStep, PTL DEF Spec

-----------------------------------------------------------------------------
\* A scan has its task.

\* Every step of a task is a step of that task alone.
LEMMA TaskStepIsLocal ==
    ASSUME TypeInv, NEW t \in Tasks, TaskStep(t)
    PROVE  \A u \in Tasks \ {t} : task'[u] = task[u]
<1>1. \A r : task' = [task EXCEPT ![t] = r] => \A u \in Tasks \ {t} : task'[u] = task[u]
  BY DEF TypeInv, TypeOK
<1>2. \E r : task' = [task EXCEPT ![t] = r]
  <2>1. CASE StartTimer(t) \/ BeginScan(t)
    BY <2>1 DEF StartTimer, BeginScan
  <2>2. CASE TestTimer(t) \/ StopScan(t) \/ ContinueScan(t)
    BY <2>2 DEF TestTimer, StopScan, ContinueScan
  <2>3. CASE Poll(t)
    BY <2>3 DEF Poll
  <2>4. CASE Fetch(t)
    <3>1. task = [task EXCEPT ![t] = task[t]]
      BY DEF TypeInv, TypeOK
    <3>2. \/ UNCHANGED task
          \/ task' = [task EXCEPT ![t].pc = "top", ![t].prevFound = Len(m_Devices')]
      BY <2>4 DEF Fetch
    <3> QED
      BY <3>1, <3>2
  <2>5. CASE EndScan(t)
    BY <2>5 DEF EndScan
  <2> QED
    BY <2>1, <2>2, <2>3, <2>4, <2>5 DEF TaskStep
<1> QED
  BY <1>1, <1>2

\* Where a step of the task leaves it, with the timer and the watcher.
LEMMA TaskStepEffect ==
    ASSUME TypeInv, NEW t \in Tasks, TaskStep(t)
    PROVE  \/ /\ task[t].pc = "spawned" /\ task'[t].pc = "begin"
              /\ m_ScanTimer' /\ UNCHANGED watcher
           \/ /\ task[t].pc = "begin" /\ task'[t].pc = "top"
              /\ UNCHANGED m_ScanTimer /\ watcher' = "started"
           \/ /\ task[t].pc \in Loop /\ task'[t].pc \in Loop
              /\ UNCHANGED <<m_ScanTimer, watcher>>
           \/ /\ task[t].pc \in Loop /\ task'[t].pc = "ending"
              /\ ~m_ScanTimer' /\ UNCHANGED watcher
           \/ /\ task[t].pc = "ending" /\ task'[t].pc = "idle"
              /\ UNCHANGED m_ScanTimer /\ watcher' # "started"
<1> USE DEF TypeInv, TypeOK, Loop
<1>1. CASE StartTimer(t) \/ BeginScan(t)
  BY <1>1 DEF StartTimer, BeginScan
<1>2. CASE TestTimer(t) \/ StopScan(t) \/ ContinueScan(t)
  BY <1>2 DEF TestTimer, StopScan, ContinueScan
<1>3. CASE Poll(t)
  BY <1>3 DEF Poll, TaskAt
<1>4. CASE Fetch(t)
  BY <1>4 DEF Fetch
<1>5. CASE EndScan(t)
  BY <1>5 DEF EndScan, IdleTask, TaskAt, scanning
<1> QED
  BY <1>1, <1>2, <1>3, <1>4, <1>5 DEF TaskStep

LEMMA OwnedStep == TypeInv /\ ScanOwned /\ [Next]_vars => ScanOwned'
<1> SUFFICES ASSUME TypeInv, ScanOwned, [Next]_vars PROVE ScanOwned'
  OBVIOUS
<1>1. ASSUME NEW t \in Tasks, TaskStep(t) PROVE ScanOwned'
  BY <1>1, TaskStepIsLocal, TaskStepEffect DEF ScanOwned, scanning, Running, Loop
<1>2. CASE RecreateScan /\ UNCHANGED <<m_ScanTimer, watcher>>
  <2>1. PICK t \in Tasks : task[t].pc = "idle" /\ task' = [task EXCEPT ![t].pc = "spawned"]
    BY <1>2 DEF RecreateScan, SpawnTimeLimitedScan
  <2>2. \A u \in Tasks : task[u].pc # "idle" => task'[u] = task[u]
    BY <2>1 DEF TypeInv, TypeOK
  <2>3. \A u \in Tasks : task[u].pc \in Running => task'[u].pc \in Running
    BY <2>2 DEF Running, Loop
  <2>4. \A u \in Tasks : task[u].pc \in Loop \cup {"begin"} => task'[u].pc \in Loop \cup {"begin"}
    BY <2>2 DEF Loop
  <2>5. m_ScanTimer' => \E u \in Tasks : task'[u].pc \in Loop \cup {"begin"}
    BY <1>2, <2>4 DEF ScanOwned
  <2>6. watcher' = "started" => \E u \in Tasks : task'[u].pc \in Running
    BY <1>2, <2>3 DEF ScanOwned, scanning
  <2> QED
    BY <2>5, <2>6 DEF ScanOwned, scanning
<1>3. CASE /\ UNCHANGED task
           /\ m_ScanTimer' => m_ScanTimer
           /\ watcher' = "started" => watcher = "started"
  BY <1>3 DEF ScanOwned, scanning
<1>4. ASSUME NEW a \in Addresses, Received(a) PROVE ScanOwned'
  BY <1>4, <1>3 DEF Received
<1>5. CASE WatcherStopped \/ AuthenticationChanges \/ NotScanning \/ EndTimeLimitedScan
  BY <1>5, <1>3 DEF WatcherStopped, AuthenticationChanges, NotScanning, EndTimeLimitedScan
<1>6. CASE RecreateList
  BY <1>6, <1>2, <1>3 DEF RecreateList
<1>7. CASE GuiStep
  BY <1>7, <1>3 DEF GuiStep, TimerTested, TimerStopped, SpinEnds, ClearList
<1>8. CASE UNCHANGED vars
  BY <1>8, <1>3 DEF vars
<1> QED
  BY <1>1, <1>4, <1>5, <1>6, <1>7, <1>8 DEF Next

\* The timer does not run and the watcher is not started without a task that
\* will stop them, however many scans overlap (CDeviceList.cpp:111-163).
THEOREM ScansAreOwned == Spec => []ScanOwned
<1>1. Init => ScanOwned
  BY DEF Init, ScanOwned, scanning
<1> QED
  BY <1>1, TypeInit, TypeStep, OwnedStep, PTL DEF Spec

-----------------------------------------------------------------------------
\* Without a race a scan is alone, and its list is what it has found.

\* A fetch that nothing has disturbed stays within bounds and takes everything
\* up to foundDevices.
LEMMA UndisturbedFetch ==
    ASSUME TypeInv, NEW t \in Tasks, Undisturbed(t), task[t].pc = "fetch"
    PROVE  /\ task[t].prevFound < Len(m_FoundDevices)
           /\ RetrievedEnd(task[t].prevFound, task[t].foundDevices) = task[t].foundDevices
           /\ task[t].foundDevices <= Len(m_FoundDevices)
<1>1. /\ task[t].prevFound \in Nat /\ task[t].foundDevices \in Nat
      /\ m_FoundDevices \in Seq(Addresses)
  BY DEF TypeInv, TypeOK
<1>2. Len(m_FoundDevices) \in Nat
  BY <1>1, LenProperties
<1>3. /\ task[t].prevFound < task[t].foundDevices
      /\ task[t].foundDevices <= Len(m_FoundDevices)
  BY DEF Undisturbed
<1> QED
  BY <1>1, <1>2, <1>3 DEF RetrievedEnd

\* The list after such a fetch.
LEMMA FetchKeepsOrder ==
    ASSUME TypeInv, NEW t \in Tasks, Undisturbed(t), Fetch(t)
    PROVE  /\ Undisturbed(t)'
           /\ UNCHANGED trapped
           /\ task'[t].pc = "top"
<1> DEFINE prev == task[t].prevFound
           found == task[t].foundDevices
<1>1. /\ task[t].pc = "fetch"
      /\ UNCHANGED <<m_ScanTimer, watcher, m_FoundDevices, gui>>
  BY DEF Fetch
<1>2. /\ prev < Len(m_FoundDevices)
      /\ RetrievedEnd(prev, found) = found
      /\ found <= Len(m_FoundDevices)
  BY <1>1, UndisturbedFetch
<1>3. /\ m_Devices' = m_Devices \o SubSeq(m_FoundDevices, prev + 1, RetrievedEnd(prev, found))
      /\ task' = [task EXCEPT ![t].pc = "top", ![t].prevFound = Len(m_Devices')]
      /\ UNCHANGED trapped
  BY <1>2 DEF Fetch
<1>4. /\ prev \in Nat /\ found \in Nat /\ prev < found
      /\ Len(m_Devices) \in Nat
      /\ prev = Len(m_Devices)
      /\ \A i \in 1..Len(m_Devices) : m_Devices[i] = m_FoundDevices[i]
      /\ scanning
  BY <1>1, LenProperties DEF TypeInv, TypeOK, FetchAhead, Undisturbed, Loop
<1>5. /\ Len(m_Devices') = Len(m_Devices) + found - prev
      /\ \A i \in 1..Len(m_Devices) : m_Devices'[i] = m_Devices[i]
      /\ \A i \in 1..(found - prev) :
            m_Devices'[Len(m_Devices) + i] = m_FoundDevices[prev + i]
  BY <1>1, <1>2, <1>3, FetchedDevices
<1>6. task'[t].pc = "top" /\ task'[t].prevFound = Len(m_Devices')
  BY <1>3 DEF TypeInv, TypeOK
<1> HIDE DEF prev, found
<1>7. Len(m_Devices') = found
  BY <1>4, <1>5
<1>8. \A i \in 1..Len(m_Devices') : m_Devices'[i] = m_FoundDevices[i]
  <2> SUFFICES ASSUME NEW i \in 1..Len(m_Devices')
               PROVE  m_Devices'[i] = m_FoundDevices[i]
    OBVIOUS
  <2>1. CASE i <= prev
    BY <2>1, <1>4, <1>5, <1>7
  <2>2. CASE prev < i
    <3>1. i - prev \in 1..(found - prev) /\ prev + (i - prev) = i
      BY <2>2, <1>4, <1>7
    <3> QED
      BY <3>1, <1>4, <1>5
  <2> QED
    BY <2>1, <2>2, <1>4, <1>7
<1> QED
  BY <1>1, <1>2, <1>3, <1>4, <1>6, <1>7, <1>8, ZenonT(30) DEF Undisturbed, scanning

\* Every step of a task that nothing disturbs leaves it undisturbed.
LEMMA TaskStaysUndisturbed ==
    ASSUME TypeInv, NotBegun, NEW t \in Tasks, Undisturbed(t), TaskStep(t)
    PROVE  Undisturbed(t)'
<1> USE DEF TypeInv, TypeOK, Undisturbed, Loop, Running, scanning
<1>1. CASE StartTimer(t)
  BY <1>1 DEF StartTimer
<1>2. CASE BeginScan(t)
  <2>1. Len(<<>>) = 0
    OBVIOUS
  <2>2. task[t].prevFound = 0
    BY <1>2 DEF BeginScan, NotBegun
  <2> QED
    BY <1>2, <2>1, <2>2 DEF BeginScan
<1>3. CASE TestTimer(t)
  BY <1>3 DEF TestTimer
<1>4. CASE StopScan(t) \/ ContinueScan(t)
  BY <1>4 DEF StopScan, ContinueScan
<1>5. CASE Poll(t)
  <2>1. Len(m_FoundDevices) \in Nat
    BY LenProperties
  <2>2. /\ task'[t].pc = IF task[t].prevFound < Len(m_FoundDevices) THEN "fetch" ELSE "top"
        /\ task'[t].prevFound = task[t].prevFound
        /\ task'[t].foundDevices = Len(m_FoundDevices)
    BY <1>5 DEF Poll, TaskAt
  <2>3. UNCHANGED <<m_ScanTimer, watcher, m_FoundDevices, m_Devices, gui>>
    BY <1>5 DEF Poll
  <2>4. task[t].pc = "poll"
    BY <1>5 DEF Poll
  <2> QED
    BY <2>1, <2>2, <2>3, <2>4
<1>6. CASE Fetch(t)
  BY <1>6, FetchKeepsOrder
<1>7. CASE EndScan(t)
  BY <1>7 DEF EndScan, IdleTask, TaskAt
<1> QED
  BY <1>1, <1>2, <1>3, <1>4, <1>5, <1>6, <1>7 DEF TaskStep

LEMMA NotBegunStep == TypeInv /\ NotBegun /\ [Next]_vars => NotBegun'
<1> SUFFICES ASSUME TypeInv, NotBegun, [Next]_vars PROVE NotBegun'
  OBVIOUS
<1>1. ASSUME NEW t \in Tasks, TaskStep(t) PROVE NotBegun'
  <2>1. CASE StartTimer(t)
    <3>1. task'[t].prevFound = task[t].prevFound
      BY <2>1 DEF StartTimer, TypeInv, TypeOK
    <3>2. task[t].pc = "spawned"
      BY <2>1 DEF StartTimer
    <3> QED
      BY <1>1, <3>1, <3>2, TaskStepIsLocal DEF NotBegun
  <2>2. CASE EndScan(t)
    <3>1. task'[t].prevFound = 0
      BY <2>2 DEF EndScan, IdleTask, TaskAt, TypeInv, TypeOK
    <3> QED
      BY <1>1, <3>1, TaskStepIsLocal DEF NotBegun
  <2>3. CASE ~StartTimer(t) /\ ~EndScan(t)
    <3>1. task'[t].pc \in Loop \cup {"ending"}
      <4>1. CASE BeginScan(t) \/ TestTimer(t) \/ StopScan(t) \/ ContinueScan(t)
        BY <4>1 DEF BeginScan, TestTimer, StopScan, ContinueScan, TypeInv, TypeOK, Loop
      <4>2. CASE Poll(t)
        BY <4>2 DEF Poll, TaskAt, TypeInv, TypeOK, Loop
      <4>3. CASE Fetch(t)
        BY <4>3 DEF Fetch, TypeInv, TypeOK, Loop
      <4> QED
        BY <1>1, <2>3, <4>1, <4>2, <4>3 DEF TaskStep
    <3> QED
      BY <1>1, <3>1, TaskStepIsLocal DEF NotBegun, Loop
  <2> QED
    BY <2>1, <2>2, <2>3
<1>2. CASE RecreateScan
  <2>1. PICK t \in Tasks : task[t].pc = "idle" /\ task' = [task EXCEPT ![t].pc = "spawned"]
    BY <1>2 DEF RecreateScan, SpawnTimeLimitedScan
  <2> QED
    BY <2>1 DEF NotBegun, TypeInv, TypeOK
<1>3. CASE UNCHANGED task
  BY <1>3 DEF NotBegun
<1>4. ASSUME NEW a \in Addresses, Received(a) PROVE NotBegun'
  BY <1>4, <1>3 DEF Received
<1>5. CASE WatcherStopped \/ AuthenticationChanges \/ NotScanning \/ EndTimeLimitedScan
  BY <1>5, <1>3 DEF WatcherStopped, AuthenticationChanges, NotScanning, EndTimeLimitedScan
<1>6. CASE RecreateList
  BY <1>6, <1>2, <1>3 DEF RecreateList
<1>7. CASE GuiStep
  BY <1>7, <1>3 DEF GuiStep, TimerTested, TimerStopped, SpinEnds, ClearList
<1>8. CASE UNCHANGED vars
  BY <1>8, <1>3 DEF vars
<1> QED
  BY <1>1, <1>4, <1>5, <1>6, <1>7, <1>8 DEF Next

\* A history variable: races are not forgotten.
LEMMA RacedStays == ASSUME TypeInv, [Next]_vars, ~raced' PROVE ~raced
<1> USE DEF TypeInv, TypeOK
<1>1. ASSUME NEW t \in Tasks, TaskStep(t) PROVE ~raced
  BY <1>1 DEF TaskStep, StartTimer, BeginScan, TestTimer, StopScan, ContinueScan, Poll, Fetch,
              EndScan
<1>2. ASSUME NEW a \in Addresses, Received(a) PROVE ~raced
  BY <1>2 DEF Received
<1>3. CASE WatcherStopped \/ AuthenticationChanges \/ NotScanning \/ EndTimeLimitedScan
  BY <1>3 DEF WatcherStopped, AuthenticationChanges, NotScanning, EndTimeLimitedScan
<1>4. CASE RecreateList
  BY <1>4 DEF RecreateList, RecreateScan, SpawnTimeLimitedScan
<1>5. CASE GuiStep
  BY <1>5 DEF GuiStep, TimerTested, TimerStopped, SpinEnds, ClearList
<1>6. CASE UNCHANGED vars
  BY <1>6 DEF vars
<1> QED
  BY <1>1, <1>2, <1>3, <1>4, <1>5, <1>6 DEF Next

LEMMA AloneStep ==
    TypeInv /\ Orderly /\ [Next]_vars => AloneAndUndisturbed'
<1> SUFFICES ASSUME TypeInv, Orderly, [Next]_vars, ~raced' PROVE
                 /\ \A t, u \in Tasks : task'[t].pc # "idle" /\ task'[u].pc # "idle" => t = u
                 /\ \A t \in Tasks : Undisturbed(t)'
  BY DEF AloneAndUndisturbed
<1>1. /\ \A t, u \in Tasks : task[t].pc # "idle" /\ task[u].pc # "idle" => t = u
      /\ \A t \in Tasks : Undisturbed(t)
      /\ NotBegun
  BY RacedStays DEF Orderly, AloneAndUndisturbed
<1> DEFINE Alone == \A t, u \in Tasks : task[t].pc # "idle" /\ task[u].pc # "idle" => t = u
           Result == Alone' /\ \A t \in Tasks : Undisturbed(t)'
<1>2. ASSUME NEW t \in Tasks, TaskStep(t) PROVE Result
  <2>1. task[t].pc # "idle"
    BY <1>2, TaskStepEffect DEF Loop
  <2>2. \A u \in Tasks \ {t} : task[u].pc = "idle" /\ task'[u] = task[u]
    BY <1>1, <1>2, <2>1, TaskStepIsLocal
  <2>3. Undisturbed(t)'
    BY <1>1, <1>2, TaskStaysUndisturbed
  <2>4. \A u \in Tasks \ {t} : Undisturbed(u)'
    BY <2>2 DEF Undisturbed, Loop
  <2> QED
    BY <2>2, <2>3, <2>4
<1>3. ASSUME NEW a \in Addresses, Received(a) PROVE Result
  <2>1. /\ UNCHANGED <<task, m_ScanTimer, watcher, m_Devices, gui>>
        /\ m_FoundDevices' = Append(m_FoundDevices, a)
        /\ m_FoundDevices \in Seq(Addresses)
        /\ Len(m_FoundDevices') = Len(m_FoundDevices) + 1
        /\ \A i \in 1..Len(m_FoundDevices) : m_FoundDevices'[i] = m_FoundDevices[i]
    BY <1>3, AppendNew DEF Received, TypeInv, TypeOK
  <2>2. Len(m_FoundDevices) \in Nat /\ Len(m_Devices) \in Nat
    BY LenProperties DEF TypeInv, TypeOK
  <2>3. \A t \in Tasks : task[t].prevFound \in Nat /\ task[t].foundDevices \in Nat
    BY DEF TypeInv, TypeOK
  <2> QED
    BY <1>1, <2>1, <2>2, <2>3 DEF Undisturbed, scanning
<1>4. CASE WatcherStopped
  BY <1>1, <1>4 DEF WatcherStopped, Undisturbed, scanning, Loop
<1>5. CASE AuthenticationChanges \/ UNCHANGED vars
  BY <1>1, <1>5 DEF AuthenticationChanges, vars, Undisturbed, scanning
<1>6. ASSUME UNCHANGED <<task, m_ScanTimer, watcher, m_FoundDevices, m_Devices>>,
             gui.pc # "spin"
      PROVE  Result
  BY <1>1, <1>6 DEF Undisturbed, scanning
<1>7. CASE NotScanning \/ EndTimeLimitedScan \/ TimerTested
  BY <1>6, <1>7 DEF NotScanning, EndTimeLimitedScan, TimerTested, GuiMoves
<1>8. CASE RecreateList
  <2>1. CASE RecreateScan
    <3>1. PICK t \in Tasks : task[t].pc = "idle" /\ task' = [task EXCEPT ![t].pc = "spawned"]
      BY <2>1 DEF RecreateScan, SpawnTimeLimitedScan
    <3>2. \A u \in Tasks : task[u].pc = "idle"
      BY <2>1 DEF RecreateScan, SpawnTimeLimitedScan
    <3>3. m_Devices' = <<>>
      BY <2>1 DEF RecreateScan
    <3>4. /\ task'[t].pc = "spawned"
          /\ \A u \in Tasks \ {t} : task'[u].pc = "idle"
      BY <3>1, <3>2 DEF TypeInv, TypeOK
    <3> QED
      BY <3>3, <3>4 DEF Undisturbed, Loop
  <2>2. CASE UNCHANGED <<task, m_Devices, raced>>
    BY <1>6, <1>8, <2>2 DEF RecreateList, GuiMoves
  <2> QED
    BY <1>8, <2>1, <2>2 DEF RecreateList
<1>9. CASE TimerStopped
  <2>1. gui'.pc = "spin"
    BY <1>9 DEF TimerStopped, GuiMoves, TypeInv, TypeOK
  <2> QED
    BY <1>1, <1>9, <2>1 DEF TimerStopped, Undisturbed, scanning
<1>10. CASE SpinEnds
  <2>1. \A t \in Tasks : task[t].pc \notin Loop \cup {"ending"}
    BY <1>1, <1>10 DEF SpinEnds, Undisturbed
  <2> QED
    BY <1>1, <1>10, <2>1 DEF SpinEnds, Undisturbed, Loop
<1>11. CASE ClearList
  <2>1. CASE gui.quit
    BY <1>6, <1>11, <2>1 DEF ClearList, GuiMoves
  <2>2. CASE ~gui.quit
    <3>1. \A t \in Tasks : task[t].pc \notin Running
      BY <1>11, <2>2 DEF ClearList
    <3>2. m_Devices' = <<>> /\ UNCHANGED task
      BY <1>11, <2>2 DEF ClearList
    <3> QED
      BY <1>1, <3>1, <3>2 DEF Undisturbed, Running, Loop
  <2> QED
    BY <2>1, <2>2
<1>12. \/ \E t \in Tasks : TaskStep(t)
       \/ \E a \in Addresses : Received(a)
       \/ WatcherStopped \/ AuthenticationChanges \/ UNCHANGED vars
       \/ NotScanning \/ EndTimeLimitedScan \/ RecreateList
       \/ TimerTested \/ TimerStopped \/ SpinEnds \/ ClearList
  BY DEF Next, GuiStep
<1> QED
  BY <1>2, <1>3, <1>4, <1>5, <1>7, <1>8, <1>9, <1>10, <1>11, <1>12

LEMMA OrderlyInit == Init => Orderly
BY DEF Init, Orderly, AloneAndUndisturbed, NotBegun, Undisturbed, IdleTask, TaskAt, Loop

LEMMA OrderlyStep == TypeInv /\ Orderly /\ [Next]_vars => Orderly'
BY AloneStep, NotBegunStep DEF Orderly

LEMMA OrderlyAlways == Spec => [](TypeInv /\ Orderly)
BY TypeInit, TypeStep, OrderlyInit, OrderlyStep, PTL DEF Spec

\* Unless threads have raced, the server was given exactly the devices found
\* first, each once and in order (CDeviceList.cpp:132-147).
THEOREM HandedOutInOrderAlways == Spec => []HandedOutInOrder
<1>1. TypeInv /\ Orderly => HandedOutInOrder
  <2> SUFFICES ASSUME TypeInv, Orderly, NEW t \in Tasks, task[t].pc \in Loop, ~raced
               PROVE  /\ task[t].prevFound <= Len(m_FoundDevices)
                      /\ m_Devices = SubSeq(m_FoundDevices, 1, task[t].prevFound)
    BY DEF HandedOutInOrder
  <2> DEFINE n == task[t].prevFound
             s == SubSeq(m_FoundDevices, 1, n)
  <2>1. /\ n \in Nat
        /\ n = Len(m_Devices)
        /\ n <= Len(m_FoundDevices)
        /\ \A i \in 1..n : m_Devices[i] = m_FoundDevices[i]
        /\ m_FoundDevices \in Seq(Addresses) /\ m_Devices \in Seq(Addresses)
    BY DEF TypeInv, TypeOK, Orderly, AloneAndUndisturbed, Undisturbed
  <2>2. \A i \in 1..n : m_FoundDevices[i] \in Addresses
    BY <2>1, ElementOfSeq, LenProperties
  <2> HIDE DEF n
  <2>3. /\ s \in Seq(Addresses)
        /\ Len(s) = IF 1 <= n THEN n - 1 + 1 ELSE 0
        /\ \A i \in 1..(n - 1 + 1) : s[i] = m_FoundDevices[1 + i - 1]
    BY <2>1, <2>2, SubSeqProperties
  <2> HIDE DEF s
  <2>4. n - 1 + 1 = n /\ \A i \in 1..n : 1 + i - 1 = i
    BY <2>1
  <2>5. Len(s) = n /\ \A i \in 1..n : s[i] = m_FoundDevices[i]
    BY <2>1, <2>3, <2>4
  <2>6. m_Devices = s
    BY <2>1, <2>3, <2>5, SeqEqual
  <2> QED
    BY <2>1, <2>6 DEF s, n
<1> QED
  BY <1>1, OrderlyAlways, PTL

LEMMA AssertionStep ==
    TypeInv /\ Orderly /\ AssertionsExplained /\ [Next]_vars => AssertionsExplained'
<1> SUFFICES ASSUME TypeInv, Orderly, AssertionsExplained, [Next]_vars
             PROVE  AssertionsExplained'
  OBVIOUS
<1>1. CASE UNCHANGED vars
  BY <1>1 DEF vars, AssertionsExplained
<1>2. CASE trapped' = "none"
  BY <1>2 DEF AssertionsExplained
<1>3. ASSUME NEW t \in Tasks, TaskStep(t), trapped = "none" PROVE AssertionsExplained'
  <2>1. CASE StopScan(t)
    <3>1. ~raced /\ ~m_ScanTimer => gui.pc = "spin"
      BY <2>1 DEF StopScan, Orderly, AloneAndUndisturbed, Undisturbed
    <3>2. /\ trapped' = IF m_ScanTimer THEN "none" ELSE "stop"
          /\ UNCHANGED <<gui, raced>>
      BY <1>3, <2>1 DEF StopScan
    <3>3. trapped' # "retrieve"
      BY <3>2
    <3>4. trapped' = "stop" => ~m_ScanTimer
      BY <3>2
    <3> QED
      BY <3>1, <3>2, <3>3, <3>4 DEF AssertionsExplained
  <2>2. CASE Fetch(t)
    <3>1. CASE raced
      BY <1>3, <2>2, <3>1 DEF Fetch, AssertionsExplained
    <3>2. CASE ~raced
      BY <1>3, <2>2, <3>2, FetchKeepsOrder
         DEF Orderly, AloneAndUndisturbed, AssertionsExplained
    <3> QED
      BY <3>1, <3>2
  <2>3. CASE ~StopScan(t) /\ ~Fetch(t)
    BY <1>3, <2>3, <1>2 DEF TaskStep, StartTimer, BeginScan, TestTimer, ContinueScan, Poll,
                            EndScan
  <2> QED
    BY <2>1, <2>2, <2>3
<1>4. CASE TimerStopped /\ trapped = "none"
  <2>1. gui'.pc = "spin"
    BY <1>4 DEF TimerStopped, GuiMoves, TypeInv, TypeOK
  <2>2. trapped' # "retrieve"
    BY <1>4 DEF TimerStopped
  <2> QED
    BY <2>1, <2>2 DEF AssertionsExplained
<1>5. CASE UNCHANGED trapped /\ trapped = "none"
  BY <1>2, <1>5
<1>6. ASSUME NEW a \in Addresses, Received(a), trapped = "none" PROVE AssertionsExplained'
  BY <1>5, <1>6 DEF Received
<1>7. CASE /\ WatcherStopped \/ AuthenticationChanges \/ NotScanning \/ EndTimeLimitedScan
           /\ trapped = "none"
  BY <1>5, <1>7 DEF WatcherStopped, AuthenticationChanges, NotScanning, EndTimeLimitedScan
<1>8. CASE (RecreateList \/ TimerTested \/ SpinEnds \/ ClearList) /\ trapped = "none"
  BY <1>5, <1>8 DEF RecreateList, TimerTested, SpinEnds, ClearList
<1> QED
  BY <1>1, <1>3, <1>4, <1>6, <1>7, <1>8 DEF Next, GuiStep

\* A retrieval is out of bounds only after a race; a stopped timer is stopped
\* only after a race or while the GUI thread ends the scan (CScanner.cpp:96-99,
\* CStopWatch.hpp:48).
THEOREM AssertionsExplainedAlways == Spec => []AssertionsExplained
<1>1. Init => AssertionsExplained
  BY DEF Init, AssertionsExplained
<1> QED
  BY <1>1, OrderlyAlways, AssertionStep, PTL DEF Spec
=============================================================================
