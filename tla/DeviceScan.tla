------------------------------ MODULE DeviceScan ------------------------------
(***************************************************************************)
(* The time limited scan of CDeviceList and the CScanner below it.         *)
(*                                                                         *)
(* The GUI thread asks for a scan whenever there is no server and none is  *)
(* running; a task of the executor runs it: it starts the advertisement    *)
(* watcher, hands new devices over to the server as they are found, and    *)
(* ends after 25 s, on authentication, or when the GUI thread stops the    *)
(* timer.  The watcher reports devices on a thread of its own.             *)
(*                                                                         *)
(* m_pMutex of the list guards the list and some uses of the timer, that   *)
(* of the scanner the found devices, except in begin_scan.                 *)
(***************************************************************************)
EXTENDS Naturals, Sequences, SequencesExt

CONSTANTS
    Tasks,          \* scan tasks the executor can hold at a time (bound)
    Addresses       \* devices in range

VARIABLES
    task,           \* task[t]: where the task is, prevFound, foundDevices
    m_ScanTimer,    \* m_ScanTimer.active()
    watcher,        \* BluetoothLEAdvertisementWatcher::Status
    m_FoundDevices, \* m_FoundDevices, m_DeviceCache and m_Count in one
    m_Devices,      \* the list, which is also what the server was given
    authenticated,  \* m_pServer->is_authenticated()
    gui,            \* where the GUI thread is
    raced,          \* history: two scans were spawned at a time, or two threads
                    \* were in unguarded data
    trapped         \* the assertion that has failed

vars == <<task, m_ScanTimer, watcher, m_FoundDevices, m_Devices, authenticated, gui,
          raced, trapped>>

Loop    == {"top", "decide", "poll", "fetch"}
Running == Loop \cup {"begin", "ending"}

TaskAt(pc, prevFound, foundDevices) ==
    [pc |-> pc, prevFound |-> prevFound, foundDevices |-> foundDevices]

IdleTask == TaskAt("idle", 0, 0)

TypeOK ==
    /\ task \in [Tasks -> [pc : Running \cup {"idle", "spawned"},
                           prevFound : Nat,
                           foundDevices : Nat]]
    /\ m_ScanTimer \in BOOLEAN
    /\ watcher \in {"stopped", "started", "stopping"}
    /\ m_FoundDevices \in Seq(Addresses) /\ IsInjective(m_FoundDevices)
    /\ m_Devices \in Seq(Addresses)
    /\ authenticated \in BOOLEAN
    /\ gui \in [pc : {"frame", "recreate", "check", "stop", "spin", "clear", "gone"},
                quit : BOOLEAN]
    /\ raced \in BOOLEAN
    /\ trapped \in {"none", "stop", "retrieve"}

Init ==
    /\ task = [t \in Tasks |-> IdleTask]
    /\ m_ScanTimer = FALSE
    /\ watcher = "stopped"
    /\ m_FoundDevices = <<>>
    /\ m_Devices = <<>>
    /\ authenticated = FALSE
    /\ gui = [pc |-> "frame", quit |-> FALSE]
    /\ raced = FALSE
    /\ trapped = "none"

scanning == watcher = "started"

\* The GUI thread holds m_pMutex between its test of the timer and stop().
ListLocked == gui.pc = "stop"

-----------------------------------------------------------------------------
\* The task: CDeviceList::time_limited_scan.

StartTimer(t) ==
    /\ task[t].pc = "spawned"
    /\ ~ListLocked
    /\ m_ScanTimer' = TRUE
    /\ task' = [task EXCEPT ![t].pc = "begin"]
    /\ UNCHANGED <<watcher, m_FoundDevices, m_Devices, authenticated, gui, raced, trapped>>

\* CScanner::begin_scan, without the scanner's mutex: a race if the watcher can
\* still report.
BeginScan(t) ==
    /\ task[t].pc = "begin"
    /\ m_FoundDevices' = <<>>
    /\ watcher' = "started"
    /\ task' = [task EXCEPT ![t].pc = "top"]
    /\ raced' = (raced \/ watcher # "stopped")
    /\ UNCHANGED <<m_ScanTimer, m_Devices, authenticated, gui, trapped>>

\* The loop's condition.
TestTimer(t) ==
    /\ task[t].pc = "top"
    /\ task' = [task EXCEPT ![t].pc = IF m_ScanTimer THEN "decide" ELSE "ending"]
    /\ UNCHANGED <<m_ScanTimer, watcher, m_FoundDevices, m_Devices, authenticated, gui,
                   raced, trapped>>

\* Mutants of StopScan: the loop is left without stop(); it is left only when a
\* server is authenticated.
StopScanBreaks(t) ==
    /\ task[t].pc = "decide"
    /\ task' = [task EXCEPT ![t].pc = "ending"]
    /\ UNCHANGED <<m_ScanTimer, watcher, m_FoundDevices, m_Devices, authenticated, gui,
                   raced, trapped>>

StopScanAuthenticated(t) ==
    /\ task[t].pc = "decide"
    /\ authenticated
    /\ m_ScanTimer' = FALSE
    /\ task' = [task EXCEPT ![t].pc = "ending"]
    /\ trapped' = IF m_ScanTimer THEN trapped ELSE "stop"
    /\ UNCHANGED <<watcher, m_FoundDevices, m_Devices, authenticated, gui, raced>>

\* 25 s are over or a server is authenticated: stop(), which asserts that the
\* timer is active.
StopScan(t) ==
    /\ task[t].pc = "decide"
    /\ m_ScanTimer' = FALSE
    /\ task' = [task EXCEPT ![t].pc = "ending"]
    /\ trapped' = IF m_ScanTimer THEN trapped ELSE "stop"
    /\ UNCHANGED <<watcher, m_FoundDevices, m_Devices, authenticated, gui, raced>>

ContinueScan(t) ==
    /\ task[t].pc = "decide"
    /\ ~authenticated
    /\ task' = [task EXCEPT ![t].pc = "poll"]
    /\ UNCHANGED <<m_ScanTimer, watcher, m_FoundDevices, m_Devices, authenticated, gui,
                   raced, trapped>>

\* Mutant of Poll: <= for <.
PollOrEqual(t) ==
    LET found == Len(m_FoundDevices) IN
    /\ task[t].pc = "poll"
    /\ task' = [task EXCEPT ![t] = TaskAt(IF @.prevFound <= found THEN "fetch" ELSE "top",
                                          @.prevFound, found)]
    /\ UNCHANGED <<m_ScanTimer, watcher, m_FoundDevices, m_Devices, authenticated, gui,
                   raced, trapped>>

\* num_devices().load().
Poll(t) ==
    LET found == Len(m_FoundDevices) IN
    /\ task[t].pc = "poll"
    /\ task' = [task EXCEPT ![t] = TaskAt(IF @.prevFound < found THEN "fetch" ELSE "top",
                                          @.prevFound, found)]
    /\ UNCHANGED <<m_ScanTimer, watcher, m_FoundDevices, m_Devices, authenticated, gui,
                   raced, trapped>>

\* retrieve_n_devices(prevFound, foundDevices - prevFound) ends there: n is
\* limited to the number of devices, not to what is left after prevFound.
RetrievedEnd(prevFound, foundDevices) ==
    IF foundDevices - prevFound < Len(m_FoundDevices)
    THEN foundDevices
    ELSE prevFound + Len(m_FoundDevices)

\* New devices go to the server and into the list; or the assertion on the index
\* fails, or the range is past the end.
Fetch(t) ==
    LET prev == task[t].prevFound
        end == RetrievedEnd(prev, task[t].foundDevices)
    IN
    /\ task[t].pc = "fetch"
    /\ ~ListLocked
    /\ IF prev < Len(m_FoundDevices) /\ end <= Len(m_FoundDevices)
       THEN /\ m_Devices' = m_Devices \o SubSeq(m_FoundDevices, prev + 1, end)
            /\ task' = [task EXCEPT ![t].pc = "top", ![t].prevFound = Len(m_Devices')]
            /\ UNCHANGED trapped
       ELSE /\ trapped' = "retrieve"
            /\ UNCHANGED <<task, m_Devices>>
    /\ UNCHANGED <<m_ScanTimer, watcher, m_FoundDevices, authenticated, gui, raced>>

EndScan(t) ==
    /\ task[t].pc = "ending"
    /\ watcher' = IF scanning THEN "stopping" ELSE watcher
    /\ task' = [task EXCEPT ![t] = IdleTask]
    /\ UNCHANGED <<m_ScanTimer, m_FoundDevices, m_Devices, authenticated, gui, raced, trapped>>

TaskStep(t) ==
    \/ StartTimer(t) \/ BeginScan(t) \/ TestTimer(t) \/ StopScan(t) \/ ContinueScan(t)
    \/ Poll(t) \/ Fetch(t) \/ EndScan(t)

-----------------------------------------------------------------------------
\* The watcher.

\* Mutant of Received: m_DeviceCache is not asked.
ReceivedAgain(a) ==
    /\ watcher # "stopped"
    /\ m_FoundDevices' = Append(m_FoundDevices, a)
    /\ UNCHANGED <<task, m_ScanTimer, watcher, m_Devices, authenticated, gui, raced, trapped>>

\* An address that was reported before in this scan is ignored.
Received(a) ==
    /\ watcher # "stopped"
    /\ ~Contains(m_FoundDevices, a)
    /\ m_FoundDevices' = Append(m_FoundDevices, a)
    /\ UNCHANGED <<task, m_ScanTimer, watcher, m_Devices, authenticated, gui, raced, trapped>>

WatcherStopped ==
    /\ watcher = "stopping"
    /\ watcher' = "stopped"
    /\ UNCHANGED <<task, m_ScanTimer, m_FoundDevices, m_Devices, authenticated, gui, raced,
                   trapped>>

-----------------------------------------------------------------------------
\* The GUI thread.

GuiMoves(from, to) ==
    /\ gui.pc = from
    /\ gui' = [gui EXCEPT !.pc = to]

\* The main loop: no server is authenticated, the scanner is idle.
NotScanning ==
    /\ ~authenticated
    /\ ~scanning
    /\ GuiMoves("frame", "recreate")
    /\ UNCHANGED <<task, m_ScanTimer, watcher, m_FoundDevices, m_Devices, authenticated,
                   raced, trapped>>

SpawnTimeLimitedScan ==
    /\ \E t \in Tasks : /\ task[t].pc = "idle"
                        /\ task' = [task EXCEPT ![t].pc = "spawned"]
    /\ raced' = (raced \/ \E t \in Tasks : task[t].pc # "idle")

\* Mutant of RecreateScan: the list is not cleared.
RecreateScanKeepsList ==
    /\ ~m_ScanTimer /\ ~scanning
    /\ UNCHANGED m_Devices
    /\ SpawnTimeLimitedScan

\* A task that an earlier frame has spawned may not have set the timer yet.
RecreateScan ==
    /\ ~m_ScanTimer /\ ~scanning
    /\ m_Devices' = <<>>
    /\ SpawnTimeLimitedScan

RecreateList ==
    /\ GuiMoves("recreate", "frame")
    /\ \/ RecreateScan
       \/ /\ m_ScanTimer \/ scanning \/ \A t \in Tasks : task[t].pc # "idle"
          /\ UNCHANGED <<task, m_Devices, raced>>
    /\ UNCHANGED <<m_ScanTimer, watcher, m_FoundDevices, authenticated, trapped>>

\* "Delete Keys", or the destructor at the end: end_time_limited_scan.
EndTimeLimitedScan ==
    /\ gui.pc = "frame"
    /\ gui' \in [pc : {IF scanning THEN "check" ELSE "clear"}, quit : BOOLEAN]
    /\ UNCHANGED <<task, m_ScanTimer, watcher, m_FoundDevices, m_Devices, authenticated,
                   raced, trapped>>

TimerTested ==
    /\ GuiMoves("check", IF m_ScanTimer THEN "stop" ELSE "spin")
    /\ UNCHANGED <<task, m_ScanTimer, watcher, m_FoundDevices, m_Devices, authenticated,
                   raced, trapped>>

TimerStopped ==
    /\ GuiMoves("stop", "spin")
    /\ m_ScanTimer' = FALSE
    /\ trapped' = IF m_ScanTimer THEN trapped ELSE "stop"
    /\ UNCHANGED <<task, watcher, m_FoundDevices, m_Devices, authenticated, raced>>

SpinEnds ==
    /\ ~scanning
    /\ GuiMoves("spin", "clear")
    /\ UNCHANGED <<task, m_ScanTimer, watcher, m_FoundDevices, m_Devices, authenticated,
                   raced, trapped>>

\* clear_list clears without the mutex, a race if a task is in its scan; the
\* destructor just goes on.
ClearList ==
    /\ GuiMoves("clear", IF gui.quit THEN "gone" ELSE "frame")
    /\ IF gui.quit
       THEN UNCHANGED <<m_Devices, raced>>
       ELSE /\ m_Devices' = <<>>
            /\ raced' = (raced \/ \E t \in Tasks : task[t].pc \in Running)
    /\ UNCHANGED <<task, m_ScanTimer, watcher, m_FoundDevices, authenticated, trapped>>

GuiStep == TimerTested \/ TimerStopped \/ SpinEnds \/ ClearList

\* The server is granted or loses authentication (module ServerAuth).
AuthenticationChanges ==
    /\ authenticated' = ~authenticated
    /\ UNCHANGED <<task, m_ScanTimer, watcher, m_FoundDevices, m_Devices, gui, raced, trapped>>

Next ==
    /\ trapped = "none"
    /\ gui.pc # "gone"
    /\ \/ \E t \in Tasks : TaskStep(t)
       \/ \E a \in Addresses : Received(a)
       \/ WatcherStopped
       \/ NotScanning \/ RecreateList \/ EndTimeLimitedScan \/ GuiStep
       \/ AuthenticationChanges

Spec == Init /\ [][Next]_vars

\* The executor runs its tasks, the GUI thread runs, and 25 s pass: a task that
\* comes to its test again and again finds the time over.
Live(A) == trapped = "none" /\ gui.pc # "gone" /\ A

Fairness ==
    /\ \A t \in Tasks : WF_vars(Live(TaskStep(t))) /\ SF_vars(Live(StopScan(t)))
    /\ WF_vars(Live(GuiStep))
    /\ WF_vars(Live(RecreateList))

FairSpec == Spec /\ Fairness

-----------------------------------------------------------------------------
\* Properties.

\* The timer runs and the watcher is started only while a task is there to stop
\* them, even if tasks overlap: otherwise recreate_list would never start a scan
\* again (CDeviceList.cpp:111-163).
ScanOwned ==
    /\ m_ScanTimer => \E t \in Tasks : task[t].pc \in Loop \cup {"begin"}
    /\ scanning => \E t \in Tasks : task[t].pc \in Running

\* Unless threads have raced, the server was given exactly the devices found
\* first, each once and in order, whatever was found between the poll and the
\* fetch (CDeviceList.cpp:132-147, CScanner.cpp:93-105).
HandedOutInOrder ==
    \A t \in Tasks :
        task[t].pc \in Loop /\ ~raced =>
            /\ task[t].prevFound <= Len(m_FoundDevices)
            /\ m_Devices = SubSeq(m_FoundDevices, 1, task[t].prevFound)

\* A retrieval out of bounds takes a race; stopping a stopped timer takes a race
\* or the GUI thread ending the scan at the same time (CScanner.cpp:96-99,
\* CStopWatch.hpp:48).
AssertionsExplained ==
    /\ trapped = "retrieve" => raced
    /\ trapped = "stop" => raced \/ gui.pc = "spin"

\* The spin of end_time_limited_scan ends, even if another task starts a scan
\* meanwhile (CDeviceList.cpp:186-188).
SpinReturns == gui.pc = "spin" ~> (gui.pc # "spin" \/ trapped # "none")
=============================================================================
