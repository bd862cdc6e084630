------------------------------- MODULE MainLoop -------------------------------
(***************************************************************************)
(* The client's main thread: the window with its tray icon, the loop that  *)
(* draws frames and decides to hibernate, the plot it decides by, and the  *)
(* exit.                                                                   *)
(*                                                                         *)
(* Coroutines run meanwhile on threads of the system: they write demands,  *)
(* revoke the authentication and show warnings in the tray.  Which server  *)
(* is authenticated is the business of module ServerAuth, which answer     *)
(* belongs to which demand that of RssiExchange; here a server is there or *)
(* not, and answers are values.                                            *)
(***************************************************************************)
EXTENDS Integers, Sequences, FiniteSets, SequencesExt

CONSTANTS
    Coroutines,     \* coroutines that write a demand (bound)
    Values,         \* RSSI values, in dBm
    Threshold,      \* HIBERNATION_THRESHOLD
    m_MaxSize,      \* size of the plot's buffer
    MaxQueue,       \* answers between two frames (bound)
    MaxAttempts,    \* attempts at making the tray icon
    None            \* nobody, nothing

ASSUME MainLoopAssumption ==
    /\ Values \subseteq Int
    /\ Threshold \in Int
    /\ Threshold <= 0
    /\ m_MaxSize \in Nat \ {0, 1}
    /\ MaxQueue \in Nat
    /\ MaxAttempts \in Nat \ {0}
    /\ None \notin {"temporary", "expected", "m_SystemTray"}

VARIABLES
    main,           \* where the main thread is
    attempts,       \* attempts at making the tray icon so far
    tray,           \* the CTrayIcon objects, SDL's message hook, the shell's icon
    failed,         \* the call that failed when the tray icon was taken down
    exit,           \* the loop is to end
    keys,           \* keys_exists()
    m_Server,       \* CServer::is_authenticated()
    linkUp,         \* what ConnectionStatus() of the server's device says
    scanning,       \* CScanner::scanning()
    receiver,       \* the server the demander of the plot is subscribed with
    m_Queue,        \* answers the plot has not fetched yet
    m_Values,       \* CRSSIPlot::m_Values
    answers,        \* history: the last m_MaxSize answers that this plot fetched,
                    \* None once one of them was 0
    co,             \* co[c]: coroutine c
    far             \* the token is far away, its answers are below Threshold

windowVars == <<attempts, tray, failed>>
serverVars == <<keys, m_Server, linkUp, scanning>>
plotVars == <<receiver, m_Queue, m_Values, answers>>
vars == <<main, windowVars, exit, serverVars, plotVars, co, far>>

Cells == {"temporary", "expected", "m_SystemTray"}

\* There is no CTrayIcon object.
NoTrayIcon == [icon |-> [c \in Cells |-> "none"], hook |-> None, shell |-> FALSE]

\* The machine is awake and the client is there.
Running == main \notin {"asleep", "exited", "crashed"}

\* The window's messages are pumped, by process_events() in the end.
Looping == Running /\ main \notin {"window", "wait", "destroy"}

TypeOK ==
    /\ main \in {"window", "frame", "unserved", "recreate", "suspend", "asleep", "events",
                 "menu", "list", "address", "plot", "wait", "destroy", "exited", "crashed"}
    /\ attempts \in 0..MaxAttempts
    /\ tray \in [icon  : [Cells -> {"none", "whole", "moved"}],
                 hook  : Cells \cup {None},
                 shell : BOOLEAN]
    /\ failed \in {"nothing", "handle", "delete"}
    /\ exit \in BOOLEAN
    /\ keys \in BOOLEAN
    /\ m_Server \in BOOLEAN
    /\ linkUp \in BOOLEAN
    /\ scanning \in BOOLEAN
    /\ receiver \in {"none", "former", "current"}
    /\ m_Queue \in Seq(Values) /\ Len(m_Queue) <= MaxQueue
    /\ m_Values \in Seq(Values \cup {0}) /\ Len(m_Values) \in 1..m_MaxSize
    /\ answers # None => answers \in Seq(Values) /\ Len(answers) <= m_MaxSize
    /\ co \in [Coroutines -> {"free", "write", "popup"}]
    /\ far \in BOOLEAN

Init ==
    /\ main = "window"
    /\ attempts = 0
    /\ tray = NoTrayIcon
    /\ failed = "nothing"
    /\ exit = FALSE
    /\ keys \in BOOLEAN
    /\ m_Server = FALSE
    /\ linkUp = FALSE
    /\ scanning = FALSE
    /\ receiver = "none"
    /\ m_Queue = <<>>
    /\ m_Values = <<0>>
    /\ answers = <<>>
    /\ co = [c \in Coroutines |-> "free"]
    /\ far \in BOOLEAN

-----------------------------------------------------------------------------
\* CTrayIcon.

\* The constructor: the icon is in the shell, messages go to its callback.
Construct(t, c) == [icon |-> [t.icon EXCEPT ![c] = "whole"], hook |-> c, shell |-> TRUE]

\* Mutant of Move: messages still go to the callback of the icon moved from.
MoveKeepsHook(t, c, d) ==
    [icon |-> [t.icon EXCEPT ![d] = "whole", ![c] = "moved"], hook |-> t.hook, shell |-> t.shell]

\* The move constructor: the GUID goes along, messages go to the new callback.
Move(t, c, d) ==
    [icon |-> [t.icon EXCEPT ![d] = "whole", ![c] = "moved"], hook |-> d, shell |-> t.shell]

\* The destructor of an icon that has its GUID, unless it was moved from: no
\* hook, and no icon in the shell.  Without a window handle nothing happens.
Destroy(t, c, failure) ==
    LET destroyed == [t EXCEPT !.icon[c] = "none"] IN
    IF t.icon[c] # "whole" \/ failure = "handle" THEN destroyed
    ELSE [destroyed EXCEPT !.hook = None, !.shell = @ /\ failure = "delete"]

\* make() and what the window's constructor does with the result: a temporary,
\* moved into the std::expected, moved into m_SystemTray.
MakeTrayIcon(t) ==
    LET made    == Construct(t, "temporary")
        wrapped == Destroy(Move(made, "temporary", "expected"), "temporary", "nothing")
    IN  Destroy(Move(wrapped, "expected", "m_SystemTray"), "expected", "nothing")

-----------------------------------------------------------------------------
\* The window's constructor.

TrayIconMade ==
    /\ main = "window"
    /\ tray' = MakeTrayIcon(tray)
    /\ main' = "frame"
    /\ UNCHANGED <<attempts, failed, exit, serverVars, plotVars, co, far>>

\* No HWND from SDL, or NIM_ADD refused: the constructor throws.  After the last
\* attempt the program runs without a tray icon.
TrayIconFails ==
    /\ main = "window"
    /\ attempts' = attempts + 1
    /\ main' = IF attempts' = MaxAttempts THEN "frame" ELSE "window"
    /\ UNCHANGED <<tray, failed, exit, serverVars, plotVars, co, far>>

-----------------------------------------------------------------------------
\* CRSSIPlot.

\* Mutant of rssi_median: the lower of the two middle values.
LowerMedian(v) ==
    CHOOSE m \in ToSet(v) : /\ 2 * Cardinality({i \in DOMAIN v : v[i] < m}) < Len(v)
                            /\ 2 * Cardinality({i \in DOMAIN v : v[i] <= m}) >= Len(v)

\* The value at index size / 2 of the sorted values.
rssi_median(v) ==
    CHOOSE m \in ToSet(v) : /\ 2 * Cardinality({i \in DOMAIN v : v[i] < m}) <= Len(v)
                            /\ 2 * Cardinality({i \in DOMAIN v : v[i] <= m}) > Len(v)

\* Mutant of add_rssi_value: the front is not dropped, the back is.
ReplaceBack(v, rssi) ==
    IF Head(v) = 0 THEN [v EXCEPT ![1] = rssi]
    ELSE IF Len(v) < m_MaxSize THEN Append(v, rssi)
    ELSE Append(Front(v), rssi)

\* Mutant of add_rssi_value: one value too many is kept.
KeepOneMore(v, rssi) ==
    IF Head(v) = 0 THEN [v EXCEPT ![1] = rssi]
    ELSE IF Len(v) <= m_MaxSize THEN Append(v, rssi)
    ELSE Append(Tail(v), rssi)

\* Mutant of add_rssi_value: the full buffer is written at an index that stays.
OverwriteFront(v, rssi) ==
    IF Head(v) = 0 \/ Len(v) = m_MaxSize THEN [v EXCEPT ![1] = rssi]
    ELSE Append(v, rssi)

\* A 0 at the front stands for the empty buffer and is overwritten.
add_rssi_value(v, rssi) ==
    IF Head(v) = 0 THEN [v EXCEPT ![1] = rssi]
    ELSE IF Len(v) < m_MaxSize THEN Append(v, rssi)
    ELSE Append(Tail(v), rssi)

\* rssiPlot = CRSSIPlot{ make_rssi_demander() }.
NewPlot ==
    /\ receiver' = "none"
    /\ m_Queue' = <<>>
    /\ m_Values' = <<0>>
    /\ answers' = <<>>

Latest(s) == IF Len(s) > m_MaxSize THEN SubSeq(s, Len(s) - m_MaxSize + 1, Len(s)) ELSE s

\* rssi() and add_rssi_value() for each value.
FetchAnswers ==
    /\ m_Values' = FoldLeft(add_rssi_value, m_Values, m_Queue)
    /\ m_Queue' = <<>>
    /\ answers' = IF answers = None \/ 0 \in ToSet(m_Queue) THEN None
                  ELSE Latest(answers \o m_Queue)

-----------------------------------------------------------------------------
\* The loop: the decision.

Connected == m_Server /\ linkUp

\* The median is below the threshold and more than half of the buffer is used.
TooFar ==
    /\ rssi_median(m_Values) < Threshold
    /\ 2 * Len(m_Values) > m_MaxSize

\* keys_exists() and server.connected().
BeginFrame ==
    /\ main = "frame"
    /\ main' = IF ~keys THEN "events"
               ELSE IF ~Connected THEN "unserved"
               ELSE IF TooFar THEN "suspend" ELSE "events"
    /\ UNCHANGED <<windowVars, exit, serverVars, plotVars, co, far>>

\* server.is_authenticated(), which may have changed, and scanner.scanning().
CheckAuthenticated ==
    /\ main = "unserved"
    /\ main' = IF ~m_Server /\ ~scanning THEN "recreate" ELSE "events"
    /\ UNCHANGED <<windowVars, exit, serverVars, plotVars, co, far>>

\* A new scan and a new plot, whoever is the server by now.
Recreate ==
    /\ main = "recreate"
    /\ scanning' = TRUE
    /\ NewPlot
    /\ main' = "events"
    /\ UNCHANGED <<windowVars, exit, keys, m_Server, linkUp, co, far>>

\* cowabunga(): the machine goes to sleep within the call.
Suspend ==
    /\ main = "suspend"
    /\ main' = "asleep"
    /\ UNCHANGED <<windowVars, exit, serverVars, plotVars, co, far>>

\* The call fails, returns 0 and is taken for a success; auto_wakeup_timer() arms
\* a timer that wakes the machine within ten seconds, as the user may at any time.
SuspendFails ==
    /\ main = "suspend"
    /\ main' = "events"
    /\ UNCHANGED <<windowVars, exit, serverVars, plotVars, co, far>>

\* The machine is resumed.  The call returns a value other than 0, for which
\* WIN_CHECK breaks the program before a timer is armed.
Resume ==
    /\ main = "asleep"
    /\ main' = "crashed"
    /\ linkUp' = FALSE
    /\ UNCHANGED <<windowVars, exit, keys, m_Server, scanning, plotVars, co, far>>

\* A WIN_CHECK that fails: the icon cannot be loaded, a timer cannot be made.
SystemCallFails ==
    /\ main \in {"window", "suspend", "destroy"} \/ \E c \in Coroutines : co[c] = "popup" /\ Running
    /\ main' = "crashed"
    /\ UNCHANGED <<windowVars, exit, serverVars, plotVars, co, far>>

-----------------------------------------------------------------------------
\* The loop: events and drawing.

\* process_events(): messages pass the hook; the window may have been closed.
ProcessEvents ==
    /\ main = "events"
    /\ exit' \in {exit, TRUE}
    /\ main' = "menu"
    /\ UNCHANGED <<windowVars, serverVars, plotVars, co, far>>

AllCoroutinesFinished == \A c \in Coroutines : co[c] = "free"

NothingClicked ==
    /\ main = "menu"
    /\ main' = "list"
    /\ UNCHANGED <<windowVars, exit, serverVars, plotVars, co, far>>

\* "Generate Keys" is enabled without keys; the plot there is stays.
GenerateKeys ==
    /\ main = "menu"
    /\ ~keys
    /\ AllCoroutinesFinished
    /\ keys' = TRUE
    /\ main' = "list"
    /\ UNCHANGED <<windowVars, exit, m_Server, linkUp, scanning, plotVars, co, far>>

\* "Delete Keys": a new plot, the scan ends, the server stays.
DeleteKeys ==
    /\ main = "menu"
    /\ AllCoroutinesFinished
    /\ keys' = FALSE
    /\ scanning' = FALSE
    /\ NewPlot
    /\ main' = "list"
    /\ UNCHANGED <<windowVars, exit, m_Server, linkUp, co, far>>

\* CDeviceList::device_list() draws an open node: is there a server?
DrawList ==
    /\ main = "list"
    /\ main' = IF m_Server THEN "address" ELSE "plot"
    /\ UNCHANGED <<windowVars, exit, serverVars, plotVars, co, far>>

\* server_address(): without a server, an empty optional is dereferenced, which
\* a checked build stops at.
DrawAddress ==
    /\ main = "address"
    /\ main' \in IF m_Server THEN {"plot"} ELSE {"plot", "crashed"}
    /\ UNCHANGED <<windowVars, exit, serverVars, plotVars, co, far>>

\* CRSSIPlot::plot(), the last of a frame.  Every demand interval the demander
\* demands, or subscribes first.
Plot ==
    /\ main = "plot"
    /\ \/ UNCHANGED <<receiver, co>>
       \/ /\ m_Server /\ receiver = "current"
          /\ \E c \in Coroutines : co[c] = "free" /\ co' = [co EXCEPT ![c] = "write"]
          /\ UNCHANGED receiver
       \/ /\ m_Server /\ receiver # "current"
          /\ receiver' = "current"
          /\ UNCHANGED co
    /\ FetchAnswers
    /\ main' = IF exit THEN "wait" ELSE "frame"
    /\ UNCHANGED <<windowVars, exit, serverVars, far>>

-----------------------------------------------------------------------------
\* The exit.

\* Mutant of WaitForAll: nobody is waited for.
WaitForNobody ==
    /\ main = "wait"
    /\ main' = "destroy"
    /\ UNCHANGED <<windowVars, exit, serverVars, plotVars, co, far>>

WaitForAll ==
    /\ main = "wait"
    /\ AllCoroutinesFinished
    /\ main' = "destroy"
    /\ UNCHANGED <<windowVars, exit, serverVars, plotVars, co, far>>

\* The destructors, the window's last but two: its tray icon, then itself.
DestroyWindow ==
    /\ main = "destroy"
    /\ failed' \in IF tray.icon["m_SystemTray"] = "whole" THEN {"nothing", "handle", "delete"}
                                                         ELSE {"nothing"}
    /\ tray' = Destroy(tray, "m_SystemTray", failed')
    /\ main' = "exited"
    /\ UNCHANGED <<attempts, exit, serverVars, plotVars, co, far>>

-----------------------------------------------------------------------------
\* The coroutines, try_demand_rssi().

DemandWritten(c) ==
    /\ Running
    /\ co[c] = "write"
    /\ co' = [co EXCEPT ![c] = "free"]
    /\ UNCHANGED <<main, windowVars, exit, serverVars, plotVars, far>>

\* Access denied or a protocol error: a warning.
DemandRefused(c) ==
    /\ Running
    /\ co[c] = "write"
    /\ co' = [co EXCEPT ![c] = "popup"]
    /\ UNCHANGED <<main, windowVars, exit, serverVars, plotVars, far>>

Revoke ==
    /\ m_Server' = FALSE
    /\ receiver' = IF receiver = "current" THEN "former" ELSE receiver

DemandUnreachable(c) ==
    /\ Running
    /\ co[c] = "write"
    /\ Revoke
    /\ co' = [co EXCEPT ![c] = "popup"]
    /\ UNCHANGED <<main, windowVars, exit, keys, linkUp, scanning,
                   m_Queue, m_Values, answers, far>>

\* popup_warning() through a plain pointer to the window, without a tray icon only
\* a line in the log.  The icon's contents are set, its state does not change.
Popup(c) ==
    /\ Running
    /\ co[c] = "popup"
    /\ co' = [co EXCEPT ![c] = "free"]
    /\ UNCHANGED <<main, windowVars, exit, serverVars, plotVars, far>>

CoroutineStep(c) == DemandWritten(c) \/ DemandRefused(c) \/ DemandUnreachable(c) \/ Popup(c)

-----------------------------------------------------------------------------
\* The surroundings.

\* A receiver puts an answer into the demander's queue.
Answer(rssi) ==
    /\ Looping
    /\ receiver # "none"
    /\ Len(m_Queue) < MaxQueue
    /\ far => rssi < Threshold
    /\ m_Queue' = Append(m_Queue, rssi)
    /\ UNCHANGED <<main, windowVars, exit, serverVars,
                   receiver, m_Values, answers, co, far>>

GrantAuthentication ==
    /\ Looping
    /\ ~m_Server
    /\ keys
    /\ m_Server' = TRUE
    /\ linkUp' \in BOOLEAN
    /\ UNCHANGED <<main, windowVars, exit, keys, scanning, plotVars, co, far>>

\* The handler of a lost connection has run.
RevokeAuthentication ==
    /\ Running
    /\ m_Server
    /\ Revoke
    /\ UNCHANGED <<main, windowVars, exit, keys, linkUp, scanning,
                   m_Queue, m_Values, answers, co, far>>

LinkChanges ==
    /\ Looping
    /\ linkUp' = ~linkUp
    /\ UNCHANGED <<main, windowVars, exit, keys, m_Server, scanning, plotVars, co, far>>

\* The time limited scan is over.
ScanEnds ==
    /\ Running
    /\ scanning
    /\ scanning' = FALSE
    /\ UNCHANGED <<main, windowVars, exit, keys, m_Server, linkUp, plotVars, co, far>>

TokenMoves ==
    /\ Looping
    /\ far' = ~far
    /\ UNCHANGED <<main, windowVars, exit, serverVars, plotVars, co>>

FrameStep ==
    \/ BeginFrame \/ CheckAuthenticated \/ Recreate \/ Suspend \/ SuspendFails
    \/ ProcessEvents \/ NothingClicked \/ GenerateKeys \/ DeleteKeys
    \/ DrawList \/ DrawAddress \/ Plot

Next ==
    \/ TrayIconMade \/ TrayIconFails
    \/ FrameStep
    \/ Resume \/ SystemCallFails
    \/ WaitForAll \/ DestroyWindow
    \/ \E c \in Coroutines : CoroutineStep(c)
    \/ \E rssi \in Values : Answer(rssi)
    \/ GrantAuthentication \/ RevokeAuthentication \/ LinkChanges \/ ScanEnds \/ TokenMoves

Spec == Init /\ [][Next]_vars

-----------------------------------------------------------------------------
\* Fairness.  The main thread goes on, awaited operations complete, an
\* authenticated token the client is subscribed with answers again and again,
\* and hibernation is not refused for ever.  Nobody has to click or to close
\* the window.
Fairness ==
    /\ WF_vars(FrameStep)
    /\ SF_vars(Suspend)
    /\ \A c \in Coroutines : WF_vars(CoroutineStep(c))
    /\ SF_vars(m_Server /\ receiver = "current" /\ \E rssi \in Values : Answer(rssi))

FairSpec == Spec /\ Fairness

-----------------------------------------------------------------------------
\* Properties.

\* What the system calls back into is there: messages that are pumped reach the
\* callback of the tray icon that the window holds, never that of an icon moved
\* from or destroyed; a demand coroutine that will show a warning finds the window; and
\* the shell is left without icon unless taking it down has failed
\* (CTrayIcon.cpp:121-208, CWindow.cpp:26-53, main.cpp:278, CRssiDemander.cpp:269).
NothingDangles ==
    /\ Running => \/ tray.hook = None /\ ~tray.shell
                  \/ tray.hook = "m_SystemTray" /\ tray.icon["m_SystemTray"] = "whole"
    /\ main = "exited" => /\ \A c \in Coroutines : co[c] = "free"
                          /\ tray.shell => failed # "nothing"

\* The buffer that is shifted, overwritten and pushed to holds the last m_MaxSize
\* answers in their order, as long as no answer was 0 (CRSSIPlot.cpp:70-92).
PlotHoldsLatest == answers # None => m_Values = IF answers = <<>> THEN <<0>> ELSE answers

\* The machine is put to sleep only if more than half of the plot's values are
\* below the threshold and more than half of the plot is filled with answers of the
\* token, still when the call is made (main.cpp:227-231, CRSSIPlot.cpp:31-44).
MajorityLow ==
    [][main = "suspend" /\ main' = "asleep"
       => /\ 2 * Cardinality({i \in DOMAIN m_Values : m_Values[i] < Threshold}) > Len(m_Values)
          /\ 2 * Len(IF answers = None THEN m_Values ELSE answers) > m_MaxSize]_vars

\* A client that has its keys and stays connected to and subscribed with a token
\* that stays far away puts the machine to sleep (README.md:4).
Hearing == far /\ keys /\ Connected /\ receiver = "current"

HibernatesWhenFar == <>[](Hearing /\ main \notin {"wait", "destroy", "exited", "crashed"})
                     => <>(main = "asleep")
===============================================================================
