---------------------------- MODULE MainLoopProofs ----------------------------
(***************************************************************************)
(* Of the main loop, for every number of coroutines, of attempts at the    *)
(* tray icon and every size of the plot and of its queue: what the system  *)
(* calls back into is there; the plot's buffer holds the latest answers;   *)
(* the machine is put to sleep only by a majority of low ones.             *)
(*                                                                         *)
(* A fold is defined by a recursive function over sets of indices.  What   *)
(* it does is proved by induction on the number of values, and induction   *)
(* from the naturals being well founded, as a statement about sets.        *)
(***************************************************************************)
EXTENDS MainLoop, FiniteSetTheorems, SequenceTheorems, TLAPS

\* The tray icon is where it stays, and nowhere else.
HeldTrayIcon ==
    [icon  |-> [c \in Cells |-> IF c = "m_SystemTray" THEN "whole" ELSE "none"],
     hook  |-> "m_SystemTray",
     shell |-> TRUE]

\* The window's constructor has not made an icon yet; between it and the
\* destructor there is the one it holds, or none.
TrayInv ==
    /\ main = "window" => tray = NoTrayIcon
    /\ main \notin {"window", "exited", "crashed"} => tray \in {NoTrayIcon, HeldTrayIcon}
    /\ main = "exited" => /\ tray.shell => failed # "nothing"

\* Nobody demands once the main thread has waited.
QuietInv == main \in {"destroy", "exited"} => AllCoroutinesFinished

\* The inductive invariant.
IInv == TrayInv /\ QuietInv

-----------------------------------------------------------------------------
\* The three objects that CTrayIcon::make and the window's constructor create
\* leave the last one, with the hook on it.
LEMMA MadeTrayIcon == MakeTrayIcon(NoTrayIcon) = HeldTrayIcon
<1> DEFINE t1 == [icon  |-> [c \in Cells |-> IF c = "temporary" THEN "whole" ELSE "none"],
                  hook  |-> "temporary", shell |-> TRUE]
           t2 == [icon  |-> [c \in Cells |-> IF c = "temporary" THEN "moved"
                                             ELSE IF c = "expected" THEN "whole" ELSE "none"],
                  hook  |-> "expected", shell |-> TRUE]
           t3 == [icon  |-> [c \in Cells |-> IF c = "expected" THEN "whole" ELSE "none"],
                  hook  |-> "expected", shell |-> TRUE]
           t4 == [icon  |-> [c \in Cells |-> IF c = "expected" THEN "moved"
                                             ELSE IF c = "m_SystemTray" THEN "whole" ELSE "none"],
                  hook  |-> "m_SystemTray", shell |-> TRUE]
<1>1. Construct(NoTrayIcon, "temporary") = t1
  <2>1. [NoTrayIcon.icon EXCEPT !["temporary"] = "whole"] = t1.icon
    BY DEF NoTrayIcon, Cells
  <2> QED
    BY <2>1 DEF Construct
<1>2. Move(t1, "temporary", "expected") = t2
  <2>1. [t1.icon EXCEPT !["expected"] = "whole", !["temporary"] = "moved"] = t2.icon
    BY DEF Cells
  <2> QED
    BY <2>1 DEF Move
<1>3. Destroy(t2, "temporary", "nothing") = t3
  <2>1. [t2.icon EXCEPT !["temporary"] = "none"] = t3.icon
    BY DEF Cells
  <2>2. t2.icon["temporary"] # "whole"
    BY DEF Cells
  <2> QED
    BY <2>1, <2>2 DEF Destroy
<1>4. Move(t3, "expected", "m_SystemTray") = t4
  <2>1. [t3.icon EXCEPT !["m_SystemTray"] = "whole", !["expected"] = "moved"] = t4.icon
    BY DEF Cells
  <2> QED
    BY <2>1 DEF Move
<1>5. Destroy(t4, "expected", "nothing") = HeldTrayIcon
  <2>1. [t4.icon EXCEPT !["expected"] = "none"] = HeldTrayIcon.icon
    BY DEF Cells, HeldTrayIcon
  <2>2. t4.icon["expected"] # "whole"
    BY DEF Cells
  <2> QED
    BY <2>1, <2>2 DEF Destroy, HeldTrayIcon
<1> HIDE DEF t1, t2, t3, t4
<1> QED
  BY <1>1, <1>2, <1>3, <1>4, <1>5 DEF MakeTrayIcon

\* Taking down the icon there is leaves one in the shell only if a call fails.
LEMMA DestroyedTrayIcon ==
    ASSUME tray \in {NoTrayIcon, HeldTrayIcon}, NEW failure
    PROVE  Destroy(tray, "m_SystemTray", failure).shell
           => failure \in {"handle", "delete"}
<1>1. CASE tray = NoTrayIcon
  BY <1>1 DEF Destroy, NoTrayIcon, Cells
<1>2. CASE tray = HeldTrayIcon
  BY <1>2 DEF Destroy, HeldTrayIcon, Cells
<1> QED
  BY <1>1, <1>2

-----------------------------------------------------------------------------
\* The steps that move the main thread without touching the tray icon.
LEMMA MainMoves ==
    ASSUME TrayInv, UNCHANGED windowVars,
           main \notin {"window", "exited", "crashed"},
           main' \notin {"window", "exited"}
    PROVE  TrayInv'
BY DEF TrayInv, windowVars

\* The steps of a frame.
LEMMA FrameInductive == ASSUME IInv, FrameStep PROVE IInv'
<1>1. /\ UNCHANGED windowVars
      /\ main \notin {"window", "wait", "destroy", "exited", "crashed"}
      /\ main' \notin {"window", "destroy", "exited"}
  <2>1. CASE BeginFrame
    BY <2>1 DEF BeginFrame, windowVars
  <2>2. CASE CheckAuthenticated
    BY <2>2 DEF CheckAuthenticated, windowVars
  <2>3. CASE Recreate
    BY <2>3 DEF Recreate, windowVars
  <2>4. CASE Suspend \/ SuspendFails
    BY <2>4 DEF Suspend, SuspendFails, windowVars
  <2>5. CASE ProcessEvents
    BY <2>5 DEF ProcessEvents, windowVars
  <2>6. CASE NothingClicked \/ GenerateKeys \/ DeleteKeys
    BY <2>6 DEF NothingClicked, GenerateKeys, DeleteKeys, windowVars
  <2>7. CASE DrawList
    BY <2>7 DEF DrawList, windowVars
  <2>8. CASE DrawAddress
    BY <2>8 DEF DrawAddress, windowVars
  <2>9. CASE Plot
    BY <2>9 DEF Plot, windowVars
  <2> QED
    BY <2>1, <2>2, <2>3, <2>4, <2>5, <2>6, <2>7, <2>8, <2>9, FrameStep DEF FrameStep
<1>2. TrayInv'
  BY <1>1, MainMoves DEF IInv
<1>3. QuietInv'
  BY <1>1 DEF QuietInv
<1> QED
  BY <1>2, <1>3 DEF IInv

\* The steps of the coroutines and of the surroundings leave the main thread
\* where it is.
LEMMA OthersInductive ==
    ASSUME IInv,
           \/ \E c \in Coroutines : CoroutineStep(c)
           \/ \E rssi \in Values : Answer(rssi)
           \/ GrantAuthentication \/ RevokeAuthentication \/ LinkChanges \/ ScanEnds \/ TokenMoves
    PROVE  IInv'
<1>1. UNCHANGED <<main, windowVars>>
  BY DEF CoroutineStep, DemandWritten, DemandRefused, DemandUnreachable, Popup, Answer,
         GrantAuthentication, RevokeAuthentication, LinkChanges, ScanEnds, TokenMoves
<1>2. TrayInv'
  BY <1>1 DEF IInv, TrayInv, windowVars
<1>3. QuietInv'
  <2>1. CASE \E c \in Coroutines : CoroutineStep(c)
    <3>1. PICK c \in Coroutines : CoroutineStep(c)
      BY <2>1
    <3>2. co[c] # "free"
      BY <3>1 DEF CoroutineStep, DemandWritten, DemandRefused, DemandUnreachable, Popup
    <3> QED
      BY <1>1, <3>2 DEF IInv, QuietInv, AllCoroutinesFinished
  <2>2. CASE UNCHANGED co
    BY <1>1, <2>2 DEF IInv, QuietInv, AllCoroutinesFinished
  <2> QED
    BY <2>1, <2>2 DEF Answer, GrantAuthentication, RevokeAuthentication, LinkChanges, ScanEnds,
                      TokenMoves
<1> QED
  BY <1>2, <1>3 DEF IInv

\* The inductive invariant is inductive.
LEMMA Inductive == IInv /\ [Next]_vars => IInv'
<1> SUFFICES ASSUME IInv, [Next]_vars PROVE IInv'
  OBVIOUS
<1>1. CASE TrayIconMade
  BY <1>1, MadeTrayIcon DEF TrayIconMade, IInv, TrayInv, QuietInv
<1>2. CASE TrayIconFails
  BY <1>2 DEF TrayIconFails, IInv, TrayInv, QuietInv
<1>3. CASE FrameStep
  BY <1>3, FrameInductive
<1>4. CASE Resume \/ SystemCallFails
  BY <1>4 DEF Resume, SystemCallFails, IInv, TrayInv, QuietInv
<1>5. CASE WaitForAll
  BY <1>5 DEF WaitForAll, windowVars, AllCoroutinesFinished, IInv, TrayInv, QuietInv
<1>6. CASE DestroyWindow
  <2>1. tray \in {NoTrayIcon, HeldTrayIcon}
    BY <1>6 DEF DestroyWindow, IInv, TrayInv
  <2>2. tray'.shell => failed' # "nothing"
    BY <1>6, <2>1, DestroyedTrayIcon DEF DestroyWindow
  <2> QED
    BY <1>6, <2>2 DEF DestroyWindow, AllCoroutinesFinished, IInv, TrayInv, QuietInv
<1>7. CASE \/ \E c \in Coroutines : CoroutineStep(c)
           \/ \E rssi \in Values : Answer(rssi)
           \/ GrantAuthentication \/ RevokeAuthentication \/ LinkChanges \/ ScanEnds \/ TokenMoves
  BY <1>7, OthersInductive
<1>8. CASE UNCHANGED vars
  BY <1>8 DEF vars, windowVars, AllCoroutinesFinished, IInv, TrayInv, QuietInv
<1> QED
  BY <1>1, <1>2, <1>3, <1>4, <1>5, <1>6, <1>7, <1>8 DEF Next

\* Messages reach the callback of the tray icon that the window holds, the warnings
\* of the coroutines the exit waits for find the window, and the shell keeps no icon
\* that could be taken down (CTrayIcon.cpp:121-208, CWindow.cpp:26-53, main.cpp:278).
THEOREM CallbacksStay == Spec => []NothingDangles
<1>1. Init => IInv
  BY DEF Init, IInv, TrayInv, QuietInv
<1>2. IInv => NothingDangles
  <2>1. ASSUME IInv, Running
        PROVE  \/ tray.hook = None /\ ~tray.shell
               \/ tray.hook = "m_SystemTray" /\ tray.icon["m_SystemTray"] = "whole"
    <3>1. tray \in {NoTrayIcon, HeldTrayIcon}
      BY <2>1 DEF IInv, TrayInv, Running
    <3> QED
      BY <3>1 DEF NoTrayIcon, HeldTrayIcon, Cells
  <2> QED
    BY <2>1 DEF NothingDangles, IInv, TrayInv, QuietInv, AllCoroutinesFinished
<1> QED
  BY <1>1, <1>2, Inductive, PTL DEF Spec

-----------------------------------------------------------------------------
\* A nonempty set of naturals has a least element.
LEMMA Least ==
    ASSUME NEW S \in SUBSET Nat, S # {}
    PROVE  \E m \in S : \A n \in S : m <= n
<1> DEFINE T == {0..k : k \in S}
<1>1. T \subseteq FiniteSubsetsOf(Nat) /\ T # {}
  <2>1. \A k \in S : 0..k \in SUBSET Nat /\ IsFiniteSet(0..k)
    BY FS_Interval
  <2> QED
    BY <2>1 DEF FiniteSubsetsOf
<1> HIDE DEF T
<1>2. PICK U \in T : \A V \in T : <<V, U>> \notin StrictSubsetOrdering(Nat)
  BY <1>1, FS_StrictSubsetOrderingWellFounded, WFMin
<1>3. PICK m \in S : U = 0..m
  BY DEF T
<1>4. ASSUME NEW n \in S, n < m PROVE FALSE
  <2>1. 0..n \in T
    BY DEF T
  <2>2. 0..n \in SUBSET Nat /\ 0..m \in SUBSET Nat /\ 0..n \subseteq 0..m
    BY <1>4
  <2>3. m \in 0..m /\ m \notin 0..n
    BY <1>4
  <2>4. <<0..n, 0..m>> \in StrictSubsetOrdering(Nat)
    BY <2>2, <2>3 DEF StrictSubsetOrdering
  <2> QED
    BY <1>2, <1>3, <2>1, <2>4
<1> QED
  BY <1>4

\* A set that holds 0 and the successor of each of its naturals holds them all.
LEMMA Induction ==
    ASSUME NEW S, 0 \in S, \A n \in Nat : n \in S => n + 1 \in S
    PROVE  Nat \subseteq S
<1> SUFFICES ASSUME ~ (Nat \subseteq S) PROVE FALSE
  OBVIOUS
<1> DEFINE T == Nat \ S
<1>1. PICK m \in T : \A n \in T : m <= n
  <2>1. T \in SUBSET Nat /\ T # {}
    OBVIOUS
  <2> HIDE DEF T
  <2> QED
    BY <2>1, Least
<1>2. m # 0 /\ m \in Nat
  OBVIOUS
<1>3. m - 1 \in Nat /\ m - 1 \notin T
  BY <1>1, <1>2
<1>4. (m - 1) + 1 \in S
  BY <1>3
<1> QED
  BY <1>2, <1>4


-----------------------------------------------------------------------------
\* h adds the values of q at the places of a set, the last one last.
Folding(h, b, q, S) ==
    h = [s \in SUBSET S |-> IF s = {} THEN b
                            ELSE add_rssi_value(h[s \ {Max(s)}], q[Max(s)])]

\* The largest of a set, where it is known.
LEMMA Largest ==
    ASSUME NEW k \in Int, NEW s \in SUBSET Int, k \in s, \A j \in s : j <= k
    PROVE  Max(s) = k
<1>1. \A j \in s : (\A y \in s : j >= y) => j = k
  OBVIOUS
<1> QED
  BY <1>1 DEF Max

\* The function that the fold is defined by exists, for all places of a sequence.
LEMMA FoldingExists ==
    ASSUME NEW b, NEW q
    PROVE  \A k \in Nat : \E h : Folding(h, b, q, 1..k)
<1> DEFINE S == {k \in Nat : \E h : Folding(h, b, q, 1..k)}
<1>1. 0 \in S
  <2> DEFINE h == [s \in SUBSET (1..0) |-> b]
  <2>1. SUBSET (1..0) = {{}}
    OBVIOUS
  <2>2. Folding(h, b, q, 1..0)
    BY <2>1 DEF Folding
  <2> QED
    BY <2>2
<1>2. ASSUME NEW k \in Nat, k \in S PROVE k + 1 \in S
  <2>1. PICK h : Folding(h, b, q, 1..k)
    BY <1>2
  <2> DEFINE g == [s \in SUBSET (1..k + 1) |->
                     IF k + 1 \in s THEN add_rssi_value(h[s \ {k + 1}], q[k + 1]) ELSE h[s]]
  <2>2. ASSUME NEW s \in SUBSET (1..k + 1)
        PROVE  g[s] = IF s = {} THEN b ELSE add_rssi_value(g[s \ {Max(s)}], q[Max(s)])
    <3>1. CASE k + 1 \in s
      <4>1. Max(s) = k + 1
        BY <3>1, Largest
      <4>2. s \ {k + 1} \in SUBSET (1..k + 1) /\ k + 1 \notin s \ {k + 1}
        OBVIOUS
      <4>3. g[s \ {k + 1}] = h[s \ {k + 1}]
        BY <4>2
      <4> QED
        BY <3>1, <4>1, <4>3
    <3>2. CASE k + 1 \notin s
      <4>1. s \in SUBSET (1..k)
        BY <3>2
      <4>2. g[s] = h[s]
        BY <3>2
      <4>3. h[s] = IF s = {} THEN b ELSE add_rssi_value(h[s \ {Max(s)}], q[Max(s)])
        BY <2>1, <4>1 DEF Folding
      <4>4. s \ {Max(s)} \in SUBSET (1..k + 1) /\ k + 1 \notin s \ {Max(s)}
        BY <3>2
      <4>5. g[s \ {Max(s)}] = h[s \ {Max(s)}]
        BY <4>4
      <4> QED
        BY <4>2, <4>3, <4>5
    <3> QED
      BY <3>1, <3>2
  <2>3. Folding(g, b, q, 1..k + 1)
    BY <2>2 DEF Folding
  <2> QED
    BY <2>3
<1> HIDE DEF S
<1>3. Nat \subseteq S
  BY <1>1, <1>2, Induction
<1> QED
  BY <1>3 DEF S

\* What the buffer can hold.
V0 == Values \cup {0}

\* rssi() and add_rssi_value() for each value of q.
Fetched(b, q) == FoldLeft(add_rssi_value, b, q)

\* The fold adds one value after the other, from the first to the last.
LEMMA Folded ==
    ASSUME NEW q \in Seq(V0), NEW b
    PROVE  \E g : /\ Fetched(b, q) = g[Len(q)]
                  /\ g[0] = b
                  /\ \A k \in 1..Len(q) : g[k] = add_rssi_value(g[k - 1], q[k])
<1>0. PICK n \in Nat : DOMAIN q = 1..n /\ Len(q) = n
  BY LenProperties
<1> DEFINE h == CHOOSE h : Folding(h, b, q, 1..n)
<1>1. Fetched(b, q) = h[1..n]
  BY <1>0 DEF Fetched, FoldLeft, MapThenFoldSet, Folding
<1>2. Folding(h, b, q, 1..n)
  BY FoldingExists
<1> HIDE DEF h
<1> DEFINE g == [k \in 0..n |-> h[1..k]]
<1>3. g[0] = b
  <2>1. 1..0 = {}
    OBVIOUS
  <2>2. h[{}] = b
    BY <1>2 DEF Folding
  <2> QED
    BY <2>1, <2>2
<1>4. ASSUME NEW k \in 1..n PROVE g[k] = add_rssi_value(g[k - 1], q[k])
  <2>1. /\ k \in Nat /\ k \in 1..k
        /\ \A j \in 1..k : j <= k /\ j \in Int /\ j \in 1..n
    OBVIOUS
  <2>2. Max(1..k) = k
    BY <2>1, Largest
  <2>3. (1..k) \ {k} = 1..k - 1
    OBVIOUS
  <2>4. h[1..k] = add_rssi_value(h[1..k - 1], q[k])
    BY <1>2, <2>1, <2>2, <2>3 DEF Folding
  <2>5. k \in 0..n /\ k - 1 \in 0..n
    OBVIOUS
  <2> QED
    BY <2>4, <2>5
<1>5. g[n] = h[1..n]
  OBVIOUS
<1> QED
  BY <1>0, <1>1, <1>3, <1>4, <1>5

-----------------------------------------------------------------------------

\* The buffers there can be: never empty, never longer than m_MaxSize.
Buffers == {v \in Seq(V0) : Len(v) \in 1..m_MaxSize}

\* One value added to a buffer leaves a buffer.
LEMMA Added ==
    ASSUME NEW v \in Buffers, NEW x \in V0
    PROVE  add_rssi_value(v, x) \in Buffers
<1>1. v \in Seq(V0) /\ Len(v) \in 1..m_MaxSize /\ v # <<>> /\ m_MaxSize \in Nat \ {0, 1}
  BY MainLoopAssumption DEF Buffers
<1>2. CASE Head(v) = 0
  <2>1. [v EXCEPT ![1] = x] \in Seq(V0) /\ Len([v EXCEPT ![1] = x]) = Len(v)
    BY <1>1, ExceptSeq
  <2> QED
    BY <1>1, <1>2, <2>1 DEF add_rssi_value, Buffers
<1>3. CASE Head(v) # 0 /\ Len(v) < m_MaxSize
  <2>1. Append(v, x) \in Seq(V0) /\ Len(Append(v, x)) = Len(v) + 1
    BY <1>1, AppendProperties
  <2> QED
    BY <1>1, <1>3, <2>1 DEF add_rssi_value, Buffers
<1>4. CASE Head(v) # 0 /\ ~(Len(v) < m_MaxSize)
  <2>1. Tail(v) \in Seq(V0) /\ Len(Tail(v)) = Len(v) - 1
    BY <1>1, HeadTailProperties
  <2>2. Append(Tail(v), x) \in Seq(V0) /\ Len(Append(Tail(v), x)) = Len(Tail(v)) + 1
    BY <2>1, AppendProperties
  <2> QED
    BY <1>1, <1>4, <2>1, <2>2 DEF add_rssi_value, Buffers
<1> QED
  BY <1>2, <1>3, <1>4

\* So do all values of a queue.
LEMMA AllAdded ==
    ASSUME NEW v \in Buffers, NEW q \in Seq(V0)
    PROVE  Fetched(v, q) \in Buffers
<1>1. PICK n \in Nat : DOMAIN q = 1..n /\ Len(q) = n
  BY LenProperties
<1>2. \A k \in 1..n : q[k] \in V0
  BY <1>1, ElementOfSeq
<1>3. PICK g : /\ Fetched(v, q) = g[n]
               /\ g[0] = v
               /\ \A k \in 1..n : g[k] = add_rssi_value(g[k - 1], q[k])
  <2>1. PICK g : /\ Fetched(v, q) = g[Len(q)]
                 /\ g[0] = v
                 /\ \A k \in 1..Len(q) : g[k] = add_rssi_value(g[k - 1], q[k])
    BY Folded
  <2> QED
    BY <1>1, <2>1
<1> DEFINE S == {k \in Nat : k <= n => g[k] \in Buffers}
<1>4. 0 \in S
  BY <1>3
<1>5. ASSUME NEW k \in Nat, k \in S PROVE k + 1 \in S
  <2>1. SUFFICES ASSUME k + 1 <= n PROVE g[k + 1] \in Buffers
    OBVIOUS
  <2>2. g[k] \in Buffers
    BY <1>1, <1>5, <2>1
  <2>3. k + 1 \in 1..n /\ (k + 1) - 1 = k
    BY <1>1, <2>1
  <2>4. g[k + 1] = add_rssi_value(g[k], q[k + 1])
    BY <1>3, <2>3
  <2> QED
    BY <1>2, <2>2, <2>3, <2>4, Added
<1> HIDE DEF S
<1>6. Nat \subseteq S
  BY <1>4, <1>5, Induction
<1>7. n \in S
  BY <1>1, <1>6
<1> QED
  BY <1>1, <1>3, <1>7 DEF S

\* The buffer holds the last ones of the first m of all answers.
Holds(v, all, m) ==
    IF m = 0 THEN v = <<0>>
    ELSE /\ Len(v) = IF m < m_MaxSize THEN m ELSE m_MaxSize
         /\ \A i \in 1..Len(v) : v[i] = all[m - Len(v) + i]

\* A buffer that holds the last ones of the first m answers holds the last ones
\* of the first m + 1 once the next one is added.
LEMMA OneMore ==
    ASSUME NEW v \in Buffers, NEW all \in Seq(Values \ {0}), NEW m \in Nat, m + 1 <= Len(all),
           Holds(v, all, m)
    PROVE  Holds(add_rssi_value(v, all[m + 1]), all, m + 1)
<1> SUFFICES ASSUME NEW x, x = all[m + 1], NEW w, w = add_rssi_value(v, x)
             PROVE  Holds(w, all, m + 1)
  OBVIOUS
<1>1. v \in Seq(V0) /\ Len(v) \in 1..m_MaxSize /\ v # <<>> /\ m_MaxSize \in Nat \ {0, 1}
  BY MainLoopAssumption DEF Buffers
<1>2. \A i \in 1..Len(all) : all[i] \in V0 /\ all[i] # 0
  BY ElementOfSeq DEF V0
<1>3. Len(all) \in Nat
  BY LenProperties
<1>4. x \in V0
  BY <1>2, <1>3
<1>5. Head(v) = v[1]
  OBVIOUS
<1>6. CASE m = 0
  <2>1. v = <<0>>
    BY <1>6 DEF Holds
  <2>2. w = <<x>>
    BY <1>5, <2>1 DEF add_rssi_value
  <2>3. Len(w) = 1 /\ w[1] = x
    BY <2>2
  <2>5. m + 1 = 1 /\ m + 1 # 0 /\ 1 < m_MaxSize
    BY <1>1, <1>6
  <2>6. Len(w) = IF m + 1 < m_MaxSize THEN m + 1 ELSE m_MaxSize
    BY <2>3, <2>5
  <2>7. ASSUME NEW i \in 1..Len(w) PROVE w[i] = all[m + 1 - Len(w) + i]
    <3>1. i = 1
      BY <2>3
    <3>2. m + 1 - Len(w) + i = m + 1
      BY <2>3, <3>1
    <3> QED
      BY <2>3, <3>1, <3>2
  <2> QED
    BY <2>5, <2>6, <2>7 DEF Holds
<1>7. CASE m # 0
  <2>1. /\ Len(v) = IF m < m_MaxSize THEN m ELSE m_MaxSize
        /\ \A i \in 1..Len(v) : v[i] = all[m - Len(v) + i]
    BY <1>7 DEF Holds
  <2>2. Head(v) # 0
    <3>1. m - Len(v) + 1 \in 1..Len(all)
      BY <1>1, <1>3, <2>1
    <3>2. v[1] = all[m - Len(v) + 1]
      BY <1>1, <2>1
    <3> QED
      BY <1>2, <1>5, <3>1, <3>2
  <2>3. CASE Len(v) < m_MaxSize
    <3>1. Len(v) = m
      BY <1>1, <2>1, <2>3
    <3>2. w = Append(v, x)
      BY <2>2, <2>3 DEF add_rssi_value
    <3>3. Len(w) = m + 1 /\ w[m + 1] = x /\ \A i \in 1..m : w[i] = v[i]
      BY <1>1, <1>4, <3>1, <3>2, AppendProperties
    <3>4. \A i \in 1..m + 1 : w[i] = all[i]
      <4>1. \A i \in 1..m : v[i] = all[i]
        BY <2>1, <3>1
      <4>2. \A i \in 1..m + 1 : i \in 1..m \/ i = m + 1
        OBVIOUS
      <4> QED
        BY <3>3, <4>1, <4>2
    <3>5. m + 1 <= m_MaxSize
      BY <1>1, <2>3, <3>1
    <3>6. \A i \in 1..m + 1 : w[i] = all[(m + 1) - (m + 1) + i]
      BY <3>4
    <3> QED
      BY <1>1, <3>3, <3>5, <3>6 DEF Holds
  <2>4. CASE ~(Len(v) < m_MaxSize)
    <3>1. Len(v) = m_MaxSize /\ m >= m_MaxSize
      BY <1>1, <2>1, <2>4
    <3>2. w = Append(Tail(v), x)
      BY <2>2, <2>4 DEF add_rssi_value
    <3>3. /\ Tail(v) \in Seq(V0) /\ Len(Tail(v)) = m_MaxSize - 1
          /\ \A i \in 1..m_MaxSize - 1 : Tail(v)[i] = v[i + 1]
      BY <1>1, <3>1, HeadTailProperties
    <3>4. /\ Len(w) = (m_MaxSize - 1) + 1 /\ w[(m_MaxSize - 1) + 1] = x
          /\ \A i \in 1..m_MaxSize - 1 : w[i] = Tail(v)[i]
      BY <1>4, <3>2, <3>3, AppendProperties
    <3>5. \A i \in 1..m_MaxSize - 1 : w[i] = all[(m + 1) - m_MaxSize + i]
      <4>1. TAKE i \in 1..m_MaxSize - 1
      <4>2. i + 1 \in 1..Len(v) /\ m - Len(v) + (i + 1) = (m + 1) - m_MaxSize + i
        BY <1>1, <3>1
      <4>3. v[i + 1] = all[m - Len(v) + (i + 1)]
        BY <2>1, <4>2
      <4>4. w[i] = Tail(v)[i]
        BY <3>4
      <4>5. Tail(v)[i] = v[i + 1]
        BY <3>3
      <4> QED
        BY <4>2, <4>3, <4>4, <4>5
    <3>6. Len(w) = m_MaxSize /\ w[m_MaxSize] = x /\ (m + 1) - m_MaxSize + m_MaxSize = m + 1
      BY <1>1, <3>4
    <3>7. \A i \in 1..m_MaxSize : w[i] = all[(m + 1) - m_MaxSize + i]
      <4>1. \A i \in 1..m_MaxSize : i \in 1..m_MaxSize - 1 \/ i = m_MaxSize
        BY <1>1
      <4> QED
        BY <3>5, <3>6, <4>1, ZenonT(30)
    <3> QED
      BY <1>1, <3>1, <3>6, <3>7 DEF Holds
  <2> QED
    BY <2>3, <2>4
<1> QED
  BY <1>6, <1>7

\* A sequence of answers as the buffer shows it.
Shown(s) == IF s = <<>> THEN <<0>> ELSE s

\* A buffer that holds the last ones of all answers shows the latest ones.
LEMMA LatestShown ==
    ASSUME NEW all \in Seq(Values \ {0}), NEW v \in Buffers, Holds(v, all, Len(all))
    PROVE  /\ Latest(all) \in Seq(Values \ {0}) /\ Len(Latest(all)) <= m_MaxSize
           /\ v = Shown(Latest(all))
<1>1. v \in Seq(V0) /\ Len(v) \in 1..m_MaxSize /\ m_MaxSize \in Nat \ {0, 1}
  BY MainLoopAssumption DEF Buffers
<1>2. PICK m \in Nat : Len(all) = m
  BY LenProperties
<1>3. CASE m = 0
  <2>1. all = <<>>
    BY <1>2, <1>3, EmptySeq
  <2>2. Latest(all) = <<>>
    BY <1>1, <1>2, <1>3, <2>1 DEF Latest
  <2>3. v = <<0>>
    BY <1>2, <1>3 DEF Holds
  <2>4. Len(<<>>) = 0 /\ <<>> \in Seq(Values \ {0})
    BY EmptySeq
  <2> QED
    BY <1>1, <2>2, <2>3, <2>4 DEF Shown
<1>4. CASE m # 0
  <2>1. /\ Len(v) = IF m < m_MaxSize THEN m ELSE m_MaxSize
        /\ \A i \in 1..Len(v) : v[i] = all[m - Len(v) + i]
    BY <1>2, <1>4 DEF Holds
  <2>2. CASE m <= m_MaxSize
    <3>1. Latest(all) = all
      BY <1>1, <1>2, <2>2 DEF Latest
    <3>2. Len(v) = m
      BY <1>1, <2>1, <2>2
    <3>3. \A i \in 1..Len(v) : v[i] = all[i]
      BY <2>1, <3>2
    <3>4. all \in Seq(V0)
      BY SeqMonotonic DEF V0
    <3>5. v = all
      BY <1>1, <1>2, <3>2, <3>3, <3>4, SeqEqual
    <3>6. all # <<>>
      BY <1>2, <1>4, EmptySeq
    <3> QED
      BY <1>2, <2>2, <3>1, <3>5, <3>6 DEF Shown
  <2>3. CASE m > m_MaxSize
    <3>1. Latest(all) = SubSeq(all, m - m_MaxSize + 1, m)
      BY <1>1, <1>2, <2>3 DEF Latest
    <3>2. Len(v) = m_MaxSize
      BY <1>1, <2>1, <2>3
    <3>3. PICK f \in Nat \ {0} : f = m - m_MaxSize + 1
      BY <1>1, <2>3
    <3>4. PICK l : l = SubSeq(all, f, m)
      OBVIOUS
    <3>5. f \in 1..m + 1 /\ f <= m /\ (m - f) + 1 = m_MaxSize /\ f \in 1..m /\ m \in 1..m
      BY <1>1, <2>3, <3>3
    <3>6. /\ l \in Seq(Values \ {0}) /\ Len(l) = (m - f) + 1
          /\ \A i \in 1..(m - f) + 1 : l[i] = all[f + i - 1]
      BY <1>2, <3>4, <3>5, SubSeqProperties
    <3>7. Len(l) = m_MaxSize /\ l \in Seq(V0)
      BY <3>5, <3>6, SeqMonotonic DEF V0
    <3>8. ASSUME NEW i \in 1..m_MaxSize PROVE v[i] = l[i]
      <4>1. m - m_MaxSize + i = f + i - 1
        BY <1>1, <3>3
      <4>2. v[i] = all[m - m_MaxSize + i]
        BY <2>1, <3>2
      <4>3. l[i] = all[f + i - 1]
        BY <3>5, <3>6
      <4> QED
        BY <4>1, <4>2, <4>3
    <3>9. v = l
      BY <1>1, <3>2, <3>7, <3>8, SeqEqual
    <3>10. l # <<>>
      BY <1>1, <3>7, EmptySeq
    <3> QED
      BY <1>1, <3>1, <3>3, <3>4, <3>6, <3>7, <3>9, <3>10 DEF Shown
  <2> QED
    BY <1>1, <2>2, <2>3
<1> QED
  BY <1>3, <1>4

\* Answers added to a buffer that shows the latest ones: it shows the latest ones
\* of both.
LEMMA FetchedLatest ==
    ASSUME NEW a \in Seq(Values \ {0}), NEW q \in Seq(Values \ {0}), Len(a) <= m_MaxSize
    PROVE  /\ Latest(a \o q) \in Seq(Values \ {0}) /\ Len(Latest(a \o q)) <= m_MaxSize
           /\ Fetched(Shown(a), q) = Shown(Latest(a \o q))
<1> SUFFICES ASSUME NEW all, all = a \o q, NEW v, v = Shown(a)
             PROVE  /\ Latest(all) \in Seq(Values \ {0}) /\ Len(Latest(all)) <= m_MaxSize
                    /\ Fetched(v, q) = Shown(Latest(all))
  OBVIOUS
<1>1. PICK n \in Nat, l \in Nat : n = Len(a) /\ l = Len(q)
  BY LenProperties
<1>2. /\ all \in Seq(Values \ {0}) /\ Len(all) = n + l
      /\ \A i \in 1..n + l : all[i] = IF i <= n THEN a[i] ELSE q[i - n]
  BY <1>1, ConcatProperties
<1>3. m_MaxSize \in Nat \ {0, 1}
  BY MainLoopAssumption
<1>4. v \in Buffers /\ Holds(v, all, n)
  <2>1. CASE n = 0
    <3>1. a = <<>>
      BY <1>1, <2>1, EmptySeq
    <3>2. v = <<0>>
      BY <3>1 DEF Shown
    <3>3. <<0>> \in Seq(V0) /\ Len(<<0>>) = 1
      BY DEF V0
    <3> QED
      BY <1>3, <2>1, <3>2, <3>3 DEF Buffers, Holds
  <2>2. CASE n # 0
    <3>1. v = a
      BY <1>1, <2>2, EmptySeq DEF Shown
    <3>2. v \in Seq(V0) /\ Len(v) = n /\ n \in 1..m_MaxSize
      BY <1>1, <1>3, <2>2, <3>1, SeqMonotonic DEF V0
    <3>3. n = IF n < m_MaxSize THEN n ELSE m_MaxSize
      BY <1>3, <3>2
    <3>4. ASSUME NEW i \in 1..n PROVE v[i] = all[n - n + i]
      <4>1. i \in 1..n + l /\ i <= n /\ n - n + i = i
        OBVIOUS
      <4> QED
        BY <1>2, <3>1, <4>1
    <3> QED
      BY <2>2, <3>2, <3>3, <3>4 DEF Buffers, Holds
  <2> QED
    BY <2>1, <2>2
<1>5. PICK g : /\ Fetched(v, q) = g[l]
               /\ g[0] = v
               /\ \A k \in 1..l : g[k] = add_rssi_value(g[k - 1], q[k])
  <2>1. PICK g : /\ Fetched(v, q) = g[Len(q)]
                 /\ g[0] = v
                 /\ \A k \in 1..Len(q) : g[k] = add_rssi_value(g[k - 1], q[k])
    <3>1. q \in Seq(V0)
      BY SeqMonotonic DEF V0
    <3>2. PICK z : z = Fetched(v, q)
      OBVIOUS
    <3>3. \E g : /\ z = g[Len(q)]
                 /\ g[0] = v
                 /\ \A k \in 1..Len(q) : g[k] = add_rssi_value(g[k - 1], q[k])
      BY <3>1, <3>2, Folded
    <3> QED
      BY <3>2, <3>3
  <2> QED
    BY <1>1, <2>1
<1> DEFINE S == {k \in Nat : k <= l => g[k] \in Buffers /\ Holds(g[k], all, n + k)}
<1>6. 0 \in S
  BY <1>4, <1>5
<1>7. ASSUME NEW k \in Nat, k \in S PROVE k + 1 \in S
  <2>1. SUFFICES ASSUME k + 1 <= l
                 PROVE  g[k + 1] \in Buffers /\ Holds(g[k + 1], all, n + (k + 1))
    OBVIOUS
  <2>2. g[k] \in Buffers /\ Holds(g[k], all, n + k)
    BY <1>1, <1>7, <2>1
  <2>3. PICK m \in Nat : m = n + k
    OBVIOUS
  <2>4. m + 1 <= Len(all) /\ m + 1 \in 1..n + l /\ ~(m + 1 <= n) /\ (m + 1) - n = k + 1
        /\ k + 1 \in 1..l /\ (k + 1) - 1 = k /\ n + (k + 1) = m + 1
    BY <1>2, <2>1, <2>3
  <2>5. all[m + 1] = q[k + 1]
    BY <1>2, <2>4
  <2>6. q[k + 1] \in V0
    BY <1>1, <2>4, ElementOfSeq DEF V0
  <2>7. g[k + 1] = add_rssi_value(g[k], all[m + 1])
    BY <1>5, <2>4, <2>5
  <2>8. Holds(g[k], all, m)
    BY <2>2, <2>3
  <2>9. Holds(add_rssi_value(g[k], all[m + 1]), all, m + 1)
    BY <1>2, <2>2, <2>4, <2>8, OneMore
  <2>10. add_rssi_value(g[k], all[m + 1]) \in Buffers
    BY <2>2, <2>5, <2>6, Added
  <2> QED
    BY <2>4, <2>7, <2>9, <2>10
<1> HIDE DEF S
<1>8. Nat \subseteq S
  BY <1>6, <1>7, Induction
<1>9. g[l] \in Buffers /\ Holds(g[l], all, n + l)
  BY <1>8 DEF S
<1>10. Holds(g[l], all, Len(all))
  BY <1>2, <1>9
<1> QED
  BY <1>2, <1>5, <1>9, <1>10, LatestShown

-----------------------------------------------------------------------------
\* Finitely many integers have a highest and a lowest one.
LEMMA Highest ==
    ASSUME NEW n \in Nat, NEW f \in [1..n -> Int], NEW I \in SUBSET (1..n), I # {}
    PROVE  \E i \in I : \A j \in I : f[j] <= f[i]
<1> DEFINE S == {k \in Nat : \A J \in SUBSET (1..n) :
                    J # {} /\ J \subseteq 1..k => \E i \in J : \A j \in J : f[j] <= f[i]}
<1>1. 0 \in S
  <2>1. 1..0 = {}
    OBVIOUS
  <2> QED
    BY <2>1
<1>2. ASSUME NEW k \in Nat, k \in S PROVE k + 1 \in S
  <2>1. SUFFICES ASSUME NEW J \in SUBSET (1..n), J # {}, J \subseteq 1..k + 1
                 PROVE  \E i \in J : \A j \in J : f[j] <= f[i]
    OBVIOUS
  <2>2. CASE k + 1 \notin J
    <3>1. J \subseteq 1..k
      BY <2>1, <2>2
    <3> QED
      BY <1>2, <2>1, <3>1
  <2>3. CASE J = {k + 1}
    <3>1. f[k + 1] \in Int
      BY <2>1, <2>3
    <3> QED
      BY <2>3, <3>1
  <2>4. CASE k + 1 \in J /\ J # {k + 1}
    <3> DEFINE K == J \ {k + 1}
    <3>1. K \in SUBSET (1..n) /\ K # {} /\ K \subseteq 1..k
      BY <2>1, <2>4
    <3>2. PICK i \in K : \A j \in K : f[j] <= f[i]
      BY <1>2, <3>1
    <3>3. f[i] \in Int /\ f[k + 1] \in Int /\ \A j \in J : f[j] \in Int
      BY <2>1, <2>4
    <3>4. \A j \in J : j \in K \/ j = k + 1
      OBVIOUS
    <3>5. CASE f[k + 1] <= f[i]
      BY <3>2, <3>4, <3>5
    <3>6. CASE f[i] < f[k + 1]
      <4>1. \A j \in J : f[j] <= f[k + 1]
        BY <3>2, <3>3, <3>4, <3>6
      <4> QED
        BY <2>4, <4>1
    <3>7. f[k + 1] <= f[i] \/ f[i] < f[k + 1]
      BY <3>3
    <3> QED
      BY <3>5, <3>6, <3>7
  <2> QED
    BY <2>2, <2>3, <2>4
<1> HIDE DEF S
<1>3. n \in S
  BY <1>1, <1>2, Induction
<1> QED
  BY <1>3 DEF S

LEMMA Lowest ==
    ASSUME NEW n \in Nat, NEW f \in [1..n -> Int], NEW I \in SUBSET (1..n), I # {}
    PROVE  \E i \in I : \A j \in I : f[i] <= f[j]
<1> DEFINE g == [i \in 1..n |-> -f[i]]
<1>1. g \in [1..n -> Int] /\ \A i \in I : g[i] = -f[i] /\ f[i] \in Int
  OBVIOUS
<1> HIDE DEF g
<1>2. PICK i \in I : \A j \in I : g[j] <= g[i]
  BY <1>1, Highest
<1>3. ASSUME NEW j \in I PROVE f[i] <= f[j]
  <2>1. g[j] <= g[i] /\ g[j] = -f[j] /\ g[i] = -f[i] /\ f[i] \in Int /\ f[j] \in Int
    BY <1>1, <1>2
  <2> QED
    BY <2>1
<1> QED
  BY <1>3

\* The places at which v is at most x.
AtMost(v, x) == {i \in DOMAIN v : v[i] <= x}

\* A buffer has a median, and more than half of the values are at most as high.
LEMMA Median ==
    ASSUME NEW v \in Buffers
    PROVE  /\ rssi_median(v) \in ToSet(v)
           /\ 2 * Cardinality(AtMost(v, rssi_median(v))) > Len(v)
<1>1. PICK n \in Nat \ {0} : Len(v) = n /\ DOMAIN v = 1..n
  BY MainLoopAssumption, LenProperties DEF Buffers
<1>2. v \in [1..n -> Int]
  <2>1. \A i \in 1..n : v[i] \in Int
    <3>1. V0 \subseteq Int
      BY MainLoopAssumption DEF V0
    <3>2. v \in Seq(V0)
      BY DEF Buffers
    <3> QED
      BY <1>1, <3>1, <3>2, ElementOfSeq
  <2>2. v = [i \in 1..n |-> v[i]]
    BY <1>1 DEF Buffers
  <2> QED
    BY <2>1, <2>2
<1>3. \A I \in SUBSET (1..n) : IsFiniteSet(I) /\ Cardinality(I) \in Nat /\ Cardinality(I) <= n
  <2>1. IsFiniteSet(1..n) /\ Cardinality(1..n) = n
    BY FS_Interval
  <2> QED
    BY <2>1, FS_Subset, FS_CardinalityType
<1> DEFINE Half == {i \in 1..n : 2 * Cardinality(AtMost(v, v[i])) > n}
<1>4. PICK h \in 1..n : \A j \in 1..n : v[j] <= v[h]
  <2>1. 1..n # {} /\ 1..n \in SUBSET (1..n)
    OBVIOUS
  <2> QED
    BY <1>2, <2>1, Highest
<1>5. h \in Half
  <2>1. AtMost(v, v[h]) = 1..n
    BY <1>1, <1>4 DEF AtMost
  <2>2. Cardinality(1..n) = n
    BY FS_Interval
  <2> QED
    BY <2>1, <2>2
<1>6. PICK i \in Half : \A j \in Half : v[i] <= v[j]
  <2>1. Half \in SUBSET (1..n)
    OBVIOUS
  <2> HIDE DEF Half
  <2> QED
    BY <1>2, <1>5, <2>1, Lowest
<1>7. v[i] \in ToSet(v) /\ 2 * Cardinality(AtMost(v, v[i])) > Len(v)
  BY <1>1 DEF ToSet
<1>8. 2 * Cardinality({j \in DOMAIN v : v[j] < v[i]}) <= Len(v)
  <2> DEFINE Below == {j \in 1..n : v[j] < v[i]}
  <2>3. {j \in DOMAIN v : v[j] < v[i]} = Below
    BY <1>1
  <2> SUFFICES 2 * Cardinality(Below) <= n
    BY <1>1, <2>3
  <2>1. CASE Below = {}
    <3>1. Cardinality(Below) = 0
      BY <2>1, FS_EmptySet
    <3> QED
      BY <3>1
  <2>2. CASE Below # {}
    <3>1. Below \in SUBSET (1..n)
      OBVIOUS
    <3>2. PICK k \in Below : \A j \in Below : v[j] <= v[k]
      <4> HIDE DEF Below
      <4> QED
        BY <1>2, <2>2, <3>1, Highest
    <3>3. \A j \in 1..n : v[j] \in Int
      BY <1>2
    <3>4. v[k] < v[i] /\ k \in 1..n /\ i \in 1..n
      OBVIOUS
    <3>5. \A j \in 1..n : v[j] <= v[k] => v[j] < v[i]
      BY <3>3, <3>4
    <3>6. Below = AtMost(v, v[k])
      BY <1>1, <3>2, <3>5 DEF AtMost
    <3>7. k \notin Half
      BY <1>6, <3>3, <3>4
    <3>8. ~(2 * Cardinality(AtMost(v, v[k])) > n)
      BY <3>4, <3>7
    <3>9. Cardinality(Below) \in Nat
      BY <1>3, <3>1
    <3> QED
      BY <3>6, <3>8, <3>9
  <2> QED
    BY <2>1, <2>2
<1>9. \E m \in ToSet(v) : /\ 2 * Cardinality({j \in DOMAIN v : v[j] < m}) <= Len(v)
                          /\ 2 * Cardinality({j \in DOMAIN v : v[j] <= m}) > Len(v)
  BY <1>7, <1>8 DEF AtMost
<1> QED
  BY <1>9 DEF rssi_median, AtMost

-----------------------------------------------------------------------------
\* What the plot holds, and what it is told.
PlotInv ==
    /\ m_Queue \in Seq(Values)
    /\ m_Values \in Buffers
    /\ answers # None => /\ answers \in Seq(Values \ {0}) /\ Len(answers) <= m_MaxSize
                         /\ m_Values = Shown(answers)

\* Between the decision and the call the plot stays as it is.
DecidedInv == main = "suspend" => TooFar

\* An empty plot holds no answers.
LEMMA NewPlotKeeps == ASSUME NewPlot PROVE PlotInv'
<1>1. <<>> \in Seq(Values) /\ <<>> \in Seq(Values \ {0}) /\ Len(<<>>) = 0
  BY EmptySeq
<1>2. m_MaxSize \in Nat \ {0, 1}
  BY MainLoopAssumption
<1>3. <<0>> \in Seq(V0) /\ Len(<<0>>) = 1
  BY DEF V0
<1>4. <<0>> \in Buffers
  BY <1>2, <1>3 DEF Buffers
<1>5. m_Queue' = <<>> /\ m_Values' = <<0>> /\ answers' = <<>>
  BY DEF NewPlot
<1>6. Shown(<<>>) = <<0>>
  BY DEF Shown
<1>7. Len(<<>>) <= m_MaxSize
  BY <1>1, <1>2
<1> QED
  BY <1>1, <1>4, <1>5, <1>6, <1>7 DEF PlotInv

\* The queue is added to the buffer and to the history alike.
LEMMA FetchKeeps == ASSUME PlotInv, FetchAnswers PROVE PlotInv'
<1>1. /\ m_Queue \in Seq(Values) /\ m_Values \in Buffers /\ m_Queue' = <<>>
      /\ m_Values' = Fetched(m_Values, m_Queue)
  BY DEF PlotInv, FetchAnswers, Fetched
<1>2. <<>> \in Seq(Values)
  BY EmptySeq
<1>3. m_Queue \in Seq(V0)
  BY <1>1, SeqMonotonic DEF V0
<1>4. m_Values' \in Buffers
  BY <1>1, <1>3, AllAdded
<1>5. CASE answers = None \/ 0 \in ToSet(m_Queue)
  <2>1. answers' = None
    BY <1>5 DEF FetchAnswers
  <2> QED
    BY <1>1, <1>2, <1>4, <2>1 DEF PlotInv
<1>6. CASE ~(answers = None \/ 0 \in ToSet(m_Queue))
  <2>1. answers' = Latest(answers \o m_Queue)
    BY <1>6 DEF FetchAnswers
  <2>2. answers \in Seq(Values \ {0}) /\ Len(answers) <= m_MaxSize /\ m_Values = Shown(answers)
    BY <1>6 DEF PlotInv
  <2>3. m_Queue \in Seq(Values \ {0})
    <3>1. PICK n \in Nat : n = Len(m_Queue) /\ DOMAIN m_Queue = 1..n
      BY <1>1, LenProperties
    <3>2. \A i \in 1..n : m_Queue[i] \in Values
      BY <1>1, <3>1, ElementOfSeq
    <3>3. \A i \in 1..n : m_Queue[i] # 0
      BY <1>6, <3>1 DEF ToSet
    <3>4. m_Queue = [i \in 1..n |-> m_Queue[i]]
      BY <1>1, <3>1
    <3>5. [i \in 1..n |-> m_Queue[i]] \in [1..n -> Values \ {0}]
      BY <3>2, <3>3
    <3>6. m_Queue \in [1..n -> Values \ {0}]
      BY <3>4, <3>5
    <3> QED
      BY <3>6, SeqDef
  <2>4. /\ answers' \in Seq(Values \ {0}) /\ Len(answers') <= m_MaxSize
        /\ Fetched(Shown(answers), m_Queue) = Shown(answers')
    BY <2>1, <2>2, <2>3, FetchedLatest
  <2> QED
    BY <1>1, <1>2, <1>4, <2>2, <2>4 DEF PlotInv
<1> QED
  BY <1>5, <1>6

\* Nothing else touches the buffer and the history; the queue only grows.
LEMMA PlotInductive == PlotInv /\ [Next]_vars => PlotInv'
<1> SUFFICES ASSUME PlotInv, [Next]_vars PROVE PlotInv'
  OBVIOUS
<1>1. CASE UNCHANGED <<m_Queue, m_Values, answers>>
  BY <1>1 DEF PlotInv
<1>2. CASE TrayIconMade \/ TrayIconFails \/ Resume \/ SystemCallFails \/ WaitForAll \/ DestroyWindow
  BY <1>1, <1>2 DEF TrayIconMade, TrayIconFails, Resume, SystemCallFails, WaitForAll, DestroyWindow,
                    plotVars
<1>3. CASE FrameStep
  <2>1. CASE Recreate \/ DeleteKeys
    BY <2>1, NewPlotKeeps DEF Recreate, DeleteKeys
  <2>2. CASE Plot
    BY <2>2, FetchKeeps DEF Plot
  <2>3. CASE ~(Recreate \/ DeleteKeys \/ Plot)
    BY <1>1, <1>3, <2>3 DEF FrameStep, BeginFrame, CheckAuthenticated, Suspend, SuspendFails,
         ProcessEvents, NothingClicked, GenerateKeys, DrawList, DrawAddress, plotVars
  <2> QED
    BY <2>1, <2>2, <2>3
<1>4. CASE \E c \in Coroutines : CoroutineStep(c)
  BY <1>1, <1>4 DEF CoroutineStep, DemandWritten, DemandRefused, DemandUnreachable, Popup, plotVars
<1>5. CASE \E rssi \in Values : Answer(rssi)
  <2>1. PICK rssi \in Values : Answer(rssi)
    BY <1>5
  <2>2. Append(m_Queue, rssi) \in Seq(Values)
    BY AppendProperties DEF PlotInv
  <2> QED
    BY <2>1, <2>2 DEF Answer, PlotInv
<1>6. CASE GrantAuthentication \/ RevokeAuthentication \/ LinkChanges \/ ScanEnds \/ TokenMoves
  BY <1>1, <1>6 DEF GrantAuthentication, RevokeAuthentication, LinkChanges, ScanEnds, TokenMoves,
                    plotVars
<1>7. CASE UNCHANGED vars
  BY <1>1, <1>7 DEF vars, plotVars
<1> QED
  BY <1>2, <1>3, <1>4, <1>5, <1>6, <1>7 DEF Next

LEMMA PlotInitial == Init => PlotInv
<1> SUFFICES ASSUME Init PROVE PlotInv
  OBVIOUS
<1>1. m_Queue = <<>> /\ m_Values = <<0>> /\ answers = <<>>
  BY DEF Init
<1>2. <<>> \in Seq(Values) /\ <<>> \in Seq(Values \ {0}) /\ Len(<<>>) = 0
  BY EmptySeq
<1>3. m_MaxSize \in Nat \ {0, 1}
  BY MainLoopAssumption
<1>4. <<0>> \in Seq(V0) /\ Len(<<0>>) = 1
  BY DEF V0
<1>5. <<0>> \in Buffers
  BY <1>3, <1>4 DEF Buffers
<1>6. Shown(<<>>) = <<0>>
  BY DEF Shown
<1>7. Len(<<>>) <= m_MaxSize
  BY <1>2, <1>3
<1> QED
  BY <1>1, <1>2, <1>5, <1>6, <1>7 DEF PlotInv

\* The buffer holds the last m_MaxSize answers in their order, however many are
\* fetched in one frame (CRSSIPlot.cpp:70-92).
THEOREM BufferHoldsLatest == Spec => []PlotHoldsLatest
<1>1. PlotInv => PlotHoldsLatest
  BY DEF PlotInv, PlotHoldsLatest, Shown
<1> QED
  BY <1>1, PlotInitial, PlotInductive, PTL DEF Spec

-----------------------------------------------------------------------------
\* The plot does not change while the machine is about to be put to sleep.
LEMMA DecidedInductive == DecidedInv /\ [Next]_vars => DecidedInv'
<1> SUFFICES ASSUME DecidedInv, [Next]_vars PROVE DecidedInv'
  OBVIOUS
<1>1. CASE main' # "suspend"
  BY <1>1 DEF DecidedInv
<1>2. CASE UNCHANGED <<main, m_Values>>
  BY <1>2 DEF DecidedInv, TooFar
<1>3. CASE \/ TrayIconMade \/ TrayIconFails \/ Resume \/ SystemCallFails \/ WaitForAll
           \/ DestroyWindow
  BY <1>1, <1>3 DEF TrayIconMade, TrayIconFails, Resume, SystemCallFails, WaitForAll, DestroyWindow
<1>4. CASE FrameStep
  <2>1. CASE BeginFrame
    <3>1. main' = "suspend" => TooFar /\ m_Values' = m_Values
      BY <2>1 DEF BeginFrame, plotVars
    <3> QED
      BY <3>1 DEF DecidedInv, TooFar
  <2>2. CASE ~BeginFrame
    BY <1>1, <1>4, <2>2 DEF FrameStep, CheckAuthenticated, Recreate, Suspend, SuspendFails,
         ProcessEvents, NothingClicked, GenerateKeys, DeleteKeys, DrawList, DrawAddress, Plot
  <2> QED
    BY <2>1, <2>2
<1>5. CASE \/ \E c \in Coroutines : CoroutineStep(c)
           \/ \E rssi \in Values : Answer(rssi)
           \/ GrantAuthentication \/ RevokeAuthentication \/ LinkChanges \/ ScanEnds \/ TokenMoves
  BY <1>2, <1>5 DEF CoroutineStep, DemandWritten, DemandRefused, DemandUnreachable, Popup, Answer,
                    GrantAuthentication, RevokeAuthentication, LinkChanges, ScanEnds, TokenMoves,
                    plotVars
<1>6. CASE UNCHANGED vars
  BY <1>2, <1>6 DEF vars, plotVars
<1> QED
  BY <1>3, <1>4, <1>5, <1>6 DEF Next

\* A median below the threshold has more than half of the values below it.
LEMMA LowMedian ==
    ASSUME NEW v \in Buffers, rssi_median(v) < Threshold
    PROVE  2 * Cardinality({i \in DOMAIN v : v[i] < Threshold}) > Len(v)
<1> DEFINE m == rssi_median(v)
           Low == {i \in DOMAIN v : v[i] < Threshold}
<1>1. PICK n \in Nat : Len(v) = n /\ DOMAIN v = 1..n
  BY LenProperties DEF Buffers
<1>2. Threshold \in Int /\ V0 \subseteq Int
  BY MainLoopAssumption DEF V0
<1>3. \A i \in 1..n : v[i] \in Int
  BY <1>1, <1>2, ElementOfSeq DEF Buffers
<1>4. m \in ToSet(v) /\ 2 * Cardinality(AtMost(v, m)) > Len(v)
  BY Median
<1>5. m \in Int
  BY <1>1, <1>3, <1>4 DEF ToSet
<1>6. AtMost(v, m) \subseteq Low /\ Low \subseteq 1..n
  <2>1. m < Threshold
    OBVIOUS
  <2> HIDE DEF m
  <2>2. \A i \in 1..n : v[i] <= m => v[i] < Threshold
    BY <1>2, <1>3, <1>5, <2>1
  <2> QED
    BY <1>1, <2>2 DEF AtMost
<1> HIDE DEF m, Low
<1>7. IsFiniteSet(Low)
  <2>1. IsFiniteSet(1..n)
    BY FS_Interval
  <2> QED
    BY <1>6, <2>1, FS_Subset
<1>8. /\ Cardinality(AtMost(v, m)) \in Nat /\ Cardinality(Low) \in Nat
      /\ Cardinality(AtMost(v, m)) <= Cardinality(Low)
  BY <1>6, <1>7, FS_Subset, FS_CardinalityType
<1>9. 2 * Cardinality(Low) > Len(v)
  BY <1>1, <1>4, <1>8
<1> QED
  BY <1>9 DEF Low

\* When the call is made that puts the machine to sleep, more than half of the
\* values are below the threshold, and more than half of the buffer is filled
\* with answers (main.cpp:227-231, CRSSIPlot.cpp:31-44).
THEOREM AsleepByMajority == Spec => MajorityLow
<1>1. Init => DecidedInv
  BY DEF Init, DecidedInv
<1>2. ASSUME PlotInv, DecidedInv, [Next]_vars, main = "suspend", main' = "asleep"
      PROVE  /\ 2 * Cardinality({i \in DOMAIN m_Values : m_Values[i] < Threshold}) > Len(m_Values)
             /\ 2 * Len(IF answers = None THEN m_Values ELSE answers) > m_MaxSize
  <2>1. m_Values \in Buffers /\ TooFar
    BY <1>2 DEF PlotInv, DecidedInv
  <2>2. 2 * Cardinality({i \in DOMAIN m_Values : m_Values[i] < Threshold}) > Len(m_Values)
    BY <2>1, LowMedian DEF TooFar
  <2>3. 2 * Len(m_Values) > m_MaxSize
    BY <2>1 DEF TooFar
  <2>4. ASSUME answers # None PROVE answers = m_Values
    <3>1. CASE answers = <<>>
      <4>1. m_Values = <<0>>
        BY <1>2, <2>4, <3>1 DEF PlotInv, Shown
      <4>2. Len(m_Values) = 1
        BY <4>1
      <4>3. 2 > m_MaxSize
        BY <2>3, <4>2
      <4> QED
        BY <4>3, MainLoopAssumption
    <3>2. CASE answers # <<>>
      BY <1>2, <2>4, <3>2 DEF PlotInv, Shown
    <3> QED
      BY <3>1, <3>2
  <2> QED
    BY <2>2, <2>3, <2>4
<1> QED
  BY <1>1, <1>2, PlotInitial, PlotInductive, DecidedInductive, PTL DEF Spec, MajorityLow

-----------------------------------------------------------------------------
\* Nobody makes a tray icon once the attempts are used up.
AttemptsInv == main = "window" => attempts < MaxAttempts

\* What the tray icon may be.
TrayIcons == [icon  : [Cells -> {"none", "whole", "moved"}],
              hook  : Cells \cup {None},
              shell : BOOLEAN]

\* The tray icon is of its type before, while and after it is taken down.
LEMMA TrayIconTypes == NoTrayIcon \in TrayIcons /\ HeldTrayIcon \in TrayIcons
<1>1. [c \in Cells |-> "none"] \in [Cells -> {"none", "whole", "moved"}]
  OBVIOUS
<1>2. [c \in Cells |-> IF c = "m_SystemTray" THEN "whole" ELSE "none"]
      \in [Cells -> {"none", "whole", "moved"}]
  OBVIOUS
<1>3. "m_SystemTray" \in Cells
  BY DEF Cells
<1> QED
  BY <1>1, <1>2, <1>3 DEF TrayIcons, NoTrayIcon, HeldTrayIcon

LEMMA DestroyedType ==
    ASSUME NEW t \in TrayIcons, NEW c \in Cells, NEW failure
    PROVE  Destroy(t, c, failure) \in TrayIcons
<1> DEFINE d == [t EXCEPT !.icon[c] = "none"]
<1>1. d \in TrayIcons
  BY DEF TrayIcons
<1>2. [d EXCEPT !.hook = None, !.shell = @ /\ failure = "delete"] \in TrayIcons
  <2> HIDE DEF d
  <2>1. (d.shell /\ failure = "delete") \in BOOLEAN
    OBVIOUS
  <2> QED
    BY <1>1, <2>1 DEF TrayIcons
<1> QED
  BY <1>1, <1>2 DEF Destroy

\* Types and bounds are kept by every step.
LEMMA TypeInductive ==
    ASSUME TypeOK, AttemptsInv, IInv, PlotInv, PlotInv', [Next]_vars
    PROVE  TypeOK' /\ AttemptsInv'
<1> DEFINE Buffered == /\ m_Values \in Seq(Values \cup {0}) /\ Len(m_Values) \in 1..m_MaxSize
                       /\ answers # None => answers \in Seq(Values) /\ Len(answers) <= m_MaxSize
                       /\ m_Queue \in Seq(Values)
<1>1. Buffered'
  <2>1. answers' # None => answers' \in Seq(Values) /\ Len(answers') <= m_MaxSize
    <3>1. ASSUME answers' # None PROVE answers' \in Seq(Values \ {0}) /\ Len(answers') <= m_MaxSize
      BY <3>1 DEF PlotInv
    <3> QED
      BY <3>1, SeqMonotonic
  <2> QED
    BY <2>1 DEF PlotInv, Buffers, V0
<1> DEFINE Mains == {"window", "frame", "unserved", "recreate", "suspend", "asleep", "events",
                     "menu", "list", "address", "plot", "wait", "destroy", "exited", "crashed"}
           Flags == /\ exit \in BOOLEAN /\ keys \in BOOLEAN /\ m_Server \in BOOLEAN
                    /\ linkUp \in BOOLEAN /\ scanning \in BOOLEAN /\ far \in BOOLEAN
                    /\ receiver \in {"none", "former", "current"}
                    /\ main \in Mains
                    /\ co \in [Coroutines -> {"free", "write", "popup"}]
           Queued == Len(m_Queue) <= MaxQueue
           Window == /\ attempts \in 0..MaxAttempts /\ tray \in TrayIcons
                     /\ failed \in {"nothing", "handle", "delete"}
<1>2. Flags /\ Queued /\ Window
  BY DEF TypeOK, TrayIcons
<1>3. Window' /\ AttemptsInv'
  <2>1. MaxAttempts \in Nat \ {0}
    BY MainLoopAssumption
  <2>2. CASE TrayIconMade
    <3>1. tray' = HeldTrayIcon
      BY <2>2, MadeTrayIcon DEF TrayIconMade, IInv, TrayInv
    <3> QED
      BY <1>2, <2>2, <3>1, TrayIconTypes DEF TrayIconMade, AttemptsInv
  <2>3. CASE TrayIconFails
    <3>1. attempts' = attempts + 1 /\ attempts < MaxAttempts /\ tray' = tray /\ failed' = failed
      BY <2>3 DEF TrayIconFails, AttemptsInv
    <3>2. main' = "window" => attempts' # MaxAttempts
      BY <2>3 DEF TrayIconFails
    <3> QED
      BY <1>2, <2>1, <3>1, <3>2 DEF AttemptsInv
  <2>4. CASE DestroyWindow
    <3>1. tray' = Destroy(tray, "m_SystemTray", failed') /\ "m_SystemTray" \in Cells
      BY <2>4 DEF DestroyWindow, Cells
    <3>2. tray' \in TrayIcons
      BY <1>2, <3>1, DestroyedType
    <3> QED
      BY <1>2, <2>4, <3>2 DEF DestroyWindow, AttemptsInv
  <2>5. CASE UNCHANGED windowVars /\ (main' = main \/ main' # "window")
    BY <1>2, <2>5 DEF windowVars, AttemptsInv
  <2>6. ~(TrayIconMade \/ TrayIconFails \/ DestroyWindow)
        => UNCHANGED windowVars /\ (main' = main \/ main' # "window")
    BY DEF Next, FrameStep, BeginFrame, CheckAuthenticated, Recreate, Suspend, SuspendFails,
         ProcessEvents, NothingClicked, GenerateKeys, DeleteKeys, DrawList, DrawAddress, Plot,
         Resume, SystemCallFails, WaitForAll,
         CoroutineStep, DemandWritten, DemandRefused, DemandUnreachable, Popup, Answer,
         GrantAuthentication, RevokeAuthentication, LinkChanges, ScanEnds, TokenMoves, vars
  <2> QED
    BY <2>2, <2>3, <2>4, <2>5, <2>6
<1>4. Queued'
  <2>1. MaxQueue \in Nat
    BY MainLoopAssumption
  <2>2. CASE m_Queue' = <<>>
    BY <2>1, <2>2, EmptySeq
  <2>3. CASE \E rssi \in Values : Answer(rssi)
    <3>1. PICK rssi \in Values : Answer(rssi)
      BY <2>3
    <3>2. m_Queue' = Append(m_Queue, rssi) /\ Len(m_Queue) < MaxQueue
      BY <3>1 DEF Answer
    <3>3. Len(m_Queue') = Len(m_Queue) + 1 /\ Len(m_Queue) \in Nat
      BY <3>2, AppendProperties, LenProperties DEF PlotInv
    <3> QED
      BY <2>1, <3>2, <3>3
  <2>4. CASE UNCHANGED m_Queue
    BY <1>2, <2>4
  <2>5. \/ m_Queue' = <<>> \/ UNCHANGED m_Queue
        \/ \E rssi \in Values : Answer(rssi)
    BY DEF Next, FrameStep, BeginFrame, CheckAuthenticated, Recreate, Suspend, SuspendFails,
         ProcessEvents, NothingClicked, GenerateKeys, DeleteKeys, DrawList, DrawAddress, Plot,
         NewPlot, FetchAnswers, TrayIconMade, TrayIconFails, DestroyWindow,
         Resume, SystemCallFails, WaitForAll,
         CoroutineStep, DemandWritten, DemandRefused, DemandUnreachable, Popup,
         GrantAuthentication, RevokeAuthentication, LinkChanges, ScanEnds, TokenMoves,
         vars, plotVars
  <2> QED
    BY <2>2, <2>3, <2>4, <2>5
<1>5. Flags'
  <2> HIDE DEF Queued, Window, Buffered
  <2>1. CASE TrayIconMade \/ TrayIconFails \/ DestroyWindow
    BY <1>2, <2>1 DEF TrayIconMade, TrayIconFails, DestroyWindow, serverVars, plotVars
  <2>2. CASE FrameStep
    <3>1. CASE BeginFrame \/ CheckAuthenticated \/ Suspend \/ SuspendFails
      BY <1>2, <3>1 DEF BeginFrame, CheckAuthenticated, Suspend, SuspendFails, serverVars, plotVars
    <3>2. CASE Recreate \/ DeleteKeys
      <4>1. /\ main' \in {"events", "list"} /\ receiver' = "none"
            /\ keys' \in {keys, FALSE} /\ scanning' \in BOOLEAN
            /\ UNCHANGED <<exit, m_Server, linkUp, co, far>>
        BY <3>2 DEF Recreate, DeleteKeys, NewPlot
      <4> QED
        BY <1>2, <4>1
    <3>3. CASE ProcessEvents \/ NothingClicked \/ GenerateKeys
      BY <1>2, <3>3, ZenonT(30) DEF ProcessEvents, NothingClicked, GenerateKeys, serverVars, plotVars
    <3>4. CASE DrawList \/ DrawAddress
      BY <1>2, <3>4 DEF DrawList, DrawAddress, serverVars, plotVars
    <3>5. CASE Plot
      <4>1. main' \in {"wait", "frame"} /\ receiver' \in {receiver, "current"}
        BY <3>5 DEF Plot
      <4>2. co' \in [Coroutines -> {"free", "write", "popup"}]
        <5>1. \/ UNCHANGED co
              \/ \E c \in Coroutines : co' = [co EXCEPT ![c] = "write"]
          BY <3>5, Zenon DEF Plot
        <5> QED
          BY <1>2, <5>1
      <4>3. UNCHANGED <<exit, keys, m_Server, linkUp, scanning, far>>
        BY <3>5, Zenon DEF Plot, serverVars
      <4>4. receiver' \in {"none", "former", "current"}
        BY <1>2, <4>1
      <4> QED
        BY <1>2, <4>1, <4>2, <4>3, <4>4
    <3> QED
      BY <2>2, <3>1, <3>2, <3>3, <3>4, <3>5 DEF FrameStep
  <2>3. CASE Resume \/ SystemCallFails \/ WaitForAll
    <3>1. /\ main' \in {"crashed", "destroy"} /\ linkUp' \in {linkUp, FALSE}
          /\ UNCHANGED <<exit, keys, m_Server, scanning, receiver, co, far>>
      BY <2>3 DEF Resume, SystemCallFails, WaitForAll, serverVars, plotVars
    <3> QED
      BY <1>2, <3>1, ZenonT(30)
  <2>4. CASE \E c \in Coroutines : CoroutineStep(c)
    <3>1. PICK c \in Coroutines : CoroutineStep(c)
      BY <2>4
    <3>2. CASE DemandWritten(c) \/ DemandRefused(c) \/ Popup(c)
      BY <1>2, <3>2 DEF DemandWritten, DemandRefused, Popup, serverVars, plotVars
    <3>3. CASE DemandUnreachable(c)
      <4>1. m_Server' = FALSE /\ receiver' \in {receiver, "former"}
        BY <3>3, Zenon DEF DemandUnreachable, Revoke
      <4>2. co' = [co EXCEPT ![c] = "popup"]
        BY <3>3, Zenon DEF DemandUnreachable
      <4>3. UNCHANGED <<main, exit, keys, linkUp, scanning, far>>
        BY <3>3, Zenon DEF DemandUnreachable
      <4>4. receiver' \in {"none", "former", "current"}
        BY <1>2, <4>1
      <4>5. co' \in [Coroutines -> {"free", "write", "popup"}]
        BY <1>2, <4>2
      <4> QED
        BY <1>2, <4>1, <4>3, <4>4, <4>5
    <3> QED
      BY <3>1, <3>2, <3>3 DEF CoroutineStep
  <2>5. CASE \/ \E rssi \in Values : Answer(rssi)
             \/ GrantAuthentication \/ RevokeAuthentication \/ LinkChanges \/ ScanEnds \/ TokenMoves
    <3>1. CASE \E rssi \in Values : Answer(rssi)
      <4>1. UNCHANGED <<main, exit, serverVars, receiver, co, far>>
        BY <3>1 DEF Answer
      <4> QED
        BY <1>2, <4>1 DEF serverVars
    <3>2. CASE GrantAuthentication \/ RevokeAuthentication
      <4>1. m_Server' \in BOOLEAN /\ linkUp' \in BOOLEAN
        <5>1. linkUp \in BOOLEAN
          BY <1>2
        <5>2. CASE GrantAuthentication
          BY <5>2, Zenon DEF GrantAuthentication
        <5>3. CASE RevokeAuthentication
          <6>1. m_Server' = FALSE /\ linkUp' = linkUp
            BY <5>3, Zenon DEF RevokeAuthentication, Revoke
          <6> QED
            BY <5>1, <6>1
        <5> QED
          BY <3>2, <5>2, <5>3
      <4>2. receiver' \in {receiver, "former"}
        BY <3>2, Zenon DEF GrantAuthentication, RevokeAuthentication, Revoke, plotVars
      <4>3. UNCHANGED <<main, exit, keys, scanning, co, far>>
        BY <3>2, Zenon DEF GrantAuthentication, RevokeAuthentication
      <4> QED
        BY <1>2, <4>1, <4>2, <4>3
    <3>3. CASE LinkChanges
      <4>1. linkUp' \in BOOLEAN /\ UNCHANGED <<main, exit, keys, m_Server, scanning, receiver, co, far>>
        BY <3>3 DEF LinkChanges, plotVars
      <4> QED
        BY <1>2, <4>1
    <3>4. CASE ScanEnds
      <4>1. scanning' \in BOOLEAN /\ UNCHANGED <<main, exit, keys, m_Server, linkUp, receiver, co, far>>
        BY <3>4 DEF ScanEnds, plotVars
      <4> QED
        BY <1>2, <4>1
    <3>5. CASE TokenMoves
      <4>1. far' \in BOOLEAN /\ UNCHANGED <<main, exit, serverVars, receiver, co>>
        BY <3>5 DEF TokenMoves, plotVars
      <4> QED
        BY <1>2, <4>1 DEF serverVars
    <3> QED
      BY <2>5, <3>1, <3>2, <3>3, <3>4, <3>5
  <2>6. CASE UNCHANGED vars
    BY <1>2, <2>6 DEF vars, serverVars, plotVars
  <2> QED
    BY <2>1, <2>2, <2>3, <2>4, <2>5, <2>6 DEF Next
<1> QED
  BY <1>1, <1>3, <1>4, <1>5 DEF TypeOK, TrayIcons

\* Every variable keeps its type, the buffer and the history of answers their
\* bound m_MaxSize, and the buffer is never empty, which rssi_median() relies on
\* (CRSSIPlot.cpp:31-44 and 70-92).
THEOREM TypeCorrect == Spec => []TypeOK
<1>1. Init => TypeOK /\ AttemptsInv /\ IInv
  <2> SUFFICES ASSUME Init PROVE TypeOK /\ AttemptsInv /\ IInv
    OBVIOUS
  <2>1. MaxAttempts \in Nat \ {0} /\ MaxQueue \in Nat /\ m_MaxSize \in Nat \ {0, 1}
    BY MainLoopAssumption
  <2>2. <<>> \in Seq(Values) /\ Len(<<>>) = 0 /\ <<0>> \in Seq(Values \cup {0}) /\ Len(<<0>>) = 1
    BY EmptySeq
  <2>3. /\ m_Queue \in Seq(Values) /\ Len(m_Queue) <= MaxQueue
        /\ m_Values \in Seq(Values \cup {0}) /\ Len(m_Values) \in 1..m_MaxSize
        /\ answers \in Seq(Values) /\ Len(answers) <= m_MaxSize
        /\ attempts \in 0..MaxAttempts /\ attempts < MaxAttempts
    BY <2>1, <2>2 DEF Init
  <2>4. tray \in TrayIcons
    BY TrayIconTypes DEF Init
  <2> QED
    BY <2>3, <2>4 DEF Init, TypeOK, TrayIcons, AttemptsInv, IInv, TrayInv, QuietInv
<1> QED
  BY <1>1, PlotInitial, PlotInductive, Inductive, TypeInductive, PTL DEF Spec
===============================================================================
