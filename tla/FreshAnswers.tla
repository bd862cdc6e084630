----------------------------- MODULE FreshAnswers -----------------------------
(***************************************************************************)
(* What the demander promises the plot: every value shown answers a demand *)
(* of the demander that feeds this plot, made less than Window ago when    *)
(* the answer came in; a demand is answered at most once; values are shown *)
(* in the order in which their answers came in.  A demand is named by its  *)
(* random block.                                                           *)
(***************************************************************************)
EXTENDS Naturals, Sequences

CONSTANTS
    Nonces,     \* random blocks
    Window      \* for how long a demand may be answered, a positive number

VARIABLES
    used,       \* random blocks drawn so far, for any plot
    open,       \* demands of this plot that may still be answered
    age,        \* time since the demand was made, at most Window
    inbox,      \* answers that came in and are not shown yet
    shown       \* answers shown

vars == <<used, open, age, inbox, shown>>

Init ==
    /\ used = {}
    /\ open = {}
    /\ age = [n \in Nonces |-> Window]
    /\ inbox = <<>>
    /\ shown = <<>>

-----------------------------------------------------------------------------
\* A demand goes out.
Issue(n) ==
    /\ n \notin used
    /\ used' = used \cup {n}
    /\ open' = open \cup {n}
    /\ age' = [age EXCEPT ![n] = 0]
    /\ UNCHANGED <<inbox, shown>>

\* The demander of a plot that is gone sends its last demand.
IssueElsewhere(n) ==
    /\ n \notin used
    /\ used' = used \cup {n}
    /\ age' = [age EXCEPT ![n] = 0]
    /\ UNCHANGED <<open, inbox, shown>>

\* An answer in time; other demands may be given up on the occasion.
Take(n) ==
    /\ n \in open
    /\ age[n] < Window
    /\ open' \in SUBSET (open \ {n})
    /\ inbox' = Append(inbox, n)
    /\ UNCHANGED <<used, age, shown>>

GiveUp ==
    /\ open' \in SUBSET open
    /\ UNCHANGED <<used, age, inbox, shown>>

Show ==
    /\ shown' = shown \o inbox
    /\ inbox' = <<>>
    /\ UNCHANGED <<used, open, age>>

NewPlot ==
    /\ open' = {}
    /\ inbox' = <<>>
    /\ shown' = <<>>
    /\ UNCHANGED <<used, age>>

Pass ==
    /\ age' = [n \in Nonces |-> IF age[n] < Window THEN age[n] + 1 ELSE Window]
    /\ UNCHANGED <<used, open, inbox, shown>>

Next ==
    \/ \E n \in Nonces : Issue(n) \/ IssueElsewhere(n) \/ Take(n)
    \/ GiveUp \/ Show \/ NewPlot \/ Pass

Spec == Init /\ [][Next]_vars
=============================================================================
