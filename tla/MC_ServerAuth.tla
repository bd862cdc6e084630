---------------------------- MODULE MC_ServerAuth ----------------------------
(***************************************************************************)
(* ServerAuth for TLC: two CDevice objects, a token and another peripheral.*)
(***************************************************************************)
EXTENDS ServerAuth, TLC

CONSTANTS o1, o2, token, other, t1, t2, l1

MCObjects == {o1, o2}
MCAddresses == {token, other}
MCTokens == {token}
MCTasks == {t1, t2}
MCOneTask == {t1}
MCOneLoan == {l1}
MCOneObject == {o1}

\* Objects, scan tasks and borrowers are interchangeable; used by safety runs only.
MCSymmetry == Permutations(MCObjects) \cup Permutations(MCTasks)
=============================================================================
