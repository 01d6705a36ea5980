--------------------------- MODULE SlidingWindow ---------------------------
(***************************************************************************)
(* What session memory promises (agent/session_memory.py, docstring and    *)
(* add_turn): a history is the last Window turns appended to it since it   *)
(* was created, cleared or expired, oldest first, and all of them when     *)
(* Window is 0.                                                            *)
(***************************************************************************)
EXTENDS Naturals, Sequences

CONSTANTS
    Histories,  \* the histories there are
    Turns,      \* a user message with its reply
    Window      \* CONTEXT_WINDOW_TURNS; 0 is no limit

VARIABLE history

\* The last n elements of s, all of them for n = 0.
LastN(s, n) == IF n = 0 \/ Len(s) <= n THEN s ELSE SubSeq(s, Len(s) - n + 1, Len(s))

Init == history = [h \in Histories |-> <<>>]

\* A turn is appended, the oldest one beyond the window is forgotten.
AddTurn(h, t) == history' = [history EXCEPT ![h] = LastN(Append(@, t), Window)]

\* Histories are cleared or expire, or are lost with their process.
Forget(H) == history' = [h \in Histories |-> IF h \in H THEN <<>> ELSE history[h]]

Next ==
    \/ \E h \in Histories, t \in Turns : AddTurn(h, t)
    \/ \E H \in SUBSET Histories : Forget(H)
Spec == Init /\ [][Next]_history
=============================================================================
