----------------------------- MODULE ReplaySlot -----------------------------
(***************************************************************************)
(* What the replay storage promises the players whose scores compete for   *)
(* one replay slot, whatever files, flags and locks are behind it: the     *)
(* slot shows one replay at most; only the leading score can take it; a    *)
(* replay that is shown stays until its score is withdrawn, overtaken, or  *)
(* followed by the leading one; and a score that was withdrawn never comes *)
(* back.                                                                   *)
(*                                                                         *)
(* ReplayStore implements this contract (see ReplayStore!Slot).            *)
(***************************************************************************)
EXTENDS Naturals

CONSTANTS
    Entries, \* the scores that can compete, in the order of submission
    Points   \* their totals

VARIABLES contenders, gone, shown

slotVars == <<contenders, gone, shown>>

Ahead(s, t) == Points[s] > Points[t] \/ (Points[s] = Points[t] /\ s < t)
Leads(s) == s \in contenders /\ \A t \in contenders \ {s} : Ahead(s, t)

SlotInit == contenders = {} /\ gone = {} /\ shown = {}

\* A score is submitted, without a replay yet.
Enter(s) ==
    /\ s \notin contenders \cup gone
    /\ contenders' = contenders \cup {s}
    /\ UNCHANGED <<gone, shown>>

\* A score is deleted, and its replay with it.
Withdraw(s) ==
    /\ s \in contenders
    /\ contenders' = contenders \ {s} /\ gone' = gone \cup {s}
    /\ shown' = shown \ {s}

\* The replay of the leading score takes the slot.
Show(s) ==
    /\ Leads(s) /\ shown' = {s}
    /\ UNCHANGED <<contenders, gone>>

\* The replay of a score that was overtaken is given up.
Hide(s) ==
    /\ ~Leads(s) /\ shown' = shown \ {s}
    /\ UNCHANGED <<contenders, gone>>

SlotNext == \E s \in Entries : Enter(s) \/ Withdraw(s) \/ Show(s) \/ Hide(s)

SlotSpec == SlotInit /\ [][SlotNext]_slotVars

=============================================================================
