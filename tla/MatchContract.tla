--------------------------- MODULE MatchContract ---------------------------
(***************************************************************************)
(* What a tournament match promises its two teams, whatever goes on inside *)
(* it: it is offered, then live, and ends once, either decided or          *)
(* annulled.  While it is live the teams gain points one at a time; the    *)
(* match is decided by the point that reaches the target, by a team that   *)
(* gives up, or as a draw after enough rounds that nobody won.  Only a     *)
(* decided match counts for the ratings, and it counts once.               *)
(*                                                                         *)
(* SomsaiMatch implements this contract (see SomsaiMatch!Contract).        *)
(***************************************************************************)
EXTENDS Integers

CONSTANTS
    Goal,       \* the points that decide a match
    BlankLimit, \* rounds without a winner after which a draw may be declared
    Counts      \* does a decided match count for the ratings?

VARIABLES phase, champion, rated, score, blanks

contractVars == <<phase, champion, rated, score, blanks>>

Sides == {0, 1}
Nobody == -1
Opponent(t) == 1 - t

ContractInit ==
    /\ phase \in {"offered", "live"}
    /\ champion = Nobody /\ rated = 0
    /\ score = [t \in Sides |-> 0] /\ blanks = 0

Decide(t) ==
    /\ phase' = "decided" /\ champion' = t
    /\ rated' = IF Counts THEN 1 ELSE 0

Annul ==
    /\ phase' = "annulled" /\ UNCHANGED <<champion, rated>>

GoOn == UNCHANGED <<phase, champion, rated>>

\* The ready check succeeds, or the owner of a custom match starts it.
Begin ==
    /\ phase = "offered" /\ phase' = "live"
    /\ UNCHANGED <<champion, rated, score, blanks>>

CallOff ==
    /\ phase \in {"offered", "live"} /\ Annul
    /\ UNCHANGED <<score, blanks>>

GiveUp(t) ==
    /\ phase = "live" /\ Decide(Opponent(t))
    /\ UNCHANGED <<score, blanks>>

\* A team wins a round.  The point that reaches the goal decides the match; no
\* other does, though the next round may turn out to be impossible.
Point(t) ==
    /\ phase = "live"
    /\ score' = [score EXCEPT ![t] = @ + 1]
    /\ IF score'[t] = Goal THEN Decide(t) ELSE GoOn \/ Annul
    /\ UNCHANGED blanks

\* A round without a winner.
Blank ==
    /\ phase = "live"
    /\ blanks' \in {blanks, blanks + 1}
    /\ \/ GoOn \/ Annul
       \/ blanks' >= BlankLimit /\ Decide(Nobody)
    /\ UNCHANGED score

ContractNext ==
    \/ Begin \/ CallOff \/ Blank
    \/ \E t \in Sides : GiveUp(t) \/ Point(t)

ContractSpec == ContractInit /\ [][ContractNext]_contractVars

=============================================================================
