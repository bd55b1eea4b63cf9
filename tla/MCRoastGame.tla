------------------------------ MODULE MCRoastGame ------------------------------
(* Instances of RoastGame for TLC: games played as designed, kept in        *)
(* Postgres, or one game under every overlap and failure.                    *)
EXTENDS RoastGame

VARIABLE calm

MCInit == Init /\ calm \in BOOLEAN /\ postgres = calm

MCNext ==
  /\ \/ calm /\ CalmNext
     \/ ~calm /\ Next /\ started' <= 1
  /\ UNCHANGED calm

MCSpec == MCInit /\ [][MCNext]_<<vars, postgres, calm>> /\ Fairness

(* Properties of RoastGame, in games played as designed: a game goes        *)
(* forward and counts its rounds once, its closing is announced by the       *)
(* prompt that says so, how it ended is decided once and tells whether there *)
(* is a card, and it is closed before the next (roast/base.py:232-321,       *)
(* roast/state.py:95-107, tools/roast.py:264, 362).                          *)
CalmGoesForward == [][calm => GoesForward]_vars
CalmAnnounced   == [][calm => Announced]_vars
CalmEndedOnce   == [][calm => RecordKept /\ OneCard' /\ ReplacedWasClosed']_vars
-----------------------------------------------------------------------------
(* Games played as designed, that the user may quit in any round (the tool's *)
(* description, tools/roast.py:388).                                         *)
QuitNext ==
  /\ \/ CalmNext
     \/ UNCHANGED postgres /\ \E r \in Turns : MarkRoastComplete(r, "quit")
  /\ UNCHANGED calm

QuitInit == MCInit /\ calm

QuitSpec == QuitInit /\ [][QuitNext]_<<vars, postgres, calm>> /\ Fairness

(* "Only for completed roasts - quit/interrupted does NOT send a card"       *)
(* (tools/roast.py:362): once a game was quit, there is no card of it.  The   *)
(* tick of the round it was quit in saves its ACTIVE copy (agent.py:482).    *)
QuitSendsNoCard == \A g \in Games : [](record[g] = "quit" => [](cards[g] = 0))
=============================================================================
