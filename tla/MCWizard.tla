------------------------------ MODULE MCWizard ------------------------------
(* An instance of PlaylistWizard for TLC.  A panel for shuffling begins     *)
(* without a choice, the two others with one.                               *)
EXTENDS PlaylistWizard

CONSTANTS c1, c2

FirstChoice == [m \in {"shuffle", "recent", "top50"} |-> IF m = "shuffle" THEN Nothing ELSE c1]

EnoughAndFew == {[c \in {c1, c2} |-> IF c = c1 THEN 25 ELSE 1]}

\* The second has few tracks, and items beside them or not.
FewOrMixed == {[c \in {c1, c2} |-> IF c = c1 THEN 25 ELSE n] : n \in {1, 25}}

=============================================================================
