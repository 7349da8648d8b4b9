---------------------------- MODULE EtrnRefinement ----------------------------
(***************************************************************************)
(* The exchange of EtrnExchange, seen as the promise of EtrnNotes: the     *)
(* records are what Central shows, the stages before acceptance are one,   *)
(* and what was told of them stands in the feed.                           *)
(***************************************************************************)
EXTENDS EtrnExchange

AtOperator == [d \in Docs |-> IF Reached(d) THEN stage[d] ELSE "before"]

ToldOf == [d \in Docs |-> ToldEarly(d)]

Notes == INSTANCE EtrnNotes WITH stage <- AtOperator, told <- ToldOf, shown <- status

\* No interleaving of acceptance, polling, lost answers, failed saves and
\* restarts makes Central show a note before it has reached acceptance, a decision
\* the operator has not executed, or as closed one that is neither over nor was
\* reported at an earlier stage.
NeverAhead == Notes!Spec
=============================================================================
