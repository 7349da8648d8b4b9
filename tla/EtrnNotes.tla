------------------------------- MODULE EtrnNotes -------------------------------
(***************************************************************************)
(* What Central promises about consignment notes: the record it shows may  *)
(* lag behind the operator, and may even return to an older state, but it  *)
(* is never ahead of what the operator has told.                           *)
(***************************************************************************)
CONSTANT Docs

VARIABLES
  stage,     \* [Docs -> {"before", "acceptance", "after"}] at the operator
  told,      \* [Docs -> did the operator report a stage before acceptance?]
  executed,  \* [Docs -> our decision the operator executed, or "None"]
  shown      \* [Docs -> status of the note in Central]

vars == <<stage, told, executed, shown>>

Decision == {"Accepted", "Rejected"}

Init ==
  /\ stage = [d \in Docs |-> "before"]
  /\ told = [d \in Docs |-> FALSE]
  /\ executed = [d \in Docs |-> "None"]
  /\ shown = [d \in Docs |-> "None"]

\* The operator reports a stage that comes before acceptance.
Tell(d) ==
  /\ stage[d] = "before"
  /\ told' = [told EXCEPT ![d] = TRUE]
  /\ UNCHANGED <<stage, executed, shown>>

\* The note reaches its acceptance stage.
Open(d) ==
  /\ stage[d] = "before"
  /\ stage' = [stage EXCEPT ![d] = "acceptance"]
  /\ UNCHANGED <<told, executed, shown>>

\* The stage ends, once: by our decision or without us ("None").
End(d, decision) ==
  /\ stage[d] = "acceptance"
  /\ stage' = [stage EXCEPT ![d] = "after"]
  /\ executed' = [executed EXCEPT ![d] = decision]
  /\ UNCHANGED <<told, shown>>

\* What the operator allows Central to show; the end of a stage it has told of
\* is taken for the end of ours.
MayShow(d, s) ==
  /\ s \in {"Waiting", "Sending"} => stage[d] # "before"
  /\ s = "Closed" => stage[d] = "after" \/ told[d]
  /\ s \in Decision => executed[d] = s

Show(d, s) ==
  /\ MayShow(d, s)
  /\ shown' = [shown EXCEPT ![d] = s]
  /\ UNCHANGED <<stage, told, executed>>

Next ==
  \E d \in Docs :
    \/ Tell(d)
    \/ Open(d)
    \/ \E decision \in Decision \cup {"None"} : End(d, decision)
    \/ \E s \in Decision \cup {"Waiting", "Sending", "Closed"} : Show(d, s)

Spec == Init /\ [][Next]_vars
=============================================================================
