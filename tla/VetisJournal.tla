----------------------------- MODULE VetisJournal -----------------------------
(***************************************************************************)
(* What Central promises about veterinary documents: its journal may lag   *)
(* behind Mercury, lose a VSD or fall back to an older state of it, but it *)
(* never shows a VSD as quenched that can still be quenched, nor as        *)
(* withdrawn one that is not.                                              *)
(***************************************************************************)
CONSTANTS Vsds, Docs

VARIABLES
  status,  \* [Vsds -> status of the VSD in Mercury]
  shown    \* [Docs -> [Vsds -> status the record shows, "none" where it is not in it]]

vars == <<status, shown>>

Left == {"UTILIZED", "WITHDRAWN"}
Content == [Vsds -> {"none", "CONFIRMED"} \cup Left]

Init ==
  /\ status = [v \in Vsds |-> "CONFIRMED"]
  /\ shown \in [Docs -> [Vsds -> {"none", "CONFIRMED"}]]

\* A VSD leaves its state «оформлен», once.
Leave(v, s) ==
  /\ status[v] = "CONFIRMED"
  /\ status' = [status EXCEPT ![v] = s]
  /\ UNCHANGED shown

\* What Mercury's truth allows a record to show.
MayShow(content) ==
  \A v \in Vsds :
    /\ content[v] = "UTILIZED" => status[v] \in Left
    /\ content[v] = "WITHDRAWN" => status[v] = "WITHDRAWN"

\* One record is written at a time, and never together with a change in Mercury.
Write(d, content) ==
  /\ MayShow(content)
  /\ shown' = [shown EXCEPT ![d] = content]
  /\ UNCHANGED status

Next ==
  \/ \E v \in Vsds, s \in Left : Leave(v, s)
  \/ \E d \in Docs, content \in Content : Write(d, content)

Spec == Init /\ [][Next]_vars
=============================================================================
