------------------------------ MODULE RequestTrail ------------------------------
(* What the trail of a filed request promises, whoever acts on it and however   *)
(* often: a request is filed once, as pending, and is decided once.             *)
CONSTANTS
  Ids,          \* requests
  Decisions     \* the statuses a request may end in

VARIABLE status \* Ids -> "absent", "pending" or a decision

File(i) == status[i] = "absent" /\ status' = [status EXCEPT ![i] = "pending"]

Decide(i) ==
  /\ status[i] = "pending"
  /\ \E d \in Decisions : status' = [status EXCEPT ![i] = d]

Init == status = [i \in Ids |-> "absent"]
Next == \E i \in Ids : File(i) \/ Decide(i)
Spec == Init /\ [][Next]_status
================================================================================
