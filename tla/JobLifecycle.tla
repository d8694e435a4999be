---------------------------- MODULE JobLifecycle ----------------------------
(***************************************************************************)
(* What the data model promises about jobs.status: the transition graph    *)
(* that db/schema.sql lists as "enforced in application logic".  A job is  *)
(* inserted as 'submitted' and afterwards only follows an edge of it.      *)
(***************************************************************************)
CONSTANT Job
VARIABLE status

Transition ==
    { <<"submitted", "dispatching">>, <<"submitted", "queued">>,
      <<"queued", "dispatching">>,
      <<"dispatching", "printing">>, <<"dispatching", "queued">>,
      <<"printing", "delivered">>, <<"printing", "failed">>,
      <<"failed", "queued">> }

Init == status = [j \in Job |-> "none"]

Insert(j) == status[j] = "none" /\ status' = [status EXCEPT ![j] = "submitted"]

Step(j) ==
    \E e \in Transition : status[j] = e[1] /\ status' = [status EXCEPT ![j] = e[2]]

Next == \E j \in Job : Insert(j) \/ Step(j)

Spec == Init /\ [][Next]_status
=============================================================================
