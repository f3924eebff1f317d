----------------------------- MODULE PowerCapTask -----------------------------
(***************************************************************************)
(* What a caller of PATCH /power-cap or POST /power-cap/snapshot is        *)
(* promised of the task: it is created, worked on and completed, in this   *)
(* order; an operation has at most one result; a completed task does not   *)
(* change.  All this until its record expires or is pruned: from then on   *)
(* nothing is promised but that it will be gone.  PowerCap implements it.  *)
(***************************************************************************)
CONSTANT Op    \* the operations a task may consist of

VARIABLES
    status,    \* of the task; "none": there is no task
    results,   \* the status of each operation, as GET /power-cap/{taskID} tells
    closing    \* the record has expired or is being pruned

Final == {"failed", "Succeeded", "Unsupported"}

\* What may become of a result: a final one stays.
Onward(r, s) == \/ s = r
                \/ r = "none"
                \/ r \in {"new", "in-progress"} /\ s \in Final

Init == status \in {"none", "completed"} /\ closing = FALSE

Create == /\ status = "none" /\ status' = "new"
          /\ \A o \in Op : results'[o] = "none"

Work == /\ status \in {"new", "in-progress"}
        /\ status' \in {status, "in-progress"}
        /\ \A o \in Op : Onward(results[o], results'[o])

Finish == /\ status \in {"new", "in-progress"} /\ status' = "completed"
          /\ results' = results

Close == closing' = TRUE /\ UNCHANGED <<status, results>>

Next == \/ ~closing /\ closing' = FALSE /\ (Create \/ Work \/ Finish)
        \/ ~closing /\ Close
        \/ closing /\ closing' = TRUE

Spec == Init /\ [][Next]_<<status, results, closing>>
=============================================================================
