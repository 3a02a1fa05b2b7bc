--------------------------- MODULE MCBlogWorkflow ---------------------------
(* The instances of BlogWorkflow that TLC explores: times are compared for *)
(* equality only, and sessions are alike.                                  *)
EXTENDS BlogWorkflow, TLC

Symmetry == Permutations(Times) \cup Permutations(Sessions)

(* No action reads author: a state is explored once, whoever wrote last,   *)
(* and the action properties see the author of each step they judge.       *)
ExceptAuthor == <<blog, req, txn, active, steady, task>>

Common(row) ==
  row.writer_status # "needs_revision" /\ row.publisher_status # "pending_review"

(* While a request is in flight no admin has been deactivated, and the     *)
(* lanes stay out of the stages that only sending back and submitting for  *)
(* publication lead to.                                                    *)
Calm ==
  \A s \in Sessions : req[s] # None =>
    /\ steady = Admins /\ Common(blog) /\ Common(req[s].patch)
    /\ txn # None => Common(txn.row)
=============================================================================
