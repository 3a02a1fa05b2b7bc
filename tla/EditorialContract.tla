-------------------------- MODULE EditorialContract --------------------------
(***************************************************************************)
(* What the editorial process promises of one social post, without users,  *)
(* requests, locks or triggers.  The brief is open to editing until it is  *)
(* handed off to be executed; only a complete brief is handed off; while it*)
(* is being executed it does not change, unless it is taken back; a post is*)
(* published only from execution, with the brief that was handed off and   *)
(* with evidence of the publication (a valid live link); the evidence of a *)
(* published post is never taken away.  A post may be discarded at any     *)
(* time.                                                                   *)
(***************************************************************************)
CONSTANTS Briefs, Complete, NoBrief

VARIABLES
  stage,     \* none, editing, executing or published
  brief,     \* the content of the post, NoBrief when there is none
  evidence   \* is a valid live link stored?

contract == <<stage, brief, evidence>>

Init == stage = "none" /\ brief = NoBrief /\ evidence = FALSE

Open == /\ stage = "none" /\ stage' = "editing"
        /\ brief' \in Briefs
        /\ evidence' = FALSE

(* Editing, and correcting what is already published.                      *)
Edit == /\ stage \in {"editing", "published"} /\ stage' = stage
        /\ brief' \in Briefs
        /\ evidence' = evidence

HandOff == /\ stage = "editing" /\ stage' = "executing"
           /\ brief' \in Complete
           /\ evidence' = evidence

TakeBack == /\ stage = "executing" /\ stage' = "editing"
            /\ UNCHANGED <<brief, evidence>>

Publish == /\ stage = "executing" /\ stage' = "published"
           /\ evidence
           /\ UNCHANGED <<brief, evidence>>

CollectEvidence == /\ stage # "none"
                   /\ evidence' \in (IF stage = "published" THEN {TRUE} ELSE BOOLEAN)
                   /\ UNCHANGED <<stage, brief>>

Discard == stage' = "none" /\ brief' = NoBrief /\ evidence' = FALSE

Next == \/ Open \/ Edit \/ HandOff \/ TakeBack \/ Publish
        \/ CollectEvidence \/ Discard

Spec == Init /\ [][Next]_contract
=============================================================================
