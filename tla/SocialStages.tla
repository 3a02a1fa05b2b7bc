---------------------------- MODULE SocialStages ----------------------------
(***************************************************************************)
(* The vocabulary of the social post workflow: the seven statuses, the     *)
(* moves between them, who owns a post at each status and what its brief   *)
(* must contain before it may enter one.                                   *)
(*                                                                         *)
(* The repository states these rules twice, in TypeScript                  *)
(* (src/lib/social-post-workflow.ts, used by the transition route) and in  *)
(* PL/pgSQL (the BEFORE triggers on social_posts).  Both versions are      *)
(* translated here, side by side; SocialPost uses each where the code does.*)
(*                                                                         *)
(* A brief (the nine fields title, product, type, canva_url, canva_page,   *)
(* caption, platforms, scheduled_date, associated_blog_id) is an opaque    *)
(* value, and so is the URL of a live link.  All that the workflow asks of *)
(* a brief is whether it is good enough for review (product, type and a    *)
(* Canva URL) and whether it is complete (caption, platforms and a schedule*)
(* as well).  The two versions do not agree on what a URL is, z.string().  *)
(* url() and new URL() on one side and regular expressions on the other,   *)
(* nor on blank captions, and neither side accepts all that the other does:*)
(* so each has sets of its own.                                            *)
(***************************************************************************)
CONSTANTS
  NoUser,         \* the null of a worker or reviewer column
  Briefs,         \* the contents a brief can have in a request
  Storable,       \* those that pass the table's own checks
  RouteReady,     \* those good enough for review: TypeScript, ...
  ReviewReady,    \* ... and SQL
  RouteComplete,  \* those that are complete: TypeScript, ...
  Complete,       \* ... and SQL
  Urls,           \* the URLs a stored live link can have
  RouteUrls,      \* those valid as a live link: TypeScript, ...
  ValidUrls       \* ... and SQL

ASSUME BriefAssumption ==
  /\ RouteComplete \subseteq RouteReady /\ RouteReady \subseteq Briefs
  /\ Complete \subseteq ReviewReady /\ ReviewReady \subseteq Storable
  /\ Storable \subseteq Briefs

ASSUME UrlAssumption == RouteUrls \subseteq Urls /\ ValidUrls \subseteq Urls

Statuses == {"draft", "in_review", "changes_requested", "creative_approved",
             "ready_to_publish", "awaiting_live_link", "published"}

ExecutionStages == {"ready_to_publish", "awaiting_live_link"}

WorkerStages == {"draft", "changes_requested", "ready_to_publish",
                 "awaiting_live_link"}

ReviewerStages == {"in_review", "creative_approved"}

(* TRANSITION_GRAPH of the TypeScript workflow: the moves the route allows.*)
TransitionGraph ==
  { <<"draft", "in_review">>,
    <<"in_review", "creative_approved">>,
    <<"in_review", "changes_requested">>,
    <<"changes_requested", "in_review">>,
    <<"creative_approved", "ready_to_publish">>,
    <<"ready_to_publish", "awaiting_live_link">>,
    <<"ready_to_publish", "changes_requested">>,
    <<"awaiting_live_link", "published">>,
    <<"awaiting_live_link", "changes_requested">> }

(* isBackwardTransition: the moves the route wants a reason for.           *)
IsBackward(from, to) == from \in ExecutionStages /\ to = "changes_requested"

(* social_stage_owner, and its twins getStatusActorId / getNextAssignment. *)
StageOwner(status, worker, reviewer) ==
  CASE status \in WorkerStages   -> worker
    [] status \in ReviewerStages -> reviewer
    [] OTHER                     -> NoUser

(* REQUIRED_FIELDS_FOR_STATUS: what the route wants of the merged brief    *)
(* before it asks the database to enter a status.                          *)
RequiredBrief(to) ==
  CASE to \in {"draft", "changes_requested"} -> Briefs
    [] to = "in_review"                      -> RouteReady
    [] OTHER                                 -> RouteComplete
=============================================================================
