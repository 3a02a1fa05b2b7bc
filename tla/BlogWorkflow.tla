---------------------------- MODULE BlogWorkflow ----------------------------
(***************************************************************************)
(* One row of blogs, with its writing lane and its publishing lane, the    *)
(* review tasks its triggers hand to the admins, and those who write it:   *)
(* transition requests of the API, which read the row, decide, and write   *)
(* later under the service role; browsers, which write it with the user's  *)
(* own token; and service jobs, which touch other columns.                 *)
(*                                                                         *)
(* Every write is one UPDATE statement under the row lock.  A statement    *)
(* that hands out review tasks reads profiles, which it does not lock, so  *)
(* it runs in one step and commits in a later one; any other statement is  *)
(* one step, taken when nobody holds the lock.                             *)
(***************************************************************************)
EXTENDS FiniteSets, Naturals

CONSTANTS
  Users,        \* the profiles the run is about
  Admins,       \* those with profiles.is_admin
  Churn,        \* BOUND: users that may be deactivated and reactivated
  Assignees,    \* BOUND: users that may be made writer or publisher
  Sessions,     \* transition requests in flight at the same time
  Times,        \* values of updated_at, one for each write in sight
  WriterMoves,      \* BOUND: writer statuses that are asked for
  PublisherMoves,   \* BOUND: publisher statuses that are asked for
  Together,         \* BOUND: sets of columns that one write names
  NoUser,       \* null, for a profile id
  Keep,         \* a column that a write leaves out
  None          \* no request, or no transaction in progress

(* The holders of each permission of the workflow.  override_status stands *)
(* for override_writer_status, override_publisher_status, edit_writer_     *)
(* status and edit_publisher_status; change_assignment for both change_    *)
(* permissions; edit_publish_timestamp also for force_publish.             *)
CONSTANTS
  start_writing, start_publishing, submit_draft, request_revision,
  complete_publishing, change_assignment, edit_publish_timestamp,
  override_status, repair_workflow_state

ASSUME UserAssumption ==
  /\ NoUser \notin Users /\ Keep \notin Users \cup {NoUser}
  /\ Admins \subseteq Users /\ Churn \subseteq Users /\ Assignees \subseteq Users

ASSUME TimeAssumption ==
  /\ IsFiniteSet(Sessions) /\ IsFiniteSet(Times)
  /\ Cardinality(Times) > Cardinality(Sessions) + 1

VARIABLES
  blog,     \* the committed row
  author,   \* history variable: who made the latest write, NoUser for a service
  req,      \* the transition requests in flight
  txn,      \* the statement that has run and not committed, or None
  active,   \* profiles.is_active
  steady,   \* history variable: the admins that were never deactivated
  task      \* task_assignments of the blog, one per admin and type

vars == <<blog, author, req, txn, active, steady, task>>

-----------------------------------------------------------------------------
(* Types *)

UserOrNull == Users \cup {NoUser}

WriterStatuses ==
  {"not_started", "in_progress", "pending_review", "needs_revision", "completed"}

PublisherStatuses ==
  {"not_started", "in_progress", "pending_review", "publisher_approved", "completed"}

ASSUME MoveAssumption ==
  /\ WriterMoves \subseteq WriterStatuses /\ PublisherMoves \subseteq PublisherStatuses
  /\ Keep \notin WriterStatuses \cup PublisherStatuses

Row == [writer: UserOrNull, publisher: UserOrNull,
        writer_status: WriterStatuses, publisher_status: PublisherStatuses,
        stamped: BOOLEAN,            \* actual_published_at is not null
        updated_at: Times]

Patch == [writer: UserOrNull \cup {Keep}, publisher: UserOrNull \cup {Keep},
          writer_status: WriterStatuses \cup {Keep},
          publisher_status: PublisherStatuses \cup {Keep}]

Request == [actor: Users, read: Row, patch: Patch]

TaskTypes == {"writer_review", "publisher_review"}
TaskStates == {"none", "pending", "reassigned"}

Transaction == [row: Row, author: UserOrNull, tasks: SUBSET (Admins \X TaskTypes)]

ASSUME NoneAssumption == None \notin Request /\ None \notin Transaction

Untouched == [writer |-> Keep, publisher |-> Keep,
              writer_status |-> Keep, publisher_status |-> Keep]

(* The payloads of the clients: a write names any of the columns, and      *)
(* Together bounds which of them.  Other columns are an empty patch.       *)
Payloads ==
  LET assignee == Assignees \cup {NoUser, Keep}
  IN  {p \in [writer: assignee, publisher: assignee,
              writer_status: WriterMoves \cup {Keep},
              publisher_status: PublisherMoves \cup {Keep}] :
         \E columns \in Together : \A c \in DOMAIN p \ columns : p[c] = Keep}

Given(value, current) == IF value = Keep THEN current ELSE value

(* The definitions named Fault_ are seeded faults: each is a slip that the  *)
(* definition after it avoids, kept to show that the properties notice it.  *)

Fault_WritesMissingColumns(row, p) ==
  [row EXCEPT !.writer = p.writer, !.publisher = p.publisher,
              !.writer_status = Given(p.writer_status, @),
              !.publisher_status = Given(p.publisher_status, @)]

Patched(row, p) ==
  [row EXCEPT !.writer = Given(p.writer, @), !.publisher = Given(p.publisher, @),
              !.writer_status = Given(p.writer_status, @),
              !.publisher_status = Given(p.publisher_status, @)]

-----------------------------------------------------------------------------
(* The stage rules, which the API and the database state alike *)

MayMoveWriter(u, old, new) ==
  \/ old = new
  \/ u \in override_status \cup repair_workflow_state
  \/ old \in {"not_started", "needs_revision"} /\ new = "in_progress" /\ u \in start_writing
  \/ old = "in_progress" /\ new = "pending_review" /\ u \in submit_draft
  \/ old = "pending_review" /\ new = "needs_revision" /\ u \in request_revision
  \/ old = "pending_review" /\ new = "completed" /\ u \in submit_draft

MayMovePublisher(u, old, new) ==
  \/ old = new
  \/ u \in override_status \cup repair_workflow_state
  \/ old = "not_started" /\ new = "in_progress" /\ u \in start_publishing
  \/ <<old, new>> \in {<<"in_progress", "pending_review">>,
                       <<"pending_review", "publisher_approved">>} /\ u \in submit_draft
  \/ old = "publisher_approved" /\ new = "completed" /\ u \in complete_publishing

(* A user may take a lane and leave the others to those who assign.        *)
MayName(u, old, new) ==
  new \in {old, u} \/ u \in change_assignment \cup repair_workflow_state

-----------------------------------------------------------------------------
(* The BEFORE UPDATE triggers of blogs, in the order in which they fire.   *)

(* auto_capture_publish_timestamp *)
Stamped(old, new) ==
  [new EXCEPT !.stamped =
     \/ @
     \/ new.publisher_status = "completed" /\ old.publisher_status # "completed"]

Fault_EmptyLanesAreFree(u, old, new) ==
  \/ u \in repair_workflow_state
  \/ /\ new.stamped = old.stamped \/ u \in edit_publish_timestamp
     /\ old.writer = NoUser \/ MayName(u, old.writer, new.writer)
     /\ old.publisher = NoUser \/ MayName(u, old.publisher, new.publisher)
     /\ MayMoveWriter(u, old.writer_status, new.writer_status)
     /\ MayMovePublisher(u, old.publisher_status, new.publisher_status)

(* enforce_blog_update_permissions, for a user's own token *)
UpdatePermitted(u, old, new) ==
  \/ u \in repair_workflow_state
  \/ /\ new.stamped = old.stamped \/ u \in edit_publish_timestamp
     /\ MayName(u, old.writer, new.writer) /\ MayName(u, old.publisher, new.publisher)
     /\ MayMoveWriter(u, old.writer_status, new.writer_status)
     /\ MayMovePublisher(u, old.publisher_status, new.publisher_status)

(* handle_blog_before_write: what it refuses.  It also sets updated_at.    *)
Consistent(new) ==
  /\ new.writer_status \in {"in_progress", "needs_revision", "completed"} => new.writer # NoUser
  /\ new.publisher_status \in {"in_progress", "completed"} => new.publisher # NoUser
  /\ new.publisher_status = "completed" => new.writer_status = "completed"

(* updated_at is the time the writing transaction began; no two share one. *)
FreshTimes == Times \ ({blog.updated_at}
                         \cup {req[s].read.updated_at : s \in {q \in Sessions : req[q] # None}})

-----------------------------------------------------------------------------
(* The AFTER UPDATE trigger assign_approval_tasks_to_admins *)

InPublisherReview(row) == row.publisher_status \in {"pending_review", "publisher_approved"}

Fault_OnlySubmissionsCount(type, old, new) ==
  IF type = "writer_review"
  THEN new.writer_status = "pending_review" /\ old.writer_status # "pending_review"
  ELSE new.publisher_status = "pending_review" /\ ~InPublisherReview(old)

EntersReview(type, old, new) ==
  IF type = "writer_review"
  THEN new.writer_status = "pending_review" /\ old.writer_status # "pending_review"
  ELSE InPublisherReview(new) /\ ~InPublisherReview(old)

(* ON CONFLICT DO NOTHING: an admin who has a row of this type, in any     *)
(* state, gets none.                                                       *)
HandedOut(old, new) ==
  {a \in Admins \X TaskTypes :
     /\ EntersReview(a[2], old, new)
     /\ active[a[1]] /\ task[a] = "none"}

Fault_VersionOfStatus(new, t) ==
  [new EXCEPT !.updated_at =
     IF /\ new.writer_status = blog.writer_status
        /\ new.publisher_status = blog.publisher_status
     THEN blog.updated_at ELSE t]

Touched(new, t) == [new EXCEPT !.updated_at = t]

(* One UPDATE of the row, on behalf of u.                                  *)
Update(u, new) ==
  /\ txn = None
  /\ Consistent(new)
  /\ \E t \in FreshTimes :
       IF \E type \in TaskTypes : EntersReview(type, blog, new)
       THEN /\ txn' = [row |-> Touched(new, t), author |-> u, tasks |-> HandedOut(blog, new)]
            /\ UNCHANGED <<blog, author>>
       ELSE blog' = Touched(new, t) /\ author' = u /\ UNCHANGED txn

CommitUpdate ==
  /\ txn # None
  /\ blog' = txn.row /\ author' = txn.author /\ txn' = None
  /\ task' = [a \in Admins \X TaskTypes |-> IF a \in txn.tasks THEN "pending" ELSE task[a]]
  /\ UNCHANGED <<req, active, steady>>

AbortUpdate ==
  /\ txn # None
  /\ txn' = None
  /\ UNCHANGED <<blog, author, req, active, steady, task>>

-----------------------------------------------------------------------------
(* POST /api/blogs/[id]/transition *)

(* A handoff starts publishing on its own when a publisher is known.       *)
Fault_JogsApprovalsOnly(row, p) ==
  LET next == Patched(row, p)
  IN  /\ p.publisher_status = Keep /\ row.publisher_status = "not_started"
      /\ next.writer_status = "completed" /\ next.publisher # NoUser
      /\ row.writer_status = "pending_review" \/ next.publisher # row.publisher

ShouldAutoJog(row, p) ==
  LET next == Patched(row, p)
  IN  /\ p.publisher_status = Keep /\ row.publisher_status = "not_started"
      /\ next.writer_status = "completed" /\ next.publisher # NoUser
      /\ row.writer_status # "completed" \/ next.publisher # row.publisher

Jogged(row, p) ==
  IF ShouldAutoJog(row, p) THEN [p EXCEPT !.publisher_status = "in_progress"] ELSE p

(* The checks before the write.  The permissions are those of the caller;  *)
(* the row is the one the request has read.                                *)
TransitionAllowed(u, row, p) ==
  LET next == Patched(row, Jogged(row, p))
  IN  /\ next.writer = row.writer \/ u \in change_assignment
      /\ next.publisher = row.publisher \/ u \in change_assignment
      /\ p.writer_status # Keep => MayMoveWriter(u, row.writer_status, p.writer_status)
      /\ p.publisher_status # Keep => MayMovePublisher(u, row.publisher_status, p.publisher_status)
      /\ next.writer_status # "not_started" => next.writer # NoUser
      /\ next.publisher_status # "not_started" => next.publisher # NoUser
      /\ next.publisher_status = "completed" => next.writer_status = "completed"

TransitionRead(s, u, p) ==
  /\ req[s] = None /\ active[u]
  /\ TransitionAllowed(u, blog, p)
  /\ req' = [req EXCEPT ![s] = [actor |-> u, read |-> blog, patch |-> Jogged(blog, p)]]
  /\ UNCHANGED <<blog, author, txn, active, steady, task>>

Fault_WriteRegardless(s) ==
  /\ req[s] # None
  /\ Update(req[s].actor, Stamped(blog, Patched(blog, req[s].patch)))
  /\ req' = [req EXCEPT ![s] = None]
  /\ UNCHANGED <<active, steady, task>>

TransitionWrite(s) ==
  /\ req[s] # None
  /\ blog.updated_at = req[s].read.updated_at
  /\ Update(req[s].actor, Stamped(blog, Patched(blog, req[s].patch)))
  /\ req' = [req EXCEPT ![s] = None]
  /\ UNCHANGED <<active, steady, task>>

(* 409 after another write, an error of the statement, or a lost request.  *)
TransitionFail(s) ==
  /\ req[s] # None
  /\ req' = [req EXCEPT ![s] = None]
  /\ UNCHANGED <<blog, author, txn, active, steady, task>>

-----------------------------------------------------------------------------
(* A browser writes the row with the user's token: dashboard, card board,  *)
(* calendar, and the transfer of a user's assignments.  What the page      *)
(* checked, it checked on the row it showed; only the triggers see this.   *)
ClientWrite(u, p) ==
  LET new == Stamped(blog, Patched(blog, p))
  IN  /\ active[u]
      /\ UpdatePermitted(u, blog, new)
      /\ Update(u, new)
      /\ UNCHANGED <<req, active, steady, task>>

(* The overdue sweep and the import's date call write other columns; the   *)
(* import of a known blog also names its people and its publication time,  *)
(* whatever the row says.                                                  *)
ServiceTouch == Update(NoUser, blog) /\ UNCHANGED <<req, active, steady, task>>

ImportKnown(w, p, st) ==
  /\ Update(NoUser, [blog EXCEPT !.writer = w, !.publisher = p, !.stamped = st])
  /\ UNCHANGED <<req, active, steady, task>>

-----------------------------------------------------------------------------
(* profiles.is_active; reassign_tasks_when_admin_inactive sees the         *)
(* committed tasks only.                                                   *)
Deactivate(u) ==
  /\ active[u]
  /\ active' = [active EXCEPT ![u] = FALSE]
  /\ steady' = steady \ {u}
  /\ task' = [a \in Admins \X TaskTypes |->
                IF a[1] = u /\ task[a] = "pending" THEN "reassigned" ELSE task[a]]
  /\ UNCHANGED <<blog, author, req, txn>>

Reactivate(u) ==
  /\ ~active[u]
  /\ active' = [active EXCEPT ![u] = TRUE]
  /\ UNCHANGED <<blog, author, req, txn, steady, task>>

-----------------------------------------------------------------------------
(* A new blog, or one imported as already published.                       *)
Init ==
  /\ \E w, p \in Assignees \cup {NoUser}, t \in Times, st \in BOOLEAN,
        stage \in {"not_started", "completed"} :
       blog = [writer |-> w, publisher |-> p, writer_status |-> stage,
               publisher_status |-> stage, stamped |-> st, updated_at |-> t]
  /\ Consistent(blog)
  /\ blog.stamped => blog.publisher_status = "completed"
  /\ author = NoUser
  /\ req = [s \in Sessions |-> None]
  /\ txn = None
  /\ active = [u \in Users |-> TRUE]
  /\ steady = Admins
  /\ task = [a \in Admins \X TaskTypes |-> "none"]

Next ==
  \/ \E s \in Sessions, u \in Users, p \in Payloads : TransitionRead(s, u, p)
  \/ \E s \in Sessions : TransitionWrite(s) \/ TransitionFail(s)
  \/ \E u \in Users, p \in Payloads : ClientWrite(u, p)
  \/ ServiceTouch
  \/ \E w, p \in Assignees, st \in BOOLEAN : ImportKnown(w, p, st)
  \/ CommitUpdate \/ AbortUpdate
  \/ \E u \in Churn : Deactivate(u) \/ Reactivate(u)

Spec == Init /\ [][Next]_vars

-----------------------------------------------------------------------------
(* Properties *)

TypeOK ==
  /\ blog \in Row /\ author \in UserOrNull
  /\ req \in [Sessions -> Request \cup {None}]
  /\ txn \in Transaction \cup {None}
  /\ active \in [Users -> BOOLEAN]
  /\ steady \subseteq Admins
  /\ task \in [Admins \X TaskTypes -> TaskStates]

(* Requests that decide on a row they have read and write it later, pages  *)
(* that show an old one, statements that wait to commit and may abort: all *)
(* of it comes to one person after another changing the blog as it is,     *)
(* each only what this person may change (see BlogDesk).                   *)
Desk == INSTANCE BlogDesk WITH
  desk <- [writer |-> blog.writer, publisher |-> blog.publisher,
           writer_status |-> blog.writer_status, publisher_status |-> blog.publisher_status,
           stamped |-> blog.stamped]

ActsAsDesk == Desk!Spec

(* A published blog has been written, and both lanes of it have someone who*)
(* answers for them (handle_blog_before_write, after all the others).      *)
PublishedIsWritten ==
  blog.publisher_status = "completed" =>
    /\ blog.writer_status = "completed"
    /\ blog.writer # NoUser /\ blog.publisher # NoUser

(* updated_at identifies the row: a transition whose version still matches *)
(* was decided on exactly the row it is about to replace.                  *)
VersionNamesRow ==
  \A s \in Sessions :
    req[s] # None /\ req[s].read.updated_at = blog.updated_at => req[s].read = blog

(* The service role skips the permission trigger, yet no stage is ever     *)
(* changed except by a move its author may make from the stage it replaces;*)
(* the one exception is the handoff, which starts publishing.              *)
StagesFollowRules ==
  [][/\ blog'.writer_status # blog.writer_status =>
          MayMoveWriter(author', blog.writer_status, blog'.writer_status)
     /\ blog'.publisher_status # blog.publisher_status =>
          \/ MayMovePublisher(author', blog.publisher_status, blog'.publisher_status)
          \/ /\ blog.publisher_status = "not_started" /\ blog'.publisher_status = "in_progress"
             /\ blog'.writer_status = "completed" /\ blog'.publisher # NoUser]_vars

(* A transition that completes the writing of a blog whose publisher is    *)
(* known leaves it with publishing started, unless it asked otherwise: the *)
(* publisher that counts is the one of the row that is written.            *)
HandoffStartsPublishing ==
  [][\A s \in Sessions :
       /\ TransitionWrite(s) /\ req[s].patch.publisher_status = Keep
       /\ blog.writer_status # "completed" /\ blog'.writer_status = "completed"
       /\ blog'.publisher # NoUser
       => blog'.publisher_status # "not_started"]_vars

UnderReview(type) ==
  IF type = "writer_review" THEN blog.writer_status = "pending_review"
  ELSE InPublisherReview(blog)

(* While a lane waits for review, every admin who was an active admin all  *)
(* along has the task of that lane pending.                                *)
SteadyAdminsAreAsked ==
  \A a \in steady, type \in TaskTypes :
    UnderReview(type) => task[<<a, type>>] = "pending"

(* What the comment on task_assignments says: the statement that submits a *)
(* lane hands its review to all the admins who are active.                 *)
EveryActiveAdminIsAsked ==
  [][\A a \in Admins, type \in TaskTypes :
       /\ txn = None /\ txn' # None /\ EntersReview(type, blog, txn'.row) /\ active[a]
       => task[<<a, type>>] = "pending" \/ <<a, type>> \in txn'.tasks]_vars

(* What the comment in reassign_tasks_when_admin_inactive says: becoming   *)
(* inactive takes the pending reviews from an admin, also those that a     *)
(* submission was about to hand out.                                       *)
InactiveAdminsHaveNoTask ==
  \A a \in Admins, type \in TaskTypes : ~active[a] => task[<<a, type>>] # "pending"

(* What the transition audit says of both layers: an approved blog may be  *)
(* published by the holders of complete_publishing, with their own token.  *)
ApprovedCanBePublished ==
  \A u \in complete_publishing :
    LET new == Patched(blog, [Untouched EXCEPT !.publisher_status = "completed"])
    IN  /\ blog.publisher_status = "publisher_approved" /\ Consistent(new)
        => UpdatePermitted(u, blog, Stamped(blog, new))
=============================================================================
