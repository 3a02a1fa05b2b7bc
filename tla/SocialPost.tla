----------------------------- MODULE SocialPost -----------------------------
(***************************************************************************)
(* One row of social_posts, its rows of social_post_links and the requests *)
(* that act on them.                                                       *)
(*                                                                         *)
(* The row is guarded by triggers and by a row lock; a request of the HTTP *)
(* API reads it, decides, and writes later, so other writers get in        *)
(* between.  A transaction that reads more than the row it has locked      *)
(* (publication reads the links; a link write reads the post) is split at  *)
(* that point: it takes the lock and makes its checks in one step and      *)
(* commits in a later one.  A statement that only reads and writes the     *)
(* locked row is one step, taken when nobody holds the lock.               *)
(***************************************************************************)
EXTENDS SocialStages, Naturals, FiniteSets

CONSTANTS
  Users,        \* the profiles the run is about
  Admins,       \* those with the admin role
  Creator,      \* created_by of the post
  Workers,      \* BOUND: users that may be made worker
  Reviewers,    \* BOUND: users that may be made reviewer
  Churn,        \* BOUND: users that may be deactivated or removed meanwhile
  Payloads,     \* BOUND: brief payloads of transition requests
  Platforms,    \* linkedin, facebook, instagram
  Sessions,     \* requests that can be in flight at the same time
  Times,        \* values of updated_at, one for each transaction in sight
  NoTime,
  NoBrief,      \* a transition payload without brief fields
  NoLink,       \* there is no live link on a platform
  NoPost        \* the table holds no such row

ASSUME UserAssumption ==
  /\ NoUser \notin Users
  /\ Admins \subseteq Users
  /\ Creator \in Users
  /\ Workers \subseteq Users /\ Reviewers \subseteq Users
  /\ Churn \subseteq Users

ASSUME ValueAssumption ==
  /\ NoBrief \notin Briefs /\ NoLink \notin Urls
  /\ Payloads \subseteq Briefs \cup {NoBrief}
  /\ Platforms # {}
  /\ NoTime \notin Times

ASSUME TimeAssumption ==
  /\ IsFiniteSet(Sessions) /\ IsFiniteSet(Times)
  /\ Cardinality(Times) > Cardinality(Sessions) + 1

VARIABLES
  post,       \* the committed row, or NoPost
  links,      \* the committed live links, one per platform
  account,    \* each profile: active, deactivated, or deleted for good
  audit,      \* the latest status change in the activity history
  handedOff,  \* history variable: the brief that entered execution
  sess        \* the requests in flight

vars == <<post, links, account, audit, handedOff, sess>>

-----------------------------------------------------------------------------
(* Types *)

UserOrNull == Users \cup {NoUser}

Row == [status: Statuses, worker: UserOrNull, reviewer: UserOrNull,
        assigned: UserOrNull, brief: Storable, updated_at: Times]

ASSUME NoPostAssumption == NoPost \notin Row

LinkStates == Urls \cup {NoLink}

AccountStates == {"active", "inactive", "gone"}

AuditRow == [from: Statuses \cup {"none"}, to: Statuses, actor: UserOrNull,
             reason: BOOLEAN]

Phases == {"idle",
           "fetched",    \* transition: the post is read and validated
           "preflight",  \* transition: ready to call the RPC
           "applying",   \* transition: in the RPC, holding the row lock
           "reopening",  \* reopen-brief: the caller is known to be an admin
           "deleting",   \* DELETE: the post was seen unpublished
           "linking"}    \* link write: in its transaction, holding the lock

Request == [pc: Phases, actor: UserOrNull, from: Statuses, to: Statuses,
            seen: Times \cup {NoTime}, brief: Briefs \cup {NoBrief},
            reason: BOOLEAN, platform: Platforms, link: LinkStates]

Idle == [pc |-> "idle", actor |-> NoUser, from |-> "draft", to |-> "draft",
         seen |-> NoTime, brief |-> NoBrief, reason |-> FALSE,
         platform |-> CHOOSE p \in Platforms : TRUE, link |-> NoLink]

-----------------------------------------------------------------------------
(* Who may do what *)

(* is_admin(): an active profile with the admin role.                      *)
IsAdmin(u) == u \in Admins /\ account[u] = "active"

OwnerOf(row) == StageOwner(row.status, row.worker, row.reviewer)

(* The row-level security policy for updates of posts.                     *)
MayWrite(u, row) == u \in {Creator, row.worker, row.reviewer} \/ IsAdmin(u)

(* The row lock every writer of the post and of its links takes.           *)
Locked == \E s \in Sessions : sess[s].pc \in {"applying", "linking"}

(* updated_at is the time the writing transaction began, by touch_         *)
(* updated_at: not ordered, but no two transactions share one.             *)
FreshTimes == Times \ ({post.updated_at} \cup {sess[s].seen : s \in Sessions})

(* is_valid_social_live_link, in SQL, and isValidSocialLiveLink of the     *)
(* route.                                                                  *)
HasValidLink(ls) == \E p \in Platforms : ls[p] \in ValidUrls

RouteSeesLink(ls) == \E p \in Platforms : ls[p] \in RouteUrls

-----------------------------------------------------------------------------
(* The BEFORE UPDATE triggers of social_posts.  by says who writes: the    *)
(* service role (the API and its RPCs) or a user's own token, with the     *)
(* transaction-local settings app.social_transition_reason and             *)
(* app.social_brief_reopen.                                                *)

AsService(u, reason, reopen) ==
  [service |-> TRUE, uid |-> u, reason |-> reason, reopen |-> reopen]

AsUser(u) == [service |-> FALSE, uid |-> u, reason |-> FALSE, reopen |-> FALSE]

(* The definitions named Fault_ are seeded faults: each is a slip that the  *)
(* definition after it avoids, kept to show that the properties notice it.  *)

ForwardMoves ==
  { <<"draft", "in_review">>, <<"in_review", "changes_requested">>,
    <<"in_review", "creative_approved">>, <<"changes_requested", "in_review">>,
    <<"creative_approved", "ready_to_publish">>,
    <<"ready_to_publish", "awaiting_live_link">> }

Fault_RollbackUnexplained(old, new, by) ==
  old.status \in ExecutionStages /\ new.status = "changes_requested"

RollbackAllowed(old, new, by) ==
  old.status \in ExecutionStages /\ new.status = "changes_requested" /\ by.reason

(* enforce_social_post_workflow_transition *)
WorkflowAllows(old, new, by) ==
  \/ /\ new.status = old.status
     /\ old.status \in ExecutionStages => new.brief = old.brief
  \/ <<old.status, new.status>> \in ForwardMoves
  \/ /\ old.status = "awaiting_live_link" /\ new.status = "published"
     /\ \E p \in Platforms : links[p] # NoLink
  \/ RollbackAllowed(old, new, by)
  \/ old.status \in ExecutionStages /\ new.status = "creative_approved" /\ by.reopen

Fault_LockedWithinAStatus(old, new) ==
  old.status \in ExecutionStages /\ new.status = old.status => new.brief = old.brief

(* guard_social_execution_integrity, for the brief and for publication     *)
BriefLocked(old, new) ==
  old.status \in ExecutionStages => new.brief = old.brief

PublicationProven(new) == new.status = "published" => HasValidLink(links)

(* enforce_social_handoff_authority: who may change the roles, ...         *)
RolesByAdmin(old, new, by) ==
  ~by.service /\ (new.worker # old.worker \/ new.reviewer # old.reviewer)
    => IsAdmin(by.uid)

Fault_StatusByAnyWriter(old, new, by) == TRUE

(* ... who may change the status, ...                                      *)
StatusByOwner(old, new, by) ==
  ~by.service /\ new.status # old.status
    => IsAdmin(by.uid) \/ OwnerOf(old) = by.uid

Fault_OwnerOnlyOnTransition(old, new) ==
  new.status # old.status /\ new.status # "published" => OwnerOf(new) # NoUser

(* ... that somebody owns the next stage, ...                              *)
NextStageOwned(old, new) == new.status # "published" => OwnerOf(new) # NoUser

Fault_StricterThanRoute(old, new) ==
  new.status # old.status /\ new.status \notin {"draft", "changes_requested"}
    => new.brief \in Complete

(* ... and that the brief is good enough for it.                           *)
BriefSufficient(old, new) ==
  new.status # old.status /\ new.status \notin {"draft", "changes_requested"}
    => /\ new.brief \in ReviewReady
       /\ new.status # "in_review" => new.brief \in Complete

Fault_TableUnchecked(old, new, by) ==
  /\ WorkflowAllows(old, new, by)
  /\ BriefLocked(old, new) /\ PublicationProven(new)
  /\ RolesByAdmin(old, new, by) /\ StatusByOwner(old, new, by)
  /\ NextStageOwned(old, new) /\ BriefSufficient(old, new)

(* Besides the triggers, the table checks the brief itself.                *)
TriggersAccept(old, new, by) ==
  /\ new.brief \in Storable
  /\ WorkflowAllows(old, new, by)
  /\ BriefLocked(old, new) /\ PublicationProven(new)
  /\ RolesByAdmin(old, new, by) /\ StatusByOwner(old, new, by)
  /\ NextStageOwned(old, new) /\ BriefSufficient(old, new)

(* What an accepted UPDATE leaves: the derived owner, a new updated_at, and*)
(* the history entry that audit_social_post_changes writes in the same     *)
(* transaction.                                                            *)
Store(new, by) ==
  /\ \E t \in FreshTimes :
       post' = [new EXCEPT !.assigned = OwnerOf(new), !.updated_at = t]
  /\ audit' = IF new.status = post.status THEN audit
              ELSE [from |-> post.status, to |-> new.status,
                    actor |-> by.uid, reason |-> by.reason]
  /\ handedOff' = IF new.status = "ready_to_publish" /\ post.status = "creative_approved"
                  THEN new.brief
                  ELSE IF new.status \in ExecutionStages \cup {"published"}
                       THEN handedOff ELSE NoBrief

Fault_UnlockedUpdate(new, by) == TriggersAccept(post, new, by) /\ Store(new, by)

(* One UPDATE statement, committed at once: it waits for the row lock, and *)
(* the triggers judge the row as it stands then.                           *)
UpdateRow(new, by) ==
  /\ ~Locked
  /\ TriggersAccept(post, new, by)
  /\ Store(new, by)

-----------------------------------------------------------------------------
(* Creating a post *)

(* POST /api/social-posts: in draft, worked by the caller unless an admin  *)
(* names somebody else.  The model has room for one row, so a new post     *)
(* starts only when no request still refers to the previous one.           *)
Create(worker, reviewer, brief) ==
  /\ post = NoPost /\ brief \in Storable
  /\ \A s \in Sessions : sess[s].pc = "idle"
  /\ account[Creator] = "active" /\ account[reviewer] # "gone"
  /\ worker # Creator => Creator \in Admins /\ account[worker] # "gone"
  /\ \E t \in Times :
       post' = [status |-> "draft", worker |-> worker, reviewer |-> reviewer,
                assigned |-> worker, brief |-> brief, updated_at |-> t]
  /\ links' = [p \in Platforms |-> NoLink]
  /\ audit' = [from |-> "none", to |-> "draft", actor |-> Creator, reason |-> FALSE]
  /\ handedOff' = NoBrief
  /\ UNCHANGED <<account, sess>>
-----------------------------------------------------------------------------
(* POST /api/social-posts/[id]/transition *)

MergedBrief(payload) == IF payload = NoBrief THEN post.brief ELSE payload

(* Everything the route checks on the row it has just read.                *)
RouteValidates(u, to, payload, reason) ==
  /\ u \in Admins \/ OwnerOf(post) = u
  /\ <<post.status, to>> \in TransitionGraph
  /\ to # "published" => StageOwner(to, post.worker, post.reviewer) # NoUser
  /\ IsBackward(post.status, to) => reason
  /\ post.status \in ExecutionStages => payload = NoBrief
  /\ MergedBrief(payload) \in RequiredBrief(to)

(* The route authenticates the caller, reads the post and validates the    *)
(* move; a refused request changes nothing and is not modelled.  Only a    *)
(* publication still has the links to read.  A reason is recorded only     *)
(* where one is asked for.                                                 *)
TransitionFetch(s, u, to, payload, reason) ==
  /\ sess[s].pc = "idle"
  /\ account[u] = "active"
  /\ post # NoPost
  /\ RouteValidates(u, to, payload, reason)
  /\ reason => IsBackward(post.status, to)
  /\ sess' = [sess EXCEPT ![s] =
                [Idle EXCEPT !.pc = IF to = "published" THEN "fetched" ELSE "preflight",
                             !.actor = u, !.from = post.status, !.to = to,
                             !.seen = post.updated_at, !.brief = payload,
                             !.reason = reason]]
  /\ UNCHANGED <<post, links, account, audit, handedOff>>

(* The links are read in a second statement, without the row lock.         *)
TransitionReadLinks(s) ==
  /\ sess[s].pc = "fetched"
  /\ sess' = [sess EXCEPT ![s] =
                IF post # NoPost /\ RouteSeesLink(links)
                THEN [@ EXCEPT !.pc = "preflight"] ELSE Idle]
  /\ UNCHANGED <<post, links, account, audit, handedOff>>

(* The row apply_social_post_transition would write.                       *)
Transitioned(r) ==
  [post EXCEPT !.status = r.to, !.brief = MergedBrief(r.brief)]

TransitionContext(r) == AsService(r.actor, r.reason, FALSE)

Fault_VersionUnchecked(r) ==
  /\ post # NoPost
  /\ account[r.actor] = "active"
  /\ r.actor \in Admins \/ OwnerOf(post) = r.actor
  /\ post.status \in ExecutionStages => r.brief = NoBrief
  /\ TriggersAccept(post, Transitioned(r), TransitionContext(r))

(* What the RPC checks again once it holds the row lock: 404, 409, 403,    *)
(* 400, and then the triggers.                                             *)
RpcAccepts(r) ==
  /\ post # NoPost
  /\ post.updated_at = r.seen /\ post.status = r.from
  /\ account[r.actor] = "active"
  /\ r.actor \in Admins \/ OwnerOf(post) = r.actor
  /\ r.to # post.status
  /\ post.status \in ExecutionStages => r.brief = NoBrief
  /\ TriggersAccept(post, Transitioned(r), TransitionContext(r))

ApplyBegin(s) ==
  /\ sess[s].pc = "preflight" /\ ~Locked
  /\ RpcAccepts(sess[s])
  /\ sess' = [sess EXCEPT ![s].pc = "applying"]
  /\ UNCHANGED <<post, links, account, audit, handedOff>>

Fault_OnlyConflictAnswered(s) ==
  /\ sess[s].pc = "preflight" /\ ~Locked
  /\ post # NoPost /\ post.updated_at # sess[s].seen
  /\ sess' = [sess EXCEPT ![s] = Idle]
  /\ UNCHANGED <<post, links, account, audit, handedOff>>

ApplyRefused(s) ==
  /\ sess[s].pc = "preflight" /\ ~Locked
  /\ ~RpcAccepts(sess[s])
  /\ sess' = [sess EXCEPT ![s] = Idle]
  /\ UNCHANGED <<post, links, account, audit, handedOff>>

ApplyCommit(s) ==
  /\ sess[s].pc = "applying"
  /\ Store(Transitioned(sess[s]), TransitionContext(sess[s]))
  /\ sess' = [sess EXCEPT ![s] = Idle]
  /\ UNCHANGED <<links, account>>

-----------------------------------------------------------------------------
(* POST /api/social-posts/[id]/reopen-brief *)

ReopenRequest(s, u) ==
  /\ sess[s].pc = "idle" /\ post # NoPost
  /\ IsAdmin(u)
  /\ sess' = [sess EXCEPT ![s] = [Idle EXCEPT !.pc = "reopening", !.actor = u]]
  /\ UNCHANGED <<post, links, account, audit, handedOff>>

(* reopen_social_post_for_brief_edit looks at the status alone: neither    *)
(* the caller's role nor a version is checked again.                       *)
ReopenApply(s) ==
  /\ sess[s].pc = "reopening" /\ ~Locked
  /\ post # NoPost /\ post.status \in ExecutionStages
  /\ UpdateRow([post EXCEPT !.status = "creative_approved"],
               AsService(sess[s].actor, FALSE, TRUE))
  /\ sess' = [sess EXCEPT ![s] = Idle]
  /\ UNCHANGED <<links, account>>

ReopenRefused(s) ==
  /\ sess[s].pc = "reopening" /\ ~Locked
  /\ post # NoPost =>
       \/ post.status \notin ExecutionStages
       \/ ~TriggersAccept(post, [post EXCEPT !.status = "creative_approved"],
                          AsService(sess[s].actor, FALSE, TRUE))
  /\ sess' = [sess EXCEPT ![s] = Idle]
  /\ UNCHANGED <<post, links, account, audit, handedOff>>

-----------------------------------------------------------------------------
(* DELETE /api/social-posts/[id]: the status is checked on a read, the row *)
(* is deleted by a later statement that names only its id.                 *)

DeleteRequest(s, u) ==
  /\ sess[s].pc = "idle" /\ post # NoPost
  /\ account[u] = "active"
  /\ u = Creator \/ u \in Admins
  /\ post.status # "published"
  /\ sess' = [sess EXCEPT ![s] = [Idle EXCEPT !.pc = "deleting", !.actor = u]]
  /\ UNCHANGED <<post, links, account, audit, handedOff>>

DeleteApply(s) ==
  /\ sess[s].pc = "deleting" /\ ~Locked
  /\ post' = NoPost
  /\ links' = [p \in Platforms |-> NoLink]
  /\ handedOff' = NoBrief
  /\ sess' = [sess EXCEPT ![s] = Idle]
  /\ UNCHANGED <<account, audit>>

-----------------------------------------------------------------------------
(* A browser writes one live link with the user's token, which the policies*)
(* allow to any user: an upsert, or a removal (NoLink).  The BEFORE trigger*)
(* locks the parent post, the AFTER trigger wants a published post to keep *)
(* a valid link.                                                           *)

Fault_LinkUnlocked(s, u, p, v) ==
  /\ sess[s].pc = "idle" /\ post # NoPost
  /\ post.status = "published" => HasValidLink([links EXCEPT ![p] = v])
  /\ sess' = [sess EXCEPT ![s] = [Idle EXCEPT !.pc = "linking", !.actor = u,
                                              !.platform = p, !.link = v]]
  /\ UNCHANGED <<post, links, account, audit, handedOff>>

Fault_LinkUnguarded(s, u, p, v) ==
  /\ sess[s].pc = "idle" /\ post # NoPost /\ ~Locked
  /\ sess' = [sess EXCEPT ![s] = [Idle EXCEPT !.pc = "linking", !.actor = u,
                                              !.platform = p, !.link = v]]
  /\ UNCHANGED <<post, links, account, audit, handedOff>>

LinkBegin(s, u, p, v) ==
  /\ sess[s].pc = "idle" /\ post # NoPost /\ ~Locked
  /\ account[u] # "gone"
  /\ links[p] # v
  /\ post.status = "published" => HasValidLink([links EXCEPT ![p] = v])
  /\ sess' = [sess EXCEPT ![s] = [Idle EXCEPT !.pc = "linking", !.actor = u,
                                              !.platform = p, !.link = v]]
  /\ UNCHANGED <<post, links, account, audit, handedOff>>

LinkCommit(s) ==
  /\ sess[s].pc = "linking"
  /\ links' = [links EXCEPT ![sess[s].platform] = sess[s].link]
  /\ sess' = [sess EXCEPT ![s] = Idle]
  /\ UNCHANGED <<post, account, audit, handedOff>>

-----------------------------------------------------------------------------
(* Single UPDATE statements *)

(* The brief editor and its autosave write the nine fields with the user's *)
(* token and no version.                                                   *)
SaveBrief(u, brief) ==
  /\ post # NoPost /\ account[u] # "gone"
  /\ MayWrite(u, post)
  /\ UpdateRow([post EXCEPT !.brief = brief], AsUser(u))
  /\ UNCHANGED <<links, account, sess>>

(* A status, and a brief with it, written past the API with a user's token:*)
(* row-level security lets that through to the triggers.                   *)
DirectTransition(u, to, brief) ==
  /\ post # NoPost /\ account[u] # "gone"
  /\ MayWrite(u, post) /\ to # post.status
  /\ UpdateRow([post EXCEPT !.status = to, !.brief = brief], AsUser(u))
  /\ UNCHANGED <<links, account, sess>>

(* saveAssignments: both roles are filled in, the triggers want an admin.  *)
Reassign(u, worker, reviewer) ==
  /\ post # NoPost /\ account[u] # "gone"
  /\ account[worker] # "gone" /\ account[reviewer] # "gone"
  /\ MayWrite(u, post) /\ <<worker, reviewer>> # <<post.worker, post.reviewer>>
  /\ UpdateRow([post EXCEPT !.worker = worker, !.reviewer = reviewer], AsUser(u))
  /\ UNCHANGED <<links, account, sess>>

(* The reminder and overdue jobs claim their slot on the row: all the      *)
(* workflow sees of it is a new updated_at.                                *)
ClaimNotification(u) ==
  /\ IsAdmin(u)
  /\ post # NoPost
  /\ post.status \in {"in_review", "ready_to_publish", "awaiting_live_link"}
  /\ UpdateRow(post, AsService(u, FALSE, FALSE))
  /\ UNCHANGED <<links, account, sess>>

-----------------------------------------------------------------------------
(* Accounts *)

SetActive(u) ==
  /\ u \in Churn /\ account[u] # "gone"
  /\ account' = [account EXCEPT ![u] = IF @ = "active" THEN "inactive" ELSE "active"]
  /\ UNCHANGED <<post, links, audit, handedOff, sess>>

Unassigned(u) ==
  [post EXCEPT !.worker = IF @ = u THEN NoUser ELSE @,
               !.reviewer = IF @ = u THEN NoUser ELSE @]

(* The purge deletes the profile of an inactive user.  Foreign keys clear  *)
(* the roles the user had, drop the links the user added (the model forgets*)
(* who added which) and forbid it for the author of a post; the triggers   *)
(* judge all of that, and one objection undoes the deletion.               *)
(* BOUND: the author stays even when the post is gone.                     *)
PurgeProfile(u, by) ==
  /\ u \in Churn \ {Creator} /\ account[u] = "inactive" /\ IsAdmin(by)
  /\ ~Locked
  /\ account' = [account EXCEPT ![u] = "gone"]
  /\ \E mine \in SUBSET Platforms :
       links' = [p \in Platforms |-> IF p \in mine THEN NoLink ELSE links[p]]
  /\ audit' = [audit EXCEPT !.actor = IF @ = u THEN NoUser ELSE @]
  /\ \/ post = NoPost /\ post' = NoPost
     \/ /\ post # NoPost /\ u \notin {post.worker, post.reviewer}
        /\ post.status = "published" => HasValidLink(links')
        /\ post' = post
     \/ /\ post # NoPost /\ u \in {post.worker, post.reviewer}
        /\ post.status = "published" => HasValidLink(links')
        /\ TriggersAccept(post, Unassigned(u), AsService(by, FALSE, FALSE))
        /\ \E t \in FreshTimes :
             post' = [Unassigned(u) EXCEPT !.assigned = OwnerOf(Unassigned(u)),
                                           !.updated_at = t]
  /\ UNCHANGED <<handedOff, sess>>

-----------------------------------------------------------------------------
(* The serverless function dies or its connection drops: what it had not   *)
(* committed is rolled back.                                               *)
RequestLost(s) ==
  /\ sess[s].pc # "idle"
  /\ sess' = [sess EXCEPT ![s] = Idle]
  /\ UNCHANGED <<post, links, account, audit, handedOff>>

-----------------------------------------------------------------------------
Init ==
  /\ post = NoPost
  /\ links = [p \in Platforms |-> NoLink]
  /\ account = [u \in Users |-> "active"]
  /\ audit = [from |-> "none", to |-> "draft", actor |-> NoUser, reason |-> FALSE]
  /\ handedOff = NoBrief
  /\ sess = [s \in Sessions |-> Idle]

Transition(s) ==
  \/ \E u \in Users, to \in Statuses, b \in Payloads, r \in BOOLEAN :
       TransitionFetch(s, u, to, b, r)
  \/ TransitionReadLinks(s)
  \/ ApplyBegin(s) \/ ApplyRefused(s) \/ ApplyCommit(s)

Reopen(s) == (\E u \in Users : ReopenRequest(s, u)) \/ ReopenApply(s) \/ ReopenRefused(s)

Delete(s) == (\E u \in Users : DeleteRequest(s, u)) \/ DeleteApply(s)

WriteLink(s) ==
  \/ \E u \in Users, p \in Platforms, v \in LinkStates : LinkBegin(s, u, p, v)
  \/ LinkCommit(s)

Statement ==
  \/ \E w \in Workers, r \in Reviewers, b \in Briefs : Create(w, r, b)
  \/ \E u \in Users, b \in Briefs : SaveBrief(u, b)
  \/ \E u \in Users, to \in Statuses, b \in Briefs : DirectTransition(u, to, b)
  \/ \E u \in Users, w \in Workers, r \in Reviewers : Reassign(u, w, r)
  \/ \E u \in Users : ClaimNotification(u)

Accounts == \E u \in Users : SetActive(u) \/ \E by \in Users : PurgeProfile(u, by)

Next ==
  \/ \E s \in Sessions : Transition(s) \/ Reopen(s) \/ Delete(s) \/ WriteLink(s)
                         \/ RequestLost(s)
  \/ Statement
  \/ Accounts

Spec == Init /\ [][Next]_vars

(* A request that has begun goes on by itself.  Where it waits for the row *)
(* lock it may be overtaken but, the database queueing lock waiters, not   *)
(* for ever: strong fairness there, weak fairness elsewhere.               *)
Fairness ==
  \A s \in Sessions :
    /\ WF_vars(TransitionReadLinks(s)) /\ WF_vars(ApplyCommit(s))
    /\ WF_vars(LinkCommit(s))
    /\ SF_vars(ApplyBegin(s) \/ ApplyRefused(s))
    /\ SF_vars(ReopenApply(s) \/ ReopenRefused(s))
    /\ SF_vars(DeleteApply(s))

FairSpec == Spec /\ Fairness

-----------------------------------------------------------------------------
(* Properties *)

(* Every variable has its type.                                            *)
TypeOK ==
  /\ post \in Row \cup {NoPost}
  /\ links \in [Platforms -> LinkStates]
  /\ account \in [Users -> AccountStates]
  /\ audit \in AuditRow
  /\ handedOff \in Briefs \cup {NoBrief}
  /\ sess \in [Sessions -> Request]

(* A published post always has a valid live link, however link removals,   *)
(* account purges and publications interleave: the transition locks the    *)
(* row before it reads the links, and so does every link write.            *)
PublishedHasValidLink ==
  post # NoPost /\ post.status = "published" => HasValidLink(links)

(* In the execution stages the brief is complete and is the very brief that*)
(* was handed off, whichever requests, editors and autosaves are under way.*)
ExecutionBriefFrozen ==
  post # NoPost /\ post.status \in ExecutionStages
    => post.brief = handedOff /\ handedOff \in Complete

(* The stored owner is the one the status and the roles imply, and work    *)
(* that is not finished always has one: no reassignment, purge or rollback *)
(* strands a post.                                                         *)
AlwaysOwned ==
  post # NoPost =>
    /\ post.assigned = OwnerOf(post)
    /\ post.status # "published" => post.assigned # NoUser

(* The history explains the status: its latest entry ends in it, starts    *)
(* where the workflow (or an admin's reopening) allows, and gives a reason *)
(* when work was sent back from execution.                                 *)
HistoryExplainsStatus ==
  post # NoPost =>
    /\ audit.to = post.status
    /\ \/ <<audit.from, audit.to>> \in TransitionGraph
       \/ audit.from = "none" /\ audit.to = "draft"
       \/ audit.from \in ExecutionStages /\ audit.to = "creative_approved"
    /\ IsBackward(audit.from, audit.to) => audit.reason

(* Of the requests and link writes in flight at most one is past the row   *)
(* lock.                                                                   *)
OneLockHolder ==
  \A s, t \in Sessions :
    sess[s].pc \in {"applying", "linking"} /\ sess[t].pc \in {"applying", "linking"}
      => s = t

(* While a request holds the row in the RPC, everything it was let in for  *)
(* still holds: owner, target, brief lock and every trigger, links included*)
StillAccepted(r) ==
  /\ post # NoPost
  /\ r.to # post.status
  /\ post.status \in ExecutionStages => r.brief = NoBrief
  /\ r.actor \in Admins \/ OwnerOf(post) = r.actor
  /\ TriggersAccept(post, Transitioned(r), TransitionContext(r))

LockProtectsDecision ==
  \A s \in Sessions : sess[s].pc = "applying" => StillAccepted(sess[s])

(* A version identifies a row: a request that still carries the current    *)
(* updated_at has validated the current status.                            *)
VersionIdentifiesStatus ==
  \A s \in Sessions :
    post # NoPost /\ sess[s].seen = post.updated_at => sess[s].from = post.status

(* The brief is one of those on which the database is no stricter than the *)
(* route: not, say, one whose Canva URL is https:///d or mailto:d.         *)
JudgedAlike(brief) ==
  /\ brief \in Storable
  /\ brief \in RouteReady => brief \in ReviewReady
  /\ brief \in RouteComplete => brief \in Complete

(* The checks the route makes in TypeScript suffice for those the database *)
(* makes again in SQL: a request that passed them is refused only because  *)
(* something has changed since (the row, the links, the caller's account), *)
(* or because the brief, or what the route took for a live link, has a     *)
(* field on whose form the two disagree.                                   *)
PreflightSuffices ==
  \A s \in Sessions :
    /\ sess[s].pc = "preflight" /\ post # NoPost
    /\ sess[s].seen = post.updated_at
    /\ JudgedAlike(MergedBrief(sess[s].brief))
    /\ account[sess[s].actor] = "active"
    /\ sess[s].to = "published" => HasValidLink(links)
    => RpcAccepts(sess[s])

(* Only an admin or the owner of the stage the post was in changes its     *)
(* status, and only an admin reopens a brief, even when the caller's role  *)
(* in the post changed after the request was checked.                      *)
OwnerActs ==
  [][ post # NoPost /\ post' # NoPost /\ post'.status # post.status =>
        \/ audit'.actor \in Admins
        \/ /\ audit'.actor = OwnerOf(post)
           /\ <<post.status, post'.status>> \in TransitionGraph ]_vars

(* What is published is what was approved and handed off.                  *)
PublishesWhatWasHandedOff ==
  [][ post # NoPost /\ post' # NoPost
      /\ post.status # "published" /\ post'.status = "published" =>
        post.status = "awaiting_live_link" /\ post'.brief = handedOff ]_vars

(* A transition commits on the version it validated and leaves one that no *)
(* other request has seen: of two requests that read the same row one gets *)
(* 409, however the other writers interleave.                              *)
NoStaleCommit ==
  [][ \A s \in Sessions :
        sess[s].pc = "applying" /\ post' # post =>
          /\ post.updated_at = sess[s].seen /\ post.status = sess[s].from
          /\ \A t \in Sessions : sess'[t].seen # post'.updated_at ]_vars

(* Every request is answered: none waits for ever for the row lock.        *)
EveryRequestAnswered ==
  \A s \in Sessions : sess[s].pc # "idle" ~> sess[s].pc = "idle"

(* "Published posts (status = "published") cannot be deleted."             *)
PublishedNeverDeleted ==
  [][ post # NoPost /\ post.status = "published" => post' # NoPost ]_vars

-----------------------------------------------------------------------------
(* The workflow keeps the editorial contract, whatever the interleaving.   *)

Contract == INSTANCE EditorialContract WITH
  stage <- IF post = NoPost THEN "none"
           ELSE IF post.status \in ExecutionStages THEN "executing"
           ELSE IF post.status = "published" THEN "published" ELSE "editing",
  brief <- IF post = NoPost THEN NoBrief ELSE post.brief,
  evidence <- HasValidLink(links)

KeepsContract == Contract!Spec
=============================================================================
