-------------------------- MODULE SocialPostProofs --------------------------
(***************************************************************************)
(* What SocialPost promises, for every set of users, sessions, platforms   *)
(* and briefs.                                                             *)
(*                                                                         *)
(* The inductive invariant has two halves.  RowInv speaks of the committed *)
(* row, its links and its history; it is kept by whatever the triggers     *)
(* accept (StorePreservesRow).  SessionInv speaks of the requests in       *)
(* flight: what the holder of the row lock may rely on, and what a request *)
(* knows as long as its version is still the current one.  A write of the  *)
(* row keeps it because nobody else is past the lock and because the new   *)
(* version is not the one any request has seen (UnlockedWrite).            *)
(***************************************************************************)
EXTENDS SocialPost, TLAPS

RowType ==
  /\ post \in Row \cup {NoPost}
  /\ links \in [Platforms -> LinkStates]
  /\ audit \in AuditRow
  /\ handedOff \in Briefs \cup {NoBrief}

SessionType ==
  /\ account \in [Users -> AccountStates]
  /\ sess \in [Sessions -> Request]

(* Links belong to a post and go with it.                                  *)
NoOrphanLinks == post = NoPost => ~HasValidLink(links)

RowInv ==
  /\ NoOrphanLinks
  /\ PublishedHasValidLink
  /\ ExecutionBriefFrozen
  /\ AlwaysOwned
  /\ HistoryExplainsStatus

(* What a transition request has validated, while its version is current.  *)
Validated(r) ==
  /\ r.from = post.status
  /\ RouteValidates(r.actor, r.to, r.brief, r.reason)

VersionKnown ==
  \A s \in Sessions :
    IF sess[s].pc \in {"fetched", "preflight", "applying"}
    THEN /\ sess[s].seen \in Times
         /\ post # NoPost /\ sess[s].seen = post.updated_at => Validated(sess[s])
    ELSE sess[s].seen = NoTime

(* The version does not move under the holder of the row lock.             *)
LockedVersion ==
  \A s \in Sessions : sess[s].pc = "applying" =>
    post.updated_at = sess[s].seen /\ post.status = sess[s].from

ReopenedByAdmins ==
  \A s \in Sessions : sess[s].pc = "reopening" => sess[s].actor \in Admins

(* A link write that holds the row lock will leave a published post a link.*)
LinkPending ==
  \A s \in Sessions : sess[s].pc = "linking" =>
    /\ post # NoPost
    /\ post.status = "published" =>
         HasValidLink([links EXCEPT ![sess[s].platform] = sess[s].link])

SessionInv ==
  /\ OneLockHolder
  /\ LockProtectsDecision
  /\ LockedVersion
  /\ LinkPending
  /\ VersionKnown
  /\ ReopenedByAdmins

IInv == RowType /\ SessionType /\ RowInv /\ SessionInv

-----------------------------------------------------------------------------
(* The operators the model is built from *)

LEMMA StageOwnerType ==
  ASSUME NEW w \in UserOrNull, NEW r \in UserOrNull, NEW st \in Statuses
  PROVE  StageOwner(st, w, r) \in UserOrNull
BY DEF StageOwner, UserOrNull, Statuses, WorkerStages, ReviewerStages

LEMMA IdleType == Idle \in Request /\ Idle.pc = "idle" /\ Idle.seen = NoTime
BY ValueAssumption DEF Idle, Request, Phases, UserOrNull, Statuses, LinkStates

LEMMA NoLinkIsNotValid == NoLink \notin ValidUrls
BY ValueAssumption, UrlAssumption

(* Every move the triggers accept is a move the history may show.          *)
LEMMA AcceptedMoves ==
  ASSUME NEW old, NEW new, NEW by, WorkflowAllows(old, new, by),
         new.status # old.status
  PROVE  /\ \/ <<old.status, new.status>> \in TransitionGraph
            \/ old.status \in ExecutionStages /\ new.status = "creative_approved" /\ by.reopen
         /\ IsBackward(old.status, new.status) => by.reason
         /\ new.status = "published" => old.status = "awaiting_live_link"
         /\ new.status = "ready_to_publish" => old.status = "creative_approved"
         /\ new.status = "awaiting_live_link" => old.status = "ready_to_publish"
BY DEF WorkflowAllows, RollbackAllowed, ForwardMoves, TransitionGraph,
       IsBackward, ExecutionStages

(* The route's rules are as strict as the triggers' on a brief both judge  *)
(* alike: what RouteValidates lets through, TriggersAccept accepts of the  *)
(* service role, the links being valid for a publication.                  *)
LEMMA RouteCoversTriggers ==
  ASSUME NEW r \in Request, RowType, post # NoPost,
         RouteValidates(r.actor, r.to, r.brief, r.reason),
         JudgedAlike(MergedBrief(r.brief)),
         r.to = "published" => HasValidLink(links)
  PROVE  TriggersAccept(post, Transitioned(r), TransitionContext(r))
<1> DEFINE new == Transitioned(r)
<1> DEFINE by == TransitionContext(r)
<1>1. /\ post \in Row
      /\ new.status = r.to /\ new.brief = MergedBrief(r.brief)
      /\ new.worker = post.worker /\ new.reviewer = post.reviewer
      /\ by.service = TRUE /\ by.reason = r.reason
  BY DEF RowType, Row, Transitioned, TransitionContext, AsService
<1>2. <<post.status, r.to>> \in TransitionGraph /\ post.status # r.to
  BY DEF RouteValidates, TransitionGraph
<1>3. WorkflowAllows(post, new, by)
  <2>1. CASE r.to = "published"
    BY <2>1, <1>1, <1>2, NoLinkIsNotValid
    DEF WorkflowAllows, TransitionGraph, HasValidLink
  <2>2. CASE IsBackward(post.status, r.to)
    BY <2>2, <1>1 DEF WorkflowAllows, RollbackAllowed, RouteValidates, IsBackward
  <2>3. CASE r.to # "published" /\ ~IsBackward(post.status, r.to)
    BY <2>3, <1>1, <1>2
    DEF WorkflowAllows, ForwardMoves, TransitionGraph, IsBackward, ExecutionStages
  <2> QED BY <2>1, <2>2, <2>3
<1>4. BriefLocked(post, new)
  BY <1>1 DEF BriefLocked, RouteValidates, MergedBrief
<1>5. PublicationProven(new)
  BY <1>1 DEF PublicationProven
<1>6. RolesByAdmin(post, new, by) /\ StatusByOwner(post, new, by)
  BY <1>1 DEF RolesByAdmin, StatusByOwner
<1>7. NextStageOwned(post, new)
  BY <1>1 DEF NextStageOwned, RouteValidates, OwnerOf
<1>8. BriefSufficient(post, new)
  BY <1>1, <1>2, BriefAssumption
  DEF BriefSufficient, RouteValidates, RequiredBrief, TransitionGraph, JudgedAlike
<1> QED BY <1>1, <1>3, <1>4, <1>5, <1>6, <1>7, <1>8 DEF TriggersAccept, JudgedAlike

-----------------------------------------------------------------------------
(* The row *)

LEMMA StorePreservesRow ==
  ASSUME RowType, RowInv, post # NoPost,
         NEW new \in Row, NEW by,
         by.uid \in UserOrNull, by.reason \in BOOLEAN,
         TriggersAccept(post, new, by), Store(new, by), UNCHANGED links
  PROVE  /\ RowType' /\ RowInv'
         /\ post' # NoPost /\ post'.updated_at \in FreshTimes
<1>1. PICK t \in FreshTimes :
        post' = [new EXCEPT !.assigned = OwnerOf(new), !.updated_at = t]
  BY DEF Store
<1>2. /\ post \in Row /\ t \in Times
      /\ OwnerOf(new) \in UserOrNull
  BY StageOwnerType DEF RowType, FreshTimes, OwnerOf, Row
<1>3. /\ post' \in Row /\ post' # NoPost
      /\ post'.status = new.status /\ post'.brief = new.brief
      /\ post'.worker = new.worker /\ post'.reviewer = new.reviewer
      /\ post'.assigned = OwnerOf(new) /\ post'.updated_at = t
  BY <1>1, <1>2, NoPostAssumption DEF Row
<1>4. audit' \in AuditRow /\ handedOff' \in Briefs \cup {NoBrief}
  BY <1>2, BriefAssumption DEF Store, RowType, AuditRow, Row
<1>5. RowType'
  BY <1>3, <1>4 DEF RowType
<1>6. PublishedHasValidLink'
  BY <1>3 DEF PublishedHasValidLink, TriggersAccept, PublicationProven, HasValidLink
<1>7. ExecutionBriefFrozen'
  <2> SUFFICES ASSUME new.status \in ExecutionStages
               PROVE  new.brief = handedOff' /\ handedOff' \in Complete
    BY <1>3 DEF ExecutionBriefFrozen
  <2>1. CASE post.status \in ExecutionStages
    <3>1. new.brief = post.brief /\ post.brief = handedOff /\ handedOff \in Complete
      BY <2>1 DEF TriggersAccept, BriefLocked, RowInv, ExecutionBriefFrozen
    <3>2. handedOff' = handedOff
      BY <2>1 DEF Store, ExecutionStages
    <3> QED BY <3>1, <3>2
  <2>2. CASE post.status \notin ExecutionStages
    <3>1. new.status # post.status
      BY <2>2
    <3>2. new.status = "ready_to_publish" /\ post.status = "creative_approved"
      BY <2>2, <3>1, AcceptedMoves DEF TriggersAccept, ExecutionStages
    <3>3. new.brief \in Complete
      BY <3>1, <3>2 DEF TriggersAccept, BriefSufficient
    <3> QED BY <3>2, <3>3 DEF Store
  <2> QED BY <2>1, <2>2
<1>8. AlwaysOwned'
  BY <1>3 DEF AlwaysOwned, TriggersAccept, NextStageOwned, OwnerOf
<1>9. HistoryExplainsStatus'
  <2>1. CASE new.status = post.status
    BY <2>1, <1>3 DEF Store, RowInv, HistoryExplainsStatus
  <2>2. CASE new.status # post.status
    <3>1. /\ audit'.from = post.status /\ audit'.to = new.status
          /\ audit'.reason = by.reason
      BY <2>2 DEF Store
    <3> QED BY <2>2, <3>1, <1>3, AcceptedMoves DEF HistoryExplainsStatus, TriggersAccept
  <2> QED BY <2>1, <2>2
<1> QED BY <1>1, <1>3, <1>5, <1>6, <1>7, <1>8, <1>9 DEF RowInv, NoOrphanLinks

(* A step that leaves the row, its links and its history alone.            *)
LEMMA RowUntouched ==
  ASSUME RowType, RowInv, UNCHANGED <<post, links, audit, handedOff>>
  PROVE  RowType' /\ RowInv'
BY DEF RowType, RowInv, NoOrphanLinks, PublishedHasValidLink, ExecutionBriefFrozen, AlwaysOwned,
       HistoryExplainsStatus, HasValidLink, OwnerOf

-----------------------------------------------------------------------------
(* The requests in flight *)

(* A statement that finds the row lock free, and leaves a version nobody   *)
(* has seen or no row at all, invalidates no request's knowledge.          *)
LEMMA UnlockedWrite ==
  ASSUME SessionType, SessionInv, ~Locked, post # NoPost,
         post' # NoPost => post'.updated_at \in FreshTimes,
         UNCHANGED account,
         \/ UNCHANGED sess
         \/ \E s \in Sessions : sess' = [sess EXCEPT ![s] = Idle]
  PROVE  SessionType' /\ SessionInv'
<1>1. SessionType'
  BY IdleType DEF SessionType
<1>2. \A s \in Sessions : sess'[s] = sess[s] \/ sess'[s] = Idle
  BY DEF SessionType
<1>3. \A s \in Sessions : sess'[s].pc \notin {"applying", "linking"}
  BY <1>2, IdleType DEF Locked
<1>4. OneLockHolder' /\ LockProtectsDecision' /\ LockedVersion' /\ LinkPending'
  BY <1>3 DEF OneLockHolder, LockProtectsDecision, LockedVersion, LinkPending
<1>5. VersionKnown'
  <2> SUFFICES ASSUME NEW s \in Sessions
               PROVE  IF sess'[s].pc \in {"fetched", "preflight", "applying"}
                      THEN /\ sess'[s].seen \in Times
                           /\ post' # NoPost => sess'[s].seen # post'.updated_at
                      ELSE sess'[s].seen = NoTime
    BY DEF VersionKnown
  <2>1. CASE sess'[s] = Idle
    BY <2>1 DEF Idle
  <2>2. CASE sess'[s] = sess[s]
    BY <2>2 DEF SessionInv, VersionKnown, FreshTimes
  <2> QED BY <1>2, <2>1, <2>2
<1>r. ReopenedByAdmins'
  BY <1>2, IdleType DEF SessionInv, ReopenedByAdmins
<1> QED BY <1>1, <1>4, <1>5, <1>r DEF SessionInv

(* A request that moves on without writing takes nothing from the others.  *)
(* SessionOk is what the invariant asks of the request itself.             *)
SessionOk(r) ==
  /\ r.pc \in {"applying", "linking"} => ~Locked
  /\ r.pc = "applying" =>
       StillAccepted(r) /\ post.updated_at = r.seen /\ post.status = r.from
  /\ r.pc = "reopening" => r.actor \in Admins
  /\ r.pc = "linking" =>
       /\ post # NoPost
       /\ post.status = "published" => HasValidLink([links EXCEPT ![r.platform] = r.link])
  /\ IF r.pc \in {"fetched", "preflight", "applying"}
     THEN r.seen \in Times /\ (post # NoPost /\ r.seen = post.updated_at => Validated(r))
     ELSE r.seen = NoTime

LEMMA RequestMoves ==
  ASSUME SessionType, SessionInv, NEW s \in Sessions, NEW r \in Request,
         SessionOk(r), sess' = [sess EXCEPT ![s] = r],
         UNCHANGED <<post, links, account>>
  PROVE  SessionType' /\ SessionInv'
<1>1. SessionType'
  BY DEF SessionType
<1>2. sess'[s] = r /\ \A t \in Sessions \ {s} : sess'[t] = sess[t]
  BY DEF SessionType
<1>3. OneLockHolder'
  BY <1>2 DEF SessionInv, OneLockHolder, SessionOk, Locked
<1>4. LockProtectsDecision'
  <2>1. ASSUME NEW t \in Sessions, sess'[t].pc = "applying" PROVE StillAccepted(sess'[t])
    BY <2>1, <1>2 DEF SessionInv, LockProtectsDecision, SessionOk
  <2> QED
    BY <2>1
    DEF LockProtectsDecision, StillAccepted, TriggersAccept, WorkflowAllows,
        RollbackAllowed, BriefLocked, PublicationProven, RolesByAdmin, StatusByOwner,
        NextStageOwned, BriefSufficient, Transitioned, TransitionContext, AsService,
        MergedBrief, HasValidLink, OwnerOf, IsAdmin
<1>v. LockedVersion'
  BY <1>2 DEF SessionInv, LockedVersion, SessionOk
<1>5. LinkPending'
  BY <1>2 DEF SessionInv, LinkPending, SessionOk, HasValidLink
<1>6. VersionKnown'
  BY <1>2 DEF SessionInv, VersionKnown, SessionOk, Validated, RouteValidates, OwnerOf,
              MergedBrief
<1>r. ReopenedByAdmins'
  BY <1>2 DEF SessionInv, SessionOk, ReopenedByAdmins
<1> QED BY <1>1, <1>3, <1>4, <1>5, <1>6, <1>v, <1>r DEF SessionInv

LEMMA RequestEnds ==
  ASSUME SessionType, SessionInv, NEW s \in Sessions,
         sess' = [sess EXCEPT ![s] = Idle],
         UNCHANGED <<post, links, account>>
  PROVE  SessionType' /\ SessionInv'
<1>1. SessionOk(Idle)
  BY IdleType DEF SessionOk
<1> QED BY <1>1, IdleType, RequestMoves

(* Whatever becomes of the accounts, the decisions taken stand: the service*)
(* role is not asked who it acts for.                                      *)
LEMMA AccountsAside ==
  ASSUME SessionType, SessionInv, UNCHANGED <<post, links, sess>>,
         account' \in [Users -> AccountStates]
  PROVE  SessionType' /\ SessionInv'
<1>1. SessionType'
  BY DEF SessionType
<1>2. OneLockHolder'
  BY DEF SessionInv, OneLockHolder
<1>3. LockProtectsDecision'
  BY DEF SessionInv, LockProtectsDecision, StillAccepted, TriggersAccept, WorkflowAllows,
     RollbackAllowed, BriefLocked, PublicationProven, RolesByAdmin, StatusByOwner,
     NextStageOwned, BriefSufficient, Transitioned, TransitionContext, AsService,
     MergedBrief, HasValidLink, OwnerOf
<1>v. LockedVersion'
  BY DEF SessionInv, LockedVersion
<1>4. LinkPending'
  BY DEF SessionInv, LinkPending, HasValidLink
<1>5. VersionKnown'
  BY DEF SessionInv, VersionKnown, Validated, RouteValidates, OwnerOf, MergedBrief
<1>r. ReopenedByAdmins'
  BY DEF SessionInv, ReopenedByAdmins
<1> QED BY <1>1, <1>2, <1>3, <1>4, <1>5, <1>v, <1>r DEF SessionInv

-----------------------------------------------------------------------------
(* Every action keeps the invariant *)

LEMMA InitEstablishes == Init => IInv
<1> SUFFICES ASSUME Init PROVE IInv
  OBVIOUS
<1>1. RowType
  BY DEF Init, RowType, LinkStates, AuditRow, UserOrNull, Statuses
<1>2. SessionType
  BY IdleType DEF Init, SessionType, AccountStates
<1>3. RowInv
  BY NoLinkIsNotValid DEF Init, RowInv, NoOrphanLinks, PublishedHasValidLink, ExecutionBriefFrozen,
         AlwaysOwned, HistoryExplainsStatus, HasValidLink
<1>4. SessionInv
  BY IdleType DEF Init, SessionInv, OneLockHolder, LockProtectsDecision, LockedVersion,
                  LinkPending, VersionKnown, ReopenedByAdmins
<1> QED BY <1>1, <1>2, <1>3, <1>4 DEF IInv

LEMMA CreateKeeps ==
  ASSUME IInv, NEW w \in Workers, NEW r \in Reviewers, NEW b \in Briefs, Create(w, r, b)
  PROVE  IInv'
<1> USE DEF IInv, Create
<1>1. PICK t \in Times :
        post' = [status |-> "draft", worker |-> w, reviewer |-> r,
                 assigned |-> w, brief |-> b, updated_at |-> t]
  OBVIOUS
<1>2. w \in Users /\ r \in Users /\ Creator \in Users
  BY UserAssumption
<1>3. RowType'
  BY <1>1, <1>2 DEF RowType, Row, UserOrNull, Statuses, LinkStates, AuditRow
<1>4. RowInv'
  <2>1. /\ post'.status = "draft" /\ post'.assigned = w /\ post'.worker = w
        /\ audit'.from = "none" /\ audit'.to = "draft" /\ w # NoUser
    BY <1>1, <1>2, UserAssumption
  <2>2. PublishedHasValidLink' /\ ExecutionBriefFrozen'
    BY <2>1 DEF PublishedHasValidLink, ExecutionBriefFrozen, ExecutionStages
  <2>3. AlwaysOwned'
    BY <2>1 DEF AlwaysOwned, OwnerOf, StageOwner, WorkerStages, ReviewerStages
  <2>4. HistoryExplainsStatus'
    BY <2>1 DEF HistoryExplainsStatus, IsBackward, ExecutionStages
  <2>5. post' # NoPost
    BY <1>3, <1>1, <1>2, NoPostAssumption DEF Row, Statuses, UserOrNull
  <2> QED BY <2>2, <2>3, <2>4, <2>5 DEF RowInv, NoOrphanLinks
<1>5. SessionType'
  BY DEF SessionType
<1>6. \A s \in Sessions : sess'[s].pc = "idle" /\ sess'[s].seen = NoTime
  BY DEF SessionInv, VersionKnown
<1>7. SessionInv'
  BY <1>6 DEF SessionInv, OneLockHolder, LockProtectsDecision, LockedVersion, LinkPending,
               VersionKnown, ReopenedByAdmins
<1> QED BY <1>3, <1>4, <1>5, <1>7

LEMMA FetchKeeps ==
  ASSUME IInv, NEW s \in Sessions, NEW u \in Users, NEW to \in Statuses,
         NEW b \in Payloads, NEW why \in BOOLEAN, TransitionFetch(s, u, to, b, why)
  PROVE  IInv'
<1> DEFINE r == [Idle EXCEPT !.pc = IF to = "published" THEN "fetched" ELSE "preflight",
                             !.actor = u, !.from = post.status, !.to = to,
                             !.seen = post.updated_at, !.brief = b, !.reason = why]
<1>1. post \in Row
  BY DEF IInv, RowType, TransitionFetch
<1>2. /\ r \in Request /\ r.pc \in {"fetched", "preflight"}
      /\ r.actor = u /\ r.from = post.status /\ r.to = to
      /\ r.seen = post.updated_at /\ r.brief = b /\ r.reason = why
  BY <1>1, IdleType, ValueAssumption DEF Request, Row, Phases, UserOrNull
<1>3. SessionOk(r)
  BY <1>1, <1>2 DEF SessionOk, Validated, TransitionFetch, Row
<1>4. sess' = [sess EXCEPT ![s] = r] /\ UNCHANGED <<post, links, account, audit, handedOff>>
  BY DEF TransitionFetch
<1> HIDE DEF r
<1> QED BY <1>2, <1>3, <1>4, RequestMoves, RowUntouched DEF IInv

LEMMA ReadLinksKeeps ==
  ASSUME IInv, NEW s \in Sessions, TransitionReadLinks(s)
  PROVE  IInv'
<1>1. UNCHANGED <<post, links, account, audit, handedOff>>
  BY DEF TransitionReadLinks
<1>2. CASE sess' = [sess EXCEPT ![s] = Idle]
  BY <1>1, <1>2, RequestEnds, RowUntouched DEF IInv
<1>3. CASE sess' = [sess EXCEPT ![s] = [@ EXCEPT !.pc = "preflight"]]
  <2> DEFINE r == [sess[s] EXCEPT !.pc = "preflight"]
  <2>1. sess[s] \in Request /\ sess[s].pc = "fetched"
    BY DEF IInv, SessionType, TransitionReadLinks
  <2>2. /\ r \in Request /\ r.pc = "preflight"
        /\ r.seen = sess[s].seen /\ r.from = sess[s].from /\ r.to = sess[s].to
        /\ r.actor = sess[s].actor /\ r.brief = sess[s].brief /\ r.reason = sess[s].reason
    BY <2>1 DEF Request, Phases
  <2>3. SessionOk(r)
    BY <2>1, <2>2 DEF SessionOk, IInv, SessionInv, VersionKnown, Validated
  <2>4. sess' = [sess EXCEPT ![s] = r]
    BY <1>3
  <2> HIDE DEF r
  <2> QED BY <1>1, <2>2, <2>3, <2>4, RequestMoves, RowUntouched DEF IInv
<1> QED BY <1>2, <1>3 DEF TransitionReadLinks

LEMMA ApplyBeginKeeps ==
  ASSUME IInv, NEW s \in Sessions, ApplyBegin(s)
  PROVE  IInv'
<1> DEFINE r == [sess[s] EXCEPT !.pc = "applying"]
<1>1. sess[s] \in Request /\ sess[s].pc = "preflight" /\ ~Locked /\ RpcAccepts(sess[s])
  BY DEF IInv, SessionType, ApplyBegin
<1>2. /\ r \in Request /\ r.pc = "applying"
      /\ r.seen = sess[s].seen /\ r.from = sess[s].from /\ r.to = sess[s].to
      /\ r.actor = sess[s].actor /\ r.brief = sess[s].brief /\ r.reason = sess[s].reason
  BY <1>1 DEF Request, Phases
<1>3. StillAccepted(r)
  BY <1>1, <1>2 DEF RpcAccepts, StillAccepted, Transitioned, TransitionContext
<1>4. SessionOk(r)
  BY <1>1, <1>2, <1>3 DEF SessionOk, RpcAccepts, IInv, SessionInv, VersionKnown, Validated
<1>5. sess' = [sess EXCEPT ![s] = r] /\ UNCHANGED <<post, links, account, audit, handedOff>>
  BY DEF ApplyBegin
<1> HIDE DEF r
<1> QED BY <1>2, <1>4, <1>5, RequestMoves, RowUntouched DEF IInv

(* A request that only ends: refused, or lost.                             *)
LEMMA NothingWrittenKeeps ==
  ASSUME IInv, NEW s \in Sessions,
         sess' = [sess EXCEPT ![s] = Idle],
         UNCHANGED <<post, links, account, audit, handedOff>>
  PROVE  IInv'
BY RequestEnds, RowUntouched DEF IInv

(* A request that only begins, knowing nothing of the row.                 *)
LEMMA BeginsKeeps ==
  ASSUME IInv, NEW s \in Sessions, NEW u \in Users, NEW pc \in {"reopening", "deleting"},
         pc = "reopening" => u \in Admins,
         sess' = [sess EXCEPT ![s] = [Idle EXCEPT !.pc = pc, !.actor = u]],
         UNCHANGED <<post, links, account, audit, handedOff>>
  PROVE  IInv'
<1> DEFINE r == [Idle EXCEPT !.pc = pc, !.actor = u]
<1>1. r \in Request /\ r.pc = pc /\ r.seen = NoTime /\ r.actor = u
  BY IdleType DEF Request, Phases, UserOrNull
<1>2. SessionOk(r)
  BY <1>1 DEF SessionOk
<1>3. sess' = [sess EXCEPT ![s] = r]
  OBVIOUS
<1> HIDE DEF r
<1> QED BY <1>1, <1>2, <1>3, RequestMoves, RowUntouched DEF IInv

(* The holder of the lock commits: it still stands on what it has checked, *)
(* and nobody else has got past the lock.                                  *)
LEMMA ApplyCommitKeeps ==
  ASSUME IInv, NEW s \in Sessions, ApplyCommit(s)
  PROVE  /\ IInv'
         /\ post # NoPost /\ post.updated_at = sess[s].seen /\ post.status = sess[s].from
<1> DEFINE r == sess[s]
<1>1. r \in Request /\ r.pc = "applying" /\ StillAccepted(r)
  BY DEF IInv, SessionType, SessionInv, LockProtectsDecision, ApplyCommit
<1>2. /\ post \in Row /\ post # NoPost
      /\ TriggersAccept(post, Transitioned(r), TransitionContext(r))
      /\ Store(Transitioned(r), TransitionContext(r))
      /\ UNCHANGED <<links, account>> /\ sess' = [sess EXCEPT ![s] = Idle]
  BY <1>1 DEF StillAccepted, IInv, RowType, ApplyCommit
<1>3. /\ Transitioned(r) \in Row
      /\ TransitionContext(r).uid \in UserOrNull /\ TransitionContext(r).reason \in BOOLEAN
  BY <1>1, <1>2 DEF TriggersAccept, Transitioned, MergedBrief, Row, Request, TransitionContext, AsService
<1>4. RowType' /\ RowInv' /\ post' # NoPost /\ post'.updated_at \in FreshTimes
  <2> DEFINE new == Transitioned(r)
             by  == TransitionContext(r)
  <2>1. /\ new \in Row /\ by.uid \in UserOrNull /\ by.reason \in BOOLEAN
        /\ TriggersAccept(post, new, by) /\ Store(new, by)
    BY <1>2, <1>3
  <2> HIDE DEF new, by
  <2> QED BY <1>2, <2>1, StorePreservesRow DEF IInv
<1>5. \A t \in Sessions : sess'[t].pc \notin {"applying", "linking"}
  BY <1>1, <1>2, IdleType DEF IInv, SessionType, SessionInv, OneLockHolder
<1>6. \A t \in Sessions : sess'[t] = Idle \/ sess'[t] = sess[t]
  BY <1>2 DEF IInv, SessionType
<1>7. SessionType'
  BY <1>2, IdleType DEF IInv, SessionType
<1>8. OneLockHolder' /\ LockProtectsDecision' /\ LockedVersion' /\ LinkPending'
  BY <1>5 DEF OneLockHolder, LockProtectsDecision, LockedVersion, LinkPending
<1>9. VersionKnown'
  <2>1. \A t \in Sessions :
          IF sess'[t].pc \in {"fetched", "preflight", "applying"}
          THEN sess'[t].seen \in Times /\ sess'[t].seen # post'.updated_at
          ELSE sess'[t].seen = NoTime
    BY <1>4, <1>6, IdleType DEF IInv, SessionInv, VersionKnown, FreshTimes
  <2> QED BY <2>1 DEF VersionKnown
<1>r. ReopenedByAdmins'
  BY <1>6, IdleType DEF IInv, SessionInv, ReopenedByAdmins
<1> QED BY <1>1, <1>4, <1>7, <1>8, <1>9, <1>r
       DEF IInv, SessionInv, StillAccepted, LockedVersion

(* One UPDATE statement, alone or as the end of a request.                 *)
LEMMA UpdateRowKeeps ==
  ASSUME IInv, post # NoPost, NEW new \in Row, NEW by,
         by.uid \in UserOrNull, by.reason \in BOOLEAN,
         UpdateRow(new, by), UNCHANGED <<links, account>>,
         \/ UNCHANGED sess
         \/ \E s \in Sessions : sess' = [sess EXCEPT ![s] = Idle]
  PROVE  IInv'
<1>1. ~Locked /\ TriggersAccept(post, new, by) /\ Store(new, by)
  BY DEF UpdateRow
<1>2. RowType' /\ RowInv' /\ post' # NoPost /\ post'.updated_at \in FreshTimes
  BY <1>1, StorePreservesRow DEF IInv
<1>3. SessionType' /\ SessionInv'
  BY <1>1, <1>2, UnlockedWrite DEF IInv
<1> QED BY <1>2, <1>3 DEF IInv

LEMMA ReopenApplyKeeps ==
  ASSUME IInv, NEW s \in Sessions, ReopenApply(s)
  PROVE  IInv'
<1> DEFINE new == [post EXCEPT !.status = "creative_approved"]
           by  == AsService(sess[s].actor, FALSE, TRUE)
<1>1. post \in Row /\ sess[s] \in Request /\ post # NoPost
  BY DEF IInv, RowType, SessionType, ReopenApply
<1>2. new \in Row /\ by.uid \in UserOrNull /\ by.reason \in BOOLEAN
  BY <1>1 DEF Row, Statuses, AsService, Request
<1>3. /\ UpdateRow(new, by) /\ UNCHANGED <<links, account>>
      /\ sess' = [sess EXCEPT ![s] = Idle]
  BY DEF ReopenApply
<1> HIDE DEF new, by
<1> QED BY <1>1, <1>2, <1>3, UpdateRowKeeps

LEMMA DeleteApplyKeeps ==
  ASSUME IInv, NEW s \in Sessions, DeleteApply(s)
  PROVE  IInv'
<1>1. RowType' /\ RowInv'
  BY NoLinkIsNotValid DEF IInv, DeleteApply, RowType, LinkStates, RowInv, NoOrphanLinks,
         PublishedHasValidLink, ExecutionBriefFrozen, AlwaysOwned, HistoryExplainsStatus,
         HasValidLink
<1>2. SessionType'
  BY IdleType DEF IInv, DeleteApply, SessionType
<1>3. \A t \in Sessions : sess'[t] = Idle \/ sess'[t] = sess[t]
  BY DEF IInv, SessionType, DeleteApply
<1>4. \A t \in Sessions : sess'[t].pc \notin {"applying", "linking"}
  BY <1>3, IdleType DEF DeleteApply, Locked
<1>5. OneLockHolder' /\ LockProtectsDecision' /\ LockedVersion' /\ LinkPending'
  BY <1>4 DEF OneLockHolder, LockProtectsDecision, LockedVersion, LinkPending
<1>6. VersionKnown'
  <2>1. post' = NoPost
    BY DEF DeleteApply
  <2> QED BY <1>3, <2>1, IdleType DEF VersionKnown, IInv, SessionInv
<1>r. ReopenedByAdmins'
  BY <1>3, IdleType DEF IInv, SessionInv, ReopenedByAdmins
<1> QED BY <1>1, <1>2, <1>5, <1>6, <1>r DEF IInv, SessionInv

LEMMA LinkBeginKeeps ==
  ASSUME IInv, NEW s \in Sessions, NEW u \in Users, NEW p \in Platforms,
         NEW v \in LinkStates, LinkBegin(s, u, p, v)
  PROVE  IInv'
<1> DEFINE r == [Idle EXCEPT !.pc = "linking", !.actor = u, !.platform = p, !.link = v]
<1>1. /\ r \in Request /\ r.pc = "linking" /\ r.seen = NoTime
      /\ r.platform = p /\ r.link = v
  BY IdleType DEF Request, Phases, UserOrNull
<1>2. SessionOk(r)
  BY <1>1 DEF SessionOk, LinkBegin
<1>3. sess' = [sess EXCEPT ![s] = r] /\ UNCHANGED <<post, links, account, audit, handedOff>>
  BY DEF LinkBegin
<1> HIDE DEF r
<1> QED BY <1>1, <1>2, <1>3, RequestMoves, RowUntouched DEF IInv

LEMMA LinkCommitKeeps ==
  ASSUME IInv, NEW s \in Sessions, LinkCommit(s)
  PROVE  IInv'
<1>1. sess[s] \in Request /\ sess[s].pc = "linking" /\ sess' = [sess EXCEPT ![s] = Idle]
  BY DEF IInv, SessionType, LinkCommit
<1>2. /\ links' = [links EXCEPT ![sess[s].platform] = sess[s].link]
      /\ UNCHANGED <<post, account, audit, handedOff>>
  BY DEF LinkCommit
<1>3. RowType'
  BY <1>1, <1>2 DEF IInv, RowType, Request
<1>4. PublishedHasValidLink'
  BY <1>1, <1>2 DEF IInv, SessionInv, LinkPending, PublishedHasValidLink, HasValidLink
<1>5. RowInv'
  BY <1>1, <1>2, <1>4 DEF IInv, RowInv, NoOrphanLinks, SessionInv, LinkPending,
                         ExecutionBriefFrozen, AlwaysOwned, OwnerOf, HistoryExplainsStatus
<1>6. SessionType'
  BY <1>1, <1>2, IdleType DEF IInv, SessionType
<1>7. \A t \in Sessions : sess'[t] = Idle \/ (t # s /\ sess'[t] = sess[t])
  BY <1>1 DEF IInv, SessionType
<1>8. \A t \in Sessions : sess'[t].pc \notin {"applying", "linking"}
  BY <1>1, <1>7, IdleType DEF IInv, SessionInv, OneLockHolder
<1>9. OneLockHolder' /\ LockProtectsDecision' /\ LockedVersion' /\ LinkPending'
  BY <1>8 DEF OneLockHolder, LockProtectsDecision, LockedVersion, LinkPending
<1>10. VersionKnown'
  BY <1>2, <1>7, IdleType
  DEF IInv, SessionInv, VersionKnown, Validated, RouteValidates, OwnerOf, MergedBrief
<1>r. ReopenedByAdmins'
  BY <1>7, IdleType DEF IInv, SessionInv, ReopenedByAdmins
<1> QED BY <1>3, <1>5, <1>6, <1>9, <1>10, <1>r DEF IInv, SessionInv

LEMMA StatementKeeps ==
  ASSUME IInv, Statement
  PROVE  IInv'
<1>1. ASSUME NEW w \in Workers, NEW r \in Reviewers, NEW b \in Briefs, Create(w, r, b)
      PROVE  IInv'
  BY <1>1, CreateKeeps
<1>2. ASSUME NEW u \in Users, NEW b \in Briefs, SaveBrief(u, b)
      PROVE  IInv'
  <2> DEFINE new == [post EXCEPT !.brief = b]
  <2>1. post \in Row /\ post # NoPost /\ b \in Storable
    BY <1>2 DEF IInv, RowType, Row, SaveBrief, UpdateRow, TriggersAccept
  <2>2. new \in Row /\ AsUser(u).uid \in UserOrNull /\ AsUser(u).reason \in BOOLEAN
    BY <2>1 DEF Row, AsUser, UserOrNull
  <2>3. UpdateRow(new, AsUser(u)) /\ UNCHANGED <<links, account, sess>>
    BY <1>2 DEF SaveBrief
  <2> HIDE DEF new
  <2> QED BY <2>1, <2>2, <2>3, UpdateRowKeeps
<1>3. ASSUME NEW u \in Users, NEW to \in Statuses, NEW b \in Briefs, DirectTransition(u, to, b)
      PROVE  IInv'
  <2> DEFINE new == [post EXCEPT !.status = to, !.brief = b]
  <2>1. post \in Row /\ post # NoPost /\ b \in Storable
    BY <1>3 DEF IInv, RowType, Row, DirectTransition, UpdateRow, TriggersAccept
  <2>2. new \in Row /\ AsUser(u).uid \in UserOrNull /\ AsUser(u).reason \in BOOLEAN
    BY <2>1 DEF Row, AsUser, UserOrNull
  <2>3. UpdateRow(new, AsUser(u)) /\ UNCHANGED <<links, account, sess>>
    BY <1>3 DEF DirectTransition
  <2> HIDE DEF new
  <2> QED BY <2>1, <2>2, <2>3, UpdateRowKeeps
<1>4. ASSUME NEW u \in Users, NEW w \in Workers, NEW r \in Reviewers, Reassign(u, w, r)
      PROVE  IInv'
  <2> DEFINE new == [post EXCEPT !.worker = w, !.reviewer = r]
  <2>1. post \in Row /\ post # NoPost
    BY <1>4 DEF IInv, RowType, Reassign
  <2>2. new \in Row /\ AsUser(u).uid \in UserOrNull /\ AsUser(u).reason \in BOOLEAN
    BY <2>1, UserAssumption DEF Row, AsUser, UserOrNull
  <2>3. UpdateRow(new, AsUser(u)) /\ UNCHANGED <<links, account, sess>>
    BY <1>4 DEF Reassign
  <2> HIDE DEF new
  <2> QED BY <2>1, <2>2, <2>3, UpdateRowKeeps
<1>5. ASSUME NEW u \in Users, ClaimNotification(u)
      PROVE  IInv'
  <2> DEFINE by == AsService(u, FALSE, FALSE)
  <2>1. post \in Row /\ post # NoPost
    BY <1>5 DEF IInv, RowType, ClaimNotification
  <2>2. by.uid \in UserOrNull /\ by.reason \in BOOLEAN
    BY DEF AsService, UserOrNull
  <2>3. UpdateRow(post, by) /\ UNCHANGED <<links, account, sess>>
    BY <1>5 DEF ClaimNotification
  <2> HIDE DEF by
  <2> QED BY <2>1, <2>2, <2>3, UpdateRowKeeps
<1> QED BY <1>1, <1>2, <1>3, <1>4, <1>5 DEF Statement

LEMMA PurgeKeeps ==
  ASSUME IInv, NEW u \in Users, NEW a \in Users, PurgeProfile(u, a)
  PROVE  IInv'
<1>1. /\ ~Locked /\ UNCHANGED <<handedOff, sess>>
      /\ account' \in [Users -> AccountStates]
      /\ links' \in [Platforms -> LinkStates]
      /\ audit' \in AuditRow
      /\ audit'.from = audit.from /\ audit'.to = audit.to /\ audit'.reason = audit.reason
  BY DEF PurgeProfile, IInv, RowType, SessionType, AccountStates, LinkStates, AuditRow,
         UserOrNull
<1>2. /\ RowType' /\ RowInv'
      /\ \/ post' = post
         \/ post # NoPost /\ post' # NoPost /\ post'.updated_at \in FreshTimes
  <2>1. CASE post = NoPost
    <3>1. post' = NoPost /\ ~HasValidLink(links')
      BY <2>1, NoLinkIsNotValid
      DEF PurgeProfile, IInv, RowInv, RowType, NoOrphanLinks, HasValidLink
    <3> QED
      BY <1>1, <2>1, <3>1
      DEF IInv, RowType, RowInv, NoOrphanLinks, PublishedHasValidLink, ExecutionBriefFrozen, AlwaysOwned,
          HistoryExplainsStatus, HasValidLink
  <2>2. CASE post # NoPost /\ u \notin {post.worker, post.reviewer}
    <3>1. post' = post /\ (post.status = "published" => HasValidLink(links'))
      BY <2>2 DEF PurgeProfile
    <3> QED
      BY <1>1, <2>2, <3>1
      DEF IInv, RowType, RowInv, NoOrphanLinks, PublishedHasValidLink, ExecutionBriefFrozen, AlwaysOwned,
          HistoryExplainsStatus, HasValidLink, OwnerOf
  <2>3. CASE post # NoPost /\ u \in {post.worker, post.reviewer}
    <3> DEFINE new == Unassigned(u)
    <3>1. PICK t \in FreshTimes :
            post' = [new EXCEPT !.assigned = OwnerOf(new), !.updated_at = t]
      BY <2>3 DEF PurgeProfile
    <3>2. /\ post \in Row /\ t \in Times
          /\ (post.status = "published" => HasValidLink(links'))
          /\ NextStageOwned(post, new)
      BY <2>3 DEF PurgeProfile, IInv, RowType, FreshTimes, TriggersAccept
    <3>3. new \in Row /\ new.status = post.status /\ new.brief = post.brief
      BY <3>2 DEF Unassigned, Row, UserOrNull
    <3>4. OwnerOf(new) \in UserOrNull
      BY <3>3, StageOwnerType DEF OwnerOf, Row
    <3> HIDE DEF new
    <3>5. /\ post' \in Row /\ post' # NoPost
          /\ post'.status = post.status /\ post'.brief = post.brief
          /\ post'.worker = new.worker /\ post'.reviewer = new.reviewer
          /\ post'.assigned = OwnerOf(new) /\ post'.updated_at = t
      BY <3>1, <3>2, <3>3, <3>4, NoPostAssumption DEF Row
    <3>6. RowType'
      BY <1>1, <3>5 DEF IInv, RowType
    <3>7. PublishedHasValidLink'
      BY <3>2, <3>5 DEF PublishedHasValidLink, HasValidLink
    <3>8. ExecutionBriefFrozen' /\ HistoryExplainsStatus'
      BY <1>1, <2>3, <3>5 DEF IInv, RowInv, ExecutionBriefFrozen, HistoryExplainsStatus
    <3>9. AlwaysOwned'
      BY <3>2, <3>3, <3>5 DEF AlwaysOwned, OwnerOf, NextStageOwned
    <3> QED BY <2>3, <3>1, <3>5, <3>6, <3>7, <3>8, <3>9
            DEF RowInv, NoOrphanLinks
  <2> QED BY <2>1, <2>2, <2>3
<1>3. SessionType'
  BY <1>1 DEF IInv, SessionType
<1>4. OneLockHolder' /\ LockProtectsDecision' /\ LockedVersion' /\ LinkPending'
  BY <1>1 DEF Locked, OneLockHolder, LockProtectsDecision, LockedVersion, LinkPending
<1>5. VersionKnown'
  <2>1. CASE post' = post
    BY <1>1, <2>1 DEF IInv, SessionInv, VersionKnown, Validated, RouteValidates, OwnerOf,
                      MergedBrief
  <2>2. CASE post # NoPost /\ post' # NoPost /\ post'.updated_at \in FreshTimes
    <3>1. \A s \in Sessions : sess[s].seen # post'.updated_at
      BY <2>2 DEF FreshTimes
    <3> QED BY <1>1, <3>1 DEF IInv, SessionInv, VersionKnown
  <2> QED BY <1>2, <2>1, <2>2
<1>r. ReopenedByAdmins'
  BY <1>1 DEF IInv, SessionInv, ReopenedByAdmins
<1> QED BY <1>2, <1>3, <1>4, <1>5, <1>r DEF IInv, SessionInv

LEMMA SetActiveKeeps ==
  ASSUME IInv, NEW u \in Users, SetActive(u)
  PROVE  IInv'
<1>1. account' \in [Users -> AccountStates] /\ UNCHANGED <<post, links, audit, handedOff, sess>>
  BY DEF SetActive, IInv, SessionType, AccountStates
<1> QED BY <1>1, RowUntouched, AccountsAside DEF IInv

LEMMA StepKeeps ==
  ASSUME IInv, [Next]_vars
  PROVE  IInv'
<1>1. ASSUME NEW s \in Sessions, Transition(s)
      PROVE  IInv'
  <2>1. CASE \E u \in Users, to \in Statuses, b \in Payloads, r \in BOOLEAN :
               TransitionFetch(s, u, to, b, r)
    BY <2>1, FetchKeeps
  <2>2. CASE TransitionReadLinks(s)
    BY <2>2, ReadLinksKeeps
  <2>3. CASE ApplyBegin(s)
    BY <2>3, ApplyBeginKeeps
  <2>4. CASE ApplyRefused(s)
    BY <2>4, NothingWrittenKeeps DEF ApplyRefused
  <2>5. CASE ApplyCommit(s)
    BY <2>5, ApplyCommitKeeps
  <2> QED BY <1>1, <2>1, <2>2, <2>3, <2>4, <2>5 DEF Transition
<1>2. ASSUME NEW s \in Sessions, Reopen(s)
      PROVE  IInv'
  <2>1. CASE \E u \in Users : ReopenRequest(s, u)
    BY <2>1, BeginsKeeps DEF ReopenRequest, IsAdmin
  <2>2. CASE ReopenApply(s)
    BY <2>2, ReopenApplyKeeps
  <2>3. CASE ReopenRefused(s)
    BY <2>3, NothingWrittenKeeps DEF ReopenRefused
  <2> QED BY <1>2, <2>1, <2>2, <2>3 DEF Reopen
<1>3. ASSUME NEW s \in Sessions, Delete(s)
      PROVE  IInv'
  <2>1. CASE \E u \in Users : DeleteRequest(s, u)
    BY <2>1, BeginsKeeps DEF DeleteRequest
  <2>2. CASE DeleteApply(s)
    BY <2>2, DeleteApplyKeeps
  <2> QED BY <1>3, <2>1, <2>2 DEF Delete
<1>4. ASSUME NEW s \in Sessions, WriteLink(s)
      PROVE  IInv'
  BY <1>4, LinkBeginKeeps, LinkCommitKeeps DEF WriteLink
<1>5. ASSUME NEW s \in Sessions, RequestLost(s)
      PROVE  IInv'
  BY <1>5, NothingWrittenKeeps DEF RequestLost
<1>6. CASE Statement
  BY <1>6, StatementKeeps
<1>7. CASE Accounts
  BY <1>7, SetActiveKeeps, PurgeKeeps DEF Accounts
<1>8. CASE UNCHANGED vars
  <2>1. UNCHANGED <<post, links, account, audit, handedOff, sess>>
    BY <1>8 DEF vars
  <2>2. account' \in [Users -> AccountStates]
    BY <2>1 DEF IInv, SessionType
  <2> QED BY <2>1, <2>2, RowUntouched, AccountsAside DEF IInv
<1> QED BY <1>1, <1>2, <1>3, <1>4, <1>5, <1>6, <1>7, <1>8 DEF Next

-----------------------------------------------------------------------------
(* The theorems *)

(* The inductive invariant holds in every reachable state.                 *)
THEOREM Invariant == Spec => []IInv
BY InitEstablishes, StepKeeps, PTL DEF Spec

(* Every variable keeps its type.                                          *)
THEOREM TypeCorrect == Spec => []TypeOK
<1>1. IInv => TypeOK
  BY DEF IInv, RowType, SessionType, TypeOK
<1> QED BY <1>1, Invariant, PTL

(* A published post has a valid live link, whatever link writes, purges and*)
(* publications are under way.                                             *)
THEOREM PublicationIsProven == Spec => []PublishedHasValidLink
<1>1. IInv => PublishedHasValidLink
  BY DEF IInv, RowInv
<1> QED BY <1>1, Invariant, PTL

(* The brief being executed is the complete one that was handed off.       *)
THEOREM ExecutionKeepsBrief == Spec => []ExecutionBriefFrozen
<1>1. IInv => ExecutionBriefFrozen
  BY DEF IInv, RowInv
<1> QED BY <1>1, Invariant, PTL

(* Unfinished work always has the owner its status implies.                *)
THEOREM NoPostIsStranded == Spec => []AlwaysOwned
<1>1. IInv => AlwaysOwned
  BY DEF IInv, RowInv
<1> QED BY <1>1, Invariant, PTL

(* The latest history entry accounts for the status.                       *)
THEOREM HistoryIsFaithful == Spec => []HistoryExplainsStatus
<1>1. IInv => HistoryExplainsStatus
  BY DEF IInv, RowInv
<1> QED BY <1>1, Invariant, PTL

(* The row lock has one holder, and what the RPC has checked still holds   *)
(* when it writes.                                                         *)
THEOREM LockIsEnough == Spec => [](OneLockHolder /\ LockProtectsDecision)
<1>1. IInv => OneLockHolder /\ LockProtectsDecision
  BY DEF IInv, SessionInv
<1> QED BY <1>1, Invariant, PTL

(* A current version means a current status.                               *)
THEOREM VersionsIdentify == Spec => []VersionIdentifiesStatus
<1>1. IInv => VersionIdentifiesStatus
  <2> SUFFICES ASSUME IInv, NEW s \in Sessions, post # NoPost,
                      sess[s].seen = post.updated_at
               PROVE  sess[s].from = post.status
    BY DEF VersionIdentifiesStatus
  <2>1. sess[s].seen # NoTime
    BY ValueAssumption DEF IInv, RowType, Row
  <2> QED BY <2>1 DEF IInv, SessionInv, VersionKnown, Validated
<1> QED BY <1>1, Invariant, PTL

(* The TypeScript checks suffice for the SQL ones, on a brief and links    *)
(* whose fields the two judge alike.                                       *)
THEOREM RouteAndDatabaseAgree == Spec => []PreflightSuffices
<1>1. IInv => PreflightSuffices
  <2> SUFFICES ASSUME IInv, NEW s \in Sessions,
                      sess[s].pc = "preflight", post # NoPost,
                      sess[s].seen = post.updated_at,
                      JudgedAlike(MergedBrief(sess[s].brief)),
                      account[sess[s].actor] = "active",
                      sess[s].to = "published" => HasValidLink(links)
               PROVE  RpcAccepts(sess[s])
    BY DEF PreflightSuffices
  <2> DEFINE r == sess[s]
  <2>1. r \in Request /\ Validated(r)
    BY DEF IInv, SessionType, SessionInv, VersionKnown
  <2>2. TriggersAccept(post, Transitioned(r), TransitionContext(r))
    BY <2>1, RouteCoversTriggers DEF IInv, Validated
  <2>3. r.to # post.status
    BY <2>1 DEF Validated, RouteValidates, TransitionGraph
  <2> QED BY <2>1, <2>2, <2>3 DEF RpcAccepts, Validated, RouteValidates
<1> QED BY <1>1, Invariant, PTL

-----------------------------------------------------------------------------
(* What a step may do *)

Contexts == [service: BOOLEAN, uid: UserOrNull, reason: BOOLEAN, reopen: BOOLEAN]

RowWritten(new, by) ==
  /\ post # NoPost /\ UNCHANGED links
  /\ TriggersAccept(post, new, by) /\ Store(new, by)
  /\ by.service /\ new.status # post.status
       => by.uid \in Admins \/ (~by.reopen /\ by.uid = OwnerOf(post))
  /\ by.reopen => by.service

RowKept == post' = post /\ UNCHANGED <<audit, handedOff>>

RolesCleared ==
  /\ post # NoPost /\ post' # NoPost /\ UNCHANGED handedOff
  /\ post'.status = post.status /\ post'.brief = post.brief

RowCreated ==
  /\ post = NoPost /\ post' # NoPost
  /\ post'.status = "draft" /\ post'.brief \in Briefs
  /\ ~HasValidLink(links')

RowDeleted == post' = NoPost /\ ~HasValidLink(links')

(* Five things a step can do to the row: nothing, an accepted UPDATE, the  *)
(* clearing of a purged user's roles, creation and deletion.               *)
LEMMA StepShapes ==
  ASSUME IInv, [Next]_vars
  PROVE  \/ RowKept \/ RolesCleared \/ RowCreated \/ RowDeleted
         \/ \E new \in Row, by \in Contexts : RowWritten(new, by)
<1>1. ASSUME NEW s \in Sessions, ApplyCommit(s)
      PROVE  \E new \in Row, by \in Contexts : RowWritten(new, by)
  <2> DEFINE new == Transitioned(sess[s])
             by  == TransitionContext(sess[s])
  <2>1. /\ post \in Row /\ post # NoPost /\ sess[s] \in Request /\ StillAccepted(sess[s])
        /\ Store(new, by) /\ UNCHANGED links
    BY <1>1 DEF IInv, RowType, SessionType, SessionInv, LockProtectsDecision, StillAccepted,
                ApplyCommit
  <2>2. /\ new \in Row /\ by \in Contexts
        /\ by.service /\ ~by.reopen /\ by.uid = sess[s].actor
    BY <2>1
    DEF StillAccepted, TriggersAccept, Transitioned, MergedBrief, Row, Request, TransitionContext,
        AsService, Contexts
  <2>3. RowWritten(new, by)
    BY <2>1, <2>2 DEF RowWritten, StillAccepted
  <2> QED BY <2>2, <2>3
<1>2. ASSUME NEW s \in Sessions, ReopenApply(s)
      PROVE  \E new \in Row, by \in Contexts : RowWritten(new, by)
  <2> DEFINE new == [post EXCEPT !.status = "creative_approved"]
             by  == AsService(sess[s].actor, FALSE, TRUE)
  <2>1. /\ post \in Row /\ post # NoPost /\ sess[s] \in Request
        /\ sess[s].actor \in Admins
        /\ TriggersAccept(post, new, by) /\ Store(new, by) /\ UNCHANGED links
    BY <1>2 DEF IInv, RowType, SessionType, SessionInv, ReopenedByAdmins, ReopenApply,
                UpdateRow
  <2>2. new \in Row /\ by \in Contexts /\ by.service /\ by.uid = sess[s].actor
    BY <2>1 DEF Row, Statuses, Request, AsService, Contexts
  <2>3. RowWritten(new, by)
    BY <2>1, <2>2 DEF RowWritten
  <2> QED BY <2>2, <2>3
<1>3. ASSUME NEW u \in Users, NEW new \in Row, post # NoPost, UNCHANGED links,
             UpdateRow(new, AsUser(u))
      PROVE  \E n \in Row, by \in Contexts : RowWritten(n, by)
  <2>1. AsUser(u) \in Contexts /\ ~AsUser(u).service /\ ~AsUser(u).reopen
    BY DEF AsUser, Contexts, UserOrNull
  <2>2. RowWritten(new, AsUser(u))
    BY <1>3, <2>1 DEF RowWritten, UpdateRow
  <2> QED BY <2>1, <2>2
<1>4. CASE Statement
  <2>1. ASSUME NEW u \in Users, NEW b \in Briefs, SaveBrief(u, b)
        PROVE  \E n \in Row, by \in Contexts : RowWritten(n, by)
    <3>1. post \in Row /\ [post EXCEPT !.brief = b] \in Row
      BY <2>1 DEF IInv, RowType, SaveBrief, Row, UpdateRow, TriggersAccept
    <3> QED BY <1>3, <2>1, <3>1 DEF SaveBrief
  <2>2. ASSUME NEW u \in Users, NEW to \in Statuses, NEW b \in Briefs,
               DirectTransition(u, to, b)
        PROVE  \E n \in Row, by \in Contexts : RowWritten(n, by)
    <3>1. post \in Row /\ [post EXCEPT !.status = to, !.brief = b] \in Row
      BY <2>2 DEF IInv, RowType, DirectTransition, Row, UpdateRow, TriggersAccept
    <3> QED BY <1>3, <2>2, <3>1 DEF DirectTransition
  <2>3. ASSUME NEW u \in Users, NEW w \in Workers, NEW r \in Reviewers, Reassign(u, w, r)
        PROVE  \E n \in Row, by \in Contexts : RowWritten(n, by)
    <3>1. post \in Row /\ [post EXCEPT !.worker = w, !.reviewer = r] \in Row
      BY <2>3, UserAssumption DEF IInv, RowType, Reassign, Row, UserOrNull
    <3> QED BY <1>3, <2>3, <3>1 DEF Reassign
  <2>4. ASSUME NEW u \in Users, ClaimNotification(u)
        PROVE  \E n \in Row, by \in Contexts : RowWritten(n, by)
    <3> DEFINE by == AsService(u, FALSE, FALSE)
    <3>1. by \in Contexts /\ ~by.reopen
      BY DEF AsService, Contexts, UserOrNull
    <3>2. post \in Row /\ RowWritten(post, by)
      BY <2>4, <3>1 DEF IInv, RowType, ClaimNotification, UpdateRow, RowWritten
    <3> QED BY <3>1, <3>2
  <2>5. ASSUME NEW w \in Workers, NEW r \in Reviewers, NEW b \in Briefs, Create(w, r, b)
        PROVE  RowCreated
    <3>1. post = NoPost /\ ~HasValidLink(links')
      BY <2>5, NoLinkIsNotValid DEF Create, HasValidLink
    <3>2. post' \in Row /\ post'.status = "draft" /\ post'.brief = b
      BY <2>5, UserAssumption DEF Create, Row, Statuses, UserOrNull
    <3> QED BY <3>1, <3>2, NoPostAssumption DEF RowCreated
  <2> QED BY <1>4, <2>1, <2>2, <2>3, <2>4, <2>5 DEF Statement
<1>5. ASSUME NEW s \in Sessions, DeleteApply(s)
      PROVE  RowDeleted
  BY <1>5, NoLinkIsNotValid DEF DeleteApply, RowDeleted, HasValidLink
<1>6. ASSUME NEW u \in Users, NEW a \in Users, PurgeProfile(u, a)
      PROVE  RolesCleared \/ RowDeleted
  <2>1. CASE post = NoPost
    <3>1. post' = NoPost /\ ~HasValidLink(links')
      BY <1>6, <2>1, NoLinkIsNotValid
      DEF PurgeProfile, IInv, RowInv, NoOrphanLinks, RowType, HasValidLink
    <3> QED BY <3>1 DEF RowDeleted
  <2>2. CASE post # NoPost /\ u \notin {post.worker, post.reviewer}
    BY <1>6, <2>2 DEF PurgeProfile, RolesCleared
  <2>3. CASE post # NoPost /\ u \in {post.worker, post.reviewer}
    <3> DEFINE new == Unassigned(u)
    <3>1. PICK t \in FreshTimes :
            post' = [new EXCEPT !.assigned = OwnerOf(new), !.updated_at = t]
      BY <1>6, <2>3 DEF PurgeProfile
    <3>2. post \in Row /\ t \in Times
      BY <2>3 DEF IInv, RowType, FreshTimes
    <3>3. new \in Row /\ new.status = post.status /\ new.brief = post.brief
      BY <3>2 DEF Unassigned, Row, UserOrNull
    <3>4. OwnerOf(new) \in UserOrNull
      BY <3>3, StageOwnerType DEF OwnerOf, Row
    <3> HIDE DEF new
    <3>5. post' \in Row /\ post'.status = post.status /\ post'.brief = post.brief
      BY <3>1, <3>2, <3>3, <3>4 DEF Row
    <3> QED BY <1>6, <2>3, <3>5, NoPostAssumption DEF RolesCleared, PurgeProfile
  <2> QED BY <2>1, <2>2, <2>3
<1>7. CASE UNCHANGED vars
  BY <1>7 DEF vars, RowKept
<1>8. CASE \E s \in Sessions :
             \/ Transition(s) /\ ~ApplyCommit(s)
             \/ Reopen(s) /\ ~ReopenApply(s)
             \/ Delete(s) /\ ~DeleteApply(s)
             \/ WriteLink(s) \/ RequestLost(s)
  <2>1. ASSUME NEW s \in Sessions, Transition(s), ~ApplyCommit(s) PROVE RowKept
    BY <2>1 DEF RowKept, Transition, TransitionFetch, TransitionReadLinks, ApplyBegin,
                ApplyRefused
  <2>2. ASSUME NEW s \in Sessions, Reopen(s), ~ReopenApply(s) PROVE RowKept
    BY <2>2 DEF RowKept, Reopen, ReopenRequest, ReopenRefused
  <2>3. ASSUME NEW s \in Sessions, Delete(s), ~DeleteApply(s) PROVE RowKept
    BY <2>3 DEF RowKept, Delete, DeleteRequest
  <2>4. ASSUME NEW s \in Sessions, WriteLink(s) PROVE RowKept
    BY <2>4 DEF RowKept, WriteLink, LinkBegin, LinkCommit
  <2>5. ASSUME NEW s \in Sessions, RequestLost(s) PROVE RowKept
    BY <2>5 DEF RowKept, RequestLost
  <2> QED BY <1>8, <2>1, <2>2, <2>3, <2>4, <2>5
<1>9. ASSUME NEW u \in Users, SetActive(u)
      PROVE  RowKept
  BY <1>9 DEF SetActive, RowKept
<1> QED BY <1>1, <1>2, <1>4, <1>5, <1>6, <1>7, <1>8, <1>9
        DEF Next, Transition, Reopen, Delete, Accounts

(* What an accepted UPDATE means to its reader.                            *)
LEMMA WrittenRow ==
  ASSUME IInv, NEW new \in Row, NEW by \in Contexts, RowWritten(new, by)
  PROVE  /\ post \in Row /\ post' # NoPost
         /\ post'.status = new.status /\ post'.brief = new.brief
         /\ post'.updated_at \in FreshTimes
<1>1. PICK t \in FreshTimes :
        post' = [new EXCEPT !.assigned = OwnerOf(new), !.updated_at = t]
  BY DEF RowWritten, Store
<1>2. /\ post \in Row /\ t \in Times /\ OwnerOf(new) \in UserOrNull
  BY StageOwnerType DEF RowWritten, IInv, RowType, FreshTimes, OwnerOf, Row
<1> QED BY <1>1, <1>2, NoPostAssumption DEF Row

LEMMA StepByOwner ==
  ASSUME IInv, [Next]_vars, post # NoPost, post' # NoPost, post'.status # post.status
  PROVE  \/ audit'.actor \in Admins
         \/ /\ audit'.actor = OwnerOf(post)
            /\ <<post.status, post'.status>> \in TransitionGraph
<1>1. PICK new \in Row, by \in Contexts : RowWritten(new, by)
  BY StepShapes DEF RowKept, RolesCleared, RowCreated, RowDeleted
<1>2. new.status # post.status /\ post'.status = new.status
  BY <1>1, WrittenRow
<1>3. audit'.actor = by.uid
  BY <1>1, <1>2 DEF RowWritten, Store
<1>4. by.uid \in Admins \/ (~by.reopen /\ by.uid = OwnerOf(post))
  BY <1>1, <1>2 DEF RowWritten, TriggersAccept, StatusByOwner, IsAdmin
<1>5. ~by.reopen => <<post.status, new.status>> \in TransitionGraph
  BY <1>1, <1>2, AcceptedMoves DEF RowWritten, TriggersAccept
<1> QED BY <1>2, <1>3, <1>4, <1>5

(* Only admins and the owner of the stage change a status, and only admins *)
(* reopen a brief.                                                         *)
THEOREM OnlyOwnersAct == Spec => OwnerActs
<1>1. IInv /\ [Next]_vars =>
        [ post # NoPost /\ post' # NoPost /\ post'.status # post.status =>
            \/ audit'.actor \in Admins
            \/ /\ audit'.actor = OwnerOf(post)
               /\ <<post.status, post'.status>> \in TransitionGraph ]_vars
  BY StepByOwner
<1> QED BY <1>1, Invariant, PTL DEF Spec, OwnerActs

LEMMA StepPublishes ==
  ASSUME IInv, [Next]_vars, post # NoPost, post' # NoPost,
         post.status # "published", post'.status = "published"
  PROVE  post.status = "awaiting_live_link" /\ post'.brief = handedOff
<1>1. PICK new \in Row, by \in Contexts : RowWritten(new, by)
  BY StepShapes DEF RowKept, RolesCleared, RowCreated, RowDeleted
<1>2. new.status = "published" /\ post'.brief = new.brief
  BY <1>1, WrittenRow
<1>3. post.status = "awaiting_live_link"
  BY <1>1, <1>2, AcceptedMoves DEF RowWritten, TriggersAccept
<1>4. new.brief = post.brief
  BY <1>1, <1>3 DEF RowWritten, TriggersAccept, BriefLocked, ExecutionStages
<1>5. post.brief = handedOff
  BY <1>3 DEF IInv, RowInv, ExecutionBriefFrozen, ExecutionStages
<1> QED BY <1>2, <1>3, <1>4, <1>5

(* What is published is the brief that was handed off.                     *)
THEOREM PublishesTheApprovedBrief == Spec => PublishesWhatWasHandedOff
<1>1. IInv /\ [Next]_vars =>
        [ post # NoPost /\ post' # NoPost
          /\ post.status # "published" /\ post'.status = "published" =>
            post.status = "awaiting_live_link" /\ post'.brief = handedOff ]_vars
  BY StepPublishes
<1> QED BY <1>1, Invariant, PTL DEF Spec, PublishesWhatWasHandedOff

(* While a request holds the row, the only step that changes it is its own *)
(* commit.                                                                 *)
LEMMA HolderWritesAlone ==
  ASSUME IInv, [Next]_vars, NEW s \in Sessions, sess[s].pc = "applying", post' # post
  PROVE  ApplyCommit(s)
<1>1. Locked
  BY DEF Locked
<1>2. ~Statement
  BY <1>1 DEF Statement, Create, SaveBrief, DirectTransition, Reassign, ClaimNotification,
              UpdateRow
<1>3. ~Accounts
  BY <1>1 DEF Accounts, SetActive, PurgeProfile
<1>4. \A t \in Sessions : ~Reopen(t) /\ ~Delete(t) /\ ~WriteLink(t) /\ ~RequestLost(t)
  BY <1>1 DEF Reopen, ReopenRequest, ReopenApply, ReopenRefused, Delete, DeleteRequest,
              DeleteApply, WriteLink, LinkBegin, LinkCommit, RequestLost
<1>5. PICK t \in Sessions : ApplyCommit(t)
  BY <1>2, <1>3, <1>4
  DEF Next, vars, Transition, TransitionFetch, TransitionReadLinks, ApplyBegin, ApplyRefused
<1>6. t = s
  BY <1>5 DEF ApplyCommit, IInv, SessionInv, OneLockHolder
<1> QED BY <1>5, <1>6

LEMMA StepIsCurrent ==
  ASSUME IInv, [Next]_vars, NEW s \in Sessions, sess[s].pc = "applying", post' # post
  PROVE  /\ post.updated_at = sess[s].seen /\ post.status = sess[s].from
         /\ \A t \in Sessions : sess'[t].seen # post'.updated_at
<1>1. ApplyCommit(s)
  BY HolderWritesAlone
<1>2. post' # NoPost /\ post'.updated_at \in FreshTimes
  <2>1. \E new \in Row, by \in Contexts : RowWritten(new, by)
    <3> DEFINE new == Transitioned(sess[s])
               by  == TransitionContext(sess[s])
    <3>1. /\ post \in Row /\ sess[s] \in Request /\ StillAccepted(sess[s])
          /\ Store(new, by) /\ UNCHANGED links
      BY <1>1 DEF IInv, RowType, SessionType, SessionInv, LockProtectsDecision,
                  StillAccepted, ApplyCommit
    <3>2. /\ new \in Row /\ by \in Contexts
          /\ by.service /\ ~by.reopen /\ by.uid = sess[s].actor
      BY <3>1 DEF StillAccepted, TriggersAccept, Transitioned, MergedBrief, Row, Request, TransitionContext,
                  AsService, Contexts
    <3>3. RowWritten(new, by)
      BY <3>1, <3>2 DEF RowWritten, StillAccepted
    <3> QED BY <3>2, <3>3
  <2> QED BY <2>1, WrittenRow
<1>3. \A t \in Sessions : sess'[t] = Idle \/ sess'[t] = sess[t]
  BY <1>1 DEF ApplyCommit, IInv, SessionType
<1>4. \A t \in Sessions : sess'[t].seen # post'.updated_at
  BY <1>2, <1>3, IdleType, ValueAssumption DEF FreshTimes
<1> QED BY <1>4 DEF IInv, SessionInv, LockedVersion

(* A transition commits on the version it validated, and every other       *)
(* request is outdated by it.                                              *)
THEOREM NoLostUpdate == Spec => NoStaleCommit
<1>1. IInv /\ [Next]_vars =>
        [ \A s \in Sessions :
            sess[s].pc = "applying" /\ post' # post =>
              /\ post.updated_at = sess[s].seen /\ post.status = sess[s].from
              /\ \A t \in Sessions : sess'[t].seen # post'.updated_at ]_vars
  BY StepIsCurrent
<1> QED BY <1>1, Invariant, PTL DEF Spec, NoStaleCommit

-----------------------------------------------------------------------------
(* SocialPost implements EditorialContract *)

LEMMA InitRefines == Init => Contract!Init
BY NoLinkIsNotValid DEF Init, Contract!Init, HasValidLink

LEMMA WriteRefines ==
  ASSUME IInv, NEW new \in Row, NEW by \in Contexts, RowWritten(new, by)
  PROVE  Contract!Next
<1>1. /\ post \in Row /\ post # NoPost /\ post' # NoPost
      /\ post'.status = new.status /\ post'.brief = new.brief
      /\ new.status \in Statuses /\ post.status \in Statuses /\ new.brief \in Briefs
      /\ HasValidLink(links)' = HasValidLink(links)
  BY WrittenRow, BriefAssumption DEF RowWritten, Row, HasValidLink
<1>2. WorkflowAllows(post, new, by) /\ BriefLocked(post, new) /\ BriefSufficient(post, new)
      /\ PublicationProven(new)
  BY DEF RowWritten, TriggersAccept
<1>3. CASE post.status \notin ExecutionStages /\ new.status \notin ExecutionStages
  <2>1. post.status = "published" <=> new.status = "published"
    BY <1>2, <1>3, AcceptedMoves DEF ExecutionStages, WorkflowAllows, RollbackAllowed, ForwardMoves
  <2>2. Contract!Edit
    BY <1>1, <1>3, <2>1 DEF Contract!Edit
  <2> QED BY <2>2 DEF Contract!Next
<1>4. CASE post.status \notin ExecutionStages /\ new.status \in ExecutionStages
  <2>1. post.status = "creative_approved" /\ new.status = "ready_to_publish"
    BY <1>2, <1>4, AcceptedMoves DEF ExecutionStages
  <2>2. new.brief \in Complete
    BY <1>2, <2>1 DEF BriefSufficient
  <2>3. Contract!HandOff
    BY <1>1, <1>4, <2>1, <2>2 DEF Contract!HandOff
  <2> QED BY <2>3 DEF Contract!Next
<1>5. CASE post.status \in ExecutionStages /\ new.status = "published"
  <2>1. Contract!Publish
    BY <1>1, <1>2, <1>5
    DEF Contract!Publish, BriefLocked, PublicationProven, ExecutionStages
  <2> QED BY <2>1 DEF Contract!Next
<1>6. CASE post.status \in ExecutionStages /\ new.status \notin ExecutionStages \cup {"published"}
  <2>1. Contract!TakeBack
    BY <1>1, <1>2, <1>6 DEF Contract!TakeBack, BriefLocked, ExecutionStages
  <2> QED BY <2>1 DEF Contract!Next
<1>7. CASE post.status \in ExecutionStages /\ new.status \in ExecutionStages
  <2>1. Contract!CollectEvidence
    BY <1>1, <1>2, <1>7 DEF Contract!CollectEvidence, BriefLocked, ExecutionStages, HasValidLink
  <2> QED BY <2>1 DEF Contract!Next
<1> QED BY <1>3, <1>4, <1>5, <1>6, <1>7

LEMMA StepRefines ==
  ASSUME IInv, IInv', [Next]_vars
  PROVE  [Contract!Next]_(Contract!contract)
<1>0. /\ post \in Row \cup {NoPost} /\ HasValidLink(links) \in BOOLEAN
      /\ HasValidLink(links)' \in BOOLEAN
      /\ PublishedHasValidLink /\ PublishedHasValidLink'
      /\ NoOrphanLinks /\ NoOrphanLinks'
  BY DEF IInv, RowType, RowInv, HasValidLink
<1>1. CASE RowKept \/ RolesCleared
  <2>1. CASE post = NoPost
    BY <1>0, <1>1, <2>1
    DEF RowKept, RolesCleared, NoOrphanLinks, Contract!contract
  <2>2. CASE post # NoPost
    <3>1. /\ post' # NoPost /\ post'.status = post.status /\ post'.brief = post.brief
      BY <1>1, <2>2 DEF RowKept, RolesCleared
    <3>2. Contract!CollectEvidence
      BY <1>0, <2>2, <3>1 DEF Contract!CollectEvidence, PublishedHasValidLink, ExecutionStages
    <3> QED BY <3>2 DEF Contract!Next
  <2> QED BY <2>1, <2>2
<1>2. CASE RowCreated
  <2>1. Contract!Open
    BY <1>2 DEF RowCreated, Contract!Open, ExecutionStages, HasValidLink
  <2> QED BY <2>1 DEF Contract!Next
<1>3. CASE RowDeleted
  <2>1. Contract!Discard
    BY <1>3 DEF RowDeleted, Contract!Discard, HasValidLink
  <2> QED BY <2>1 DEF Contract!Next
<1>4. CASE \E new \in Row, by \in Contexts : RowWritten(new, by)
  BY <1>4, WriteRefines DEF Contract!Next
<1> QED BY <1>1, <1>2, <1>3, <1>4, StepShapes

(* Every behaviour of the rows, requests, locks and triggers is one the    *)
(* editorial contract allows.                                              *)
THEOREM ContractIsKept == Spec => KeepsContract
<1>1. IInv /\ IInv' /\ [Next]_vars => [Contract!Next]_(Contract!contract)
  BY StepRefines
<1> QED BY <1>1, InitRefines, Invariant, PTL DEF Spec, KeepsContract, Contract!Spec
=============================================================================
