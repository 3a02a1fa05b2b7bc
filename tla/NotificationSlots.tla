-------------------------- MODULE NotificationSlots --------------------------
(***************************************************************************)
(* The sweeps that notify about social posts: live-link reminders          *)
(* (POST /api/social-posts/reminders) and overdue reviews and publications *)
(* (POST /api/social-posts/overdue-checks).                                *)
(*                                                                         *)
(* Any admin may start a sweep at any time, so several run at once.  A     *)
(* sweep takes the time once, when it starts; it reads the posts that are  *)
(* due, claims the notification slot of each with a conditional update and *)
(* only then notifies.  The model has one post; it keeps the three columns *)
(* that hold the time of the last notification, the status and updated_at. *)
(***************************************************************************)
EXTENDS Naturals

CONSTANTS
  Sweeps,     \* the sweeps that can run at the same time
  Cooldown,   \* REMINDER_COOLDOWN_MS, OVERDUE_COOLDOWN_MS
  Window,     \* OVERDUE_STALE_WINDOW_MS
  MaxRun,     \* how long the platform lets one request run
  MaxClock,   \* BOUND: the clock stops there
  Never,      \* the null of a slot
  NotDue      \* the slot is not among the rows a sweep works on

ASSUME TimeAssumption ==
  /\ Cooldown \in Nat /\ Window \in Nat /\ MaxRun \in Nat /\ MaxClock \in Nat
  /\ MaxRun < Cooldown

ASSUME NullAssumption == Never \notin Nat /\ NotDue \notin Nat /\ Never # NotDue

VARIABLES
  clock,
  row,        \* status and updated_at of the post
  last,       \* the three last_..._at columns
  claimedAt,  \* history variable: when each slot was really claimed
  sweep       \* the sweeps under way

vars == <<clock, row, last, claimedAt, sweep>>

-----------------------------------------------------------------------------
Slots == {"reminder", "review", "publish"}

OverdueSlots == {"review", "publish"}

(* The status each slot is about.                                          *)
StatusOf(s) == CASE s = "reminder" -> "awaiting_live_link"
                 [] s = "review"   -> "in_review"
                 [] s = "publish"  -> "ready_to_publish"

(* "elsewhere" is any other status, and a deleted post.                    *)
Stages == {"in_review", "ready_to_publish", "awaiting_live_link", "elsewhere"}

(* The workflow, seen through these statuses.                              *)
Moves == {<<"elsewhere", "in_review">>, <<"in_review", "elsewhere">>,
          <<"elsewhere", "ready_to_publish">>, <<"ready_to_publish", "elsewhere">>,
          <<"ready_to_publish", "awaiting_live_link">>,
          <<"awaiting_live_link", "elsewhere">>}

Stamp == Nat \cup {Never}

Sweep == [pc: {"idle", "reading", "claiming", "notifying"}, slot: Slots,
          now: Nat, seen: [Slots -> Stamp \cup {NotDue}]]

NothingSeen == [s \in Slots |-> NotDue]

Idle == [pc |-> "idle", slot |-> "reminder", now |-> 0, seen |-> NothingSeen]

Cooled(stamp, now) == stamp = Never \/ stamp + Cooldown <= now

(* The definitions named Fault_ are seeded faults, kept to show that the    *)
(* properties notice them.                                                 *)

(* Due when read: the query's conditions and the cooldown check.           *)
Due(s, now) ==
  /\ row.status = StatusOf(s)
  /\ s \in OverdueSlots => row.updated_at + Window <= now
  /\ Cooled(last[s], now)

-----------------------------------------------------------------------------
(* The post is edited or moved on, whatever the sweeps do.                 *)
Work(status) ==
  /\ status = row.status \/ <<row.status, status>> \in Moves
  /\ row' = [status |-> status, updated_at |-> clock]
  /\ UNCHANGED <<clock, last, claimedAt, sweep>>

(* The overdue sweep reads the reviews first.                              *)
Start(j) ==
  /\ sweep[j].pc = "idle"
  /\ \E first \in {"reminder", "review"} :
       sweep' = [sweep EXCEPT ![j] = [Idle EXCEPT !.pc = "reading", !.now = clock,
                                                  !.slot = first]]
  /\ UNCHANGED <<clock, row, last, claimedAt>>

(* One query.  The scheduled date that a publication also waits for is not *)
(* in the model: a row may be passed over for it.                          *)
Read(j) ==
  /\ sweep[j].pc = "reading"
  /\ LET s == sweep[j].slot IN
     \E value \in (IF Due(s, sweep[j].now) THEN {last[s]} ELSE {NotDue})
                  \cup (IF s = "publish" THEN {NotDue} ELSE {}) :
       sweep' = [sweep EXCEPT ![j] =
         [@ EXCEPT !.seen[s] = value,
                   !.pc = IF s = "review" THEN "reading" ELSE "claiming",
                   !.slot = CASE s = "reminder" -> "reminder"
                              [] s = "review"   -> "publish"
                              [] s = "publish"  -> "review"]]
  /\ UNCHANGED <<clock, row, last, claimedAt>>

Fault_SlotForgotten(j) ==
  sweep' = [sweep EXCEPT
    ![j] = IF @.slot = "review"
           THEN [@ EXCEPT !.pc = "claiming", !.slot = "publish",
                          !.seen["review"] = NotDue]
           ELSE [Idle EXCEPT !.slot = NotDue]]

(* A sweep has finished with a slot: reviews are followed by publications. *)
Advance(j) ==
  sweep' = [sweep EXCEPT
    ![j] = IF @.slot = "review"
           THEN [@ EXCEPT !.pc = "claiming", !.slot = "publish",
                          !.seen["review"] = NotDue]
           ELSE Idle]

Fault_UnconditionalClaim(j) ==
  /\ sweep[j].seen[sweep[j].slot] # NotDue
  /\ row.status = StatusOf(sweep[j].slot)

(* The conditions of the claiming UPDATE: the status, and the slot as read.*)
ClaimMatches(j) ==
  LET s == sweep[j].slot IN
  /\ sweep[j].seen[s] # NotDue
  /\ row.status = StatusOf(s)
  /\ last[s] = sweep[j].seen[s]

Fault_ClaimUntouched(j) ==
  /\ sweep[j].pc = "claiming" /\ ClaimMatches(j)
  /\ last' = [last EXCEPT ![sweep[j].slot] = sweep[j].now]
  /\ claimedAt' = [claimedAt EXCEPT ![sweep[j].slot] = clock]
  /\ sweep' = [sweep EXCEPT ![j].pc = "notifying"]
  /\ UNCHANGED <<clock, row>>

(* The claim stamps the slot with the time the sweep began, and the        *)
(* trigger sets updated_at to the time of the write.                       *)
Claim(j) ==
  /\ sweep[j].pc = "claiming" /\ ClaimMatches(j)
  /\ last' = [last EXCEPT ![sweep[j].slot] = sweep[j].now]
  /\ claimedAt' = [claimedAt EXCEPT ![sweep[j].slot] = clock]
  /\ row' = [row EXCEPT !.updated_at = clock]
  /\ sweep' = [sweep EXCEPT ![j].pc = "notifying"]
  /\ UNCHANGED clock

(* Nothing due, nothing matched, or an error: the sweep goes on.           *)
Skip(j) ==
  /\ sweep[j].pc = "claiming"
  /\ Advance(j)
  /\ UNCHANGED <<clock, row, last, claimedAt>>

(* The event and the Slack message are sent, or are lost.                  *)
Notify(j) ==
  /\ sweep[j].pc = "notifying"
  /\ Advance(j)
  /\ UNCHANGED <<clock, row, last, claimedAt>>

(* The request dies between any two statements.                            *)
Die(j) ==
  /\ sweep[j].pc # "idle"
  /\ sweep' = [sweep EXCEPT ![j] = Idle]
  /\ UNCHANGED <<clock, row, last, claimedAt>>

(* Time passes; a request that has used up its time is stopped first.      *)
Tick ==
  /\ clock < MaxClock
  /\ \A j \in Sweeps : sweep[j].pc # "idle" => clock < sweep[j].now + MaxRun
  /\ clock' = clock + 1
  /\ UNCHANGED <<row, last, claimedAt, sweep>>

-----------------------------------------------------------------------------
Init ==
  /\ clock = 0
  /\ row = [status |-> "elsewhere", updated_at |-> 0]
  /\ last = [s \in Slots |-> Never]
  /\ claimedAt = [s \in Slots |-> Never]
  /\ sweep = [j \in Sweeps |-> Idle]

Next ==
  \/ \E status \in Stages : Work(status)
  \/ \E j \in Sweeps : Start(j) \/ Read(j) \/ Claim(j) \/ Skip(j) \/ Notify(j) \/ Die(j)
  \/ Tick

Spec == Init /\ [][Next]_vars

-----------------------------------------------------------------------------
(* Properties *)

(* Every variable has its type.                                            *)
TypeOK ==
  /\ clock \in Nat
  /\ row \in [status: Stages, updated_at: Nat]
  /\ last \in [Slots -> Stamp] /\ claimedAt \in [Slots -> Stamp]
  /\ sweep \in [Sweeps -> Sweep]

(* No two sweeps are notifying about the same slot at the same time: a slot*)
(* that is claimed stays claimed for as long as the request can live.      *)
OneNotice ==
  \A i, j \in Sweeps :
    sweep[i].pc = "notifying" /\ sweep[j].pc = "notifying"
    /\ sweep[i].slot = sweep[j].slot => i = j

(* The stamps of a slot only grow, by a whole cooldown at a time, although *)
(* sweeps write the time they began and overtake each other.               *)
StampsSpaced ==
  [][ \A s \in Slots : last'[s] # last[s] =>
        Cooled(last[s], last'[s]) ]_vars

(* How far apart a slot is really claimed.  An overdue slot: a whole window*)
(* because the claim itself makes the post look fresh.  A reminder, whose  *)
(* query does not look at updated_at: a cooldown less the run of a sweep.  *)
ClaimsSpaced ==
  [][ \A j \in Sweeps, s \in Slots :
        sweep[j].pc = "claiming" /\ sweep'[j].pc = "notifying" /\ sweep[j].slot = s
        /\ claimedAt[s] # Never =>
          IF s \in OverdueSlots THEN clock >= claimedAt[s] + Window
          ELSE clock + MaxRun >= claimedAt[s] + Cooldown ]_vars
=============================================================================
