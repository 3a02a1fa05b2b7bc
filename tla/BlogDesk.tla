------------------------------ MODULE BlogDesk ------------------------------
(***************************************************************************)
(* What the blog pipeline promises of one blog, as if it lay on a desk that*)
(* one person uses at a time: no requests, versions, triggers or           *)
(* transactions.  Whoever changes it sees it as it is, and makes only      *)
(* changes that this one person may make, all of them together: moves of   *)
(* the two lanes, people for them, and the start of publishing that a      *)
(* handoff brings with it.  Publishing is stamped when it completes, a     *)
(* stamp is not taken off by those who move the lanes, and what is left on *)
(* the desk is always sound.  Clerks, who are not users, may name other    *)
(* people and put the stamp right, and they move no lane.                  *)
(*                                                                         *)
(* The rules of the two lanes and of naming people are parameters: whether *)
(* user u may replace old with new.                                        *)
(***************************************************************************)
CONSTANTS
  Users, NoUser, WriterStatuses, PublisherStatuses,
  MayMoveWriter(_, _, _), MayMovePublisher(_, _, _), MayName(_, _, _)

VARIABLES
  desk,     \* the blog
  author    \* who used it last, NoUser for a clerk

state == <<desk, author>>

Desks == [writer: Users \cup {NoUser}, publisher: Users \cup {NoUser},
          writer_status: WriterStatuses, publisher_status: PublisherStatuses,
          stamped: BOOLEAN]

(* The lanes are in order, and a lane that somebody works on has somebody. *)
Sound(d) ==
  /\ d.publisher_status = "completed" => d.writer_status = "completed"
  /\ d.writer_status \in {"in_progress", "needs_revision", "completed"} => d.writer # NoUser
  /\ d.publisher_status \in {"in_progress", "completed"} => d.publisher # NoUser

(* Publishing starts with the completed writing, once, for its publisher.  *)
HandsOff(old, new) ==
  /\ old.publisher_status = "not_started" /\ new.publisher_status = "in_progress"
  /\ new.writer_status = "completed" /\ new.publisher # NoUser
  /\ old.writer_status # "completed" \/ new.publisher # old.publisher

SameStages(old, new) ==
  new.writer_status = old.writer_status /\ new.publisher_status = old.publisher_status

(* All that u changes is for u to change.                                  *)
Rightful(u, old, new) ==
  /\ MayName(u, old.writer, new.writer) /\ MayName(u, old.publisher, new.publisher)
  /\ MayMoveWriter(u, old.writer_status, new.writer_status)
  /\ \/ MayMovePublisher(u, old.publisher_status, new.publisher_status)
     \/ HandsOff(old, new)

Stamps(old, new) ==
  new.stamped = \/ old.stamped
                \/ new.publisher_status = "completed" /\ old.publisher_status # "completed"

Work(u) ==
  /\ author' = u
  /\ desk' \in Desks /\ Sound(desk')
  /\ Rightful(u, desk, desk') /\ Stamps(desk, desk')

Clerk ==
  /\ author' = NoUser
  /\ desk' \in Desks /\ Sound(desk')
  /\ SameStages(desk, desk')

(* A blog arrives new or published, never in between.                      *)
Init ==
  /\ desk \in Desks /\ Sound(desk) /\ author = NoUser
  /\ desk.writer_status = desk.publisher_status
  /\ desk.writer_status \in {"not_started", "completed"}
  /\ desk.stamped => desk.publisher_status = "completed"

Next == (\E u \in Users : Work(u)) \/ Clerk

Spec == Init /\ [][Next]_state
=============================================================================
