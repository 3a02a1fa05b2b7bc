------------------------- MODULE BlogWorkflowProofs -------------------------
(***************************************************************************)
(* What BlogWorkflow promises, for any users, permissions and number of    *)
(* transition requests.                                                    *)
(*                                                                         *)
(* Two arguments.  The first is about versions: a version is never used    *)
(* twice while somebody remembers it, so a request whose version matches   *)
(* has read the row it replaces, and what it decided on that row holds;    *)
(* a statement that waits to commit holds the lock, so it replaces the row *)
(* it was made of.  Therefore every change of the row is one that its      *)
(* author may make from the row as it is: the blog is a desk (BlogDesk),   *)
(* and what holds of every desk holds of it.                               *)
(* The second is about review tasks: an admin who was never deactivated    *)
(* has no reassigned task, so ON CONFLICT DO NOTHING can only skip a       *)
(* pending one.                                                            *)
(***************************************************************************)
EXTENDS BlogWorkflow, TLAPS

(* The row old becomes new by the hand of u, the stamp included.           *)
Righted(u, old, new) == Desk!Rightful(u, old, new) /\ Desk!Stamps(old, new)

(* What a request has decided about the row it has read.                   *)
Decided(r) ==
  /\ Desk!Rightful(r.actor, r.read, Patched(r.read, r.patch))
  /\ r.patch.publisher_status = Keep => ~ShouldAutoJog(r.read, r.patch)

InReview(type, row) ==
  IF type = "writer_review" THEN row.writer_status = "pending_review"
  ELSE InPublisherReview(row)

VersionsAreFresh ==
  txn # None =>
    /\ txn.row.updated_at # blog.updated_at
    /\ \A s \in Sessions : req[s] # None => req[s].read.updated_at # txn.row.updated_at

RowsAreSound ==
  /\ Consistent(blog)
  /\ txn # None => /\ Consistent(txn.row)
                   /\ txn.author \in Users /\ Righted(txn.author, blog, txn.row)
                   /\ ~Desk!SameStages(blog, txn.row)
  /\ \A s \in Sessions : req[s] # None => Decided(req[s])

TasksAreSound ==
  \A a \in steady :
    /\ active[a]
    /\ \A type \in TaskTypes :
         /\ task[<<a, type>>] # "reassigned"
         /\ InReview(type, blog) => task[<<a, type>>] = "pending"
         /\ txn # None /\ InReview(type, txn.row) =>
              task[<<a, type>>] = "pending" \/ <<a, type>> \in txn.tasks

IInv == TypeOK /\ VersionNamesRow /\ VersionsAreFresh /\ RowsAreSound /\ TasksAreSound

-----------------------------------------------------------------------------
(* The operators that build a row *)

LEMMA PatchedFits ==
  ASSUME NEW row \in Row, NEW p \in Patch
  PROVE  /\ Patched(row, p) \in Row
         /\ Patched(row, p) = [row EXCEPT !.writer = Given(p.writer, @),
              !.publisher = Given(p.publisher, @),
              !.writer_status = Given(p.writer_status, @),
              !.publisher_status = Given(p.publisher_status, @)]
<1>1. /\ Given(p.writer, row.writer) \in UserOrNull
      /\ Given(p.publisher, row.publisher) \in UserOrNull
      /\ Given(p.writer_status, row.writer_status) \in WriterStatuses
      /\ Given(p.publisher_status, row.publisher_status) \in PublisherStatuses
  BY DEF Given, Row, Patch
<1> QED BY <1>1 DEF Patched, Row

LEMMA StampedFits ==
  ASSUME NEW old \in Row, NEW new \in Row
  PROVE  /\ Stamped(old, new) \in Row
         /\ Stamped(old, new).writer = new.writer
         /\ Stamped(old, new).publisher = new.publisher
         /\ Stamped(old, new).writer_status = new.writer_status
         /\ Stamped(old, new).publisher_status = new.publisher_status
  BY DEF Stamped, Row

LEMMA TouchedFits ==
  ASSUME NEW row \in Row, NEW t \in Times
  PROVE  /\ Touched(row, t) \in Row /\ Touched(row, t).updated_at = t
         /\ Touched(row, t).writer = row.writer
         /\ Touched(row, t).publisher = row.publisher
         /\ Touched(row, t).writer_status = row.writer_status
         /\ Touched(row, t).publisher_status = row.publisher_status
  BY DEF Touched, Row

LEMMA PayloadsFit == Payloads \subseteq Patch
<1>1. ASSUME NEW p \in Payloads
      PROVE  p \in [writer: Assignees \cup {NoUser, Keep}, publisher: Assignees \cup {NoUser, Keep},
                    writer_status: WriterMoves \cup {Keep},
                    publisher_status: PublisherMoves \cup {Keep}]
  BY <1>1 DEF Payloads
<1>2. /\ Assignees \cup {NoUser, Keep} \subseteq UserOrNull \cup {Keep}
      /\ WriterMoves \subseteq WriterStatuses /\ PublisherMoves \subseteq PublisherStatuses
  BY UserAssumption, MoveAssumption DEF UserOrNull
<1> QED BY <1>1, <1>2 DEF Patch

LEMMA JoggedFits ==
  ASSUME NEW row \in Row, NEW p \in Patch
  PROVE  Jogged(row, p) \in Patch
  BY DEF Jogged, Patch, PublisherStatuses


(* The rules look at what lies on the desk, not at the version.            *)
Alike(a, b) ==
  /\ a.writer = b.writer /\ a.publisher = b.publisher
  /\ a.writer_status = b.writer_status /\ a.publisher_status = b.publisher_status

LEMMA RightfulAlike ==
  ASSUME NEW u, NEW old, NEW a, NEW b, Desk!Rightful(u, old, a), Alike(a, b)
  PROVE  Desk!Rightful(u, old, b)
BY DEF Desk!Rightful, Desk!HandsOff, Alike

LEMMA ConsistentAlike ==
  ASSUME NEW a, NEW b, Consistent(a), Alike(a, b)
  PROVE  Consistent(b)
BY DEF Consistent, Alike

(* What the trigger stamps is what the desk stamps.                        *)
LEMMA StampedIsRighted ==
  ASSUME NEW u, NEW old \in Row, NEW next \in Row, Desk!Rightful(u, old, next),
         next.stamped = old.stamped
  PROVE  Stamped(old, next) \in Row /\ Righted(u, old, Stamped(old, next))
<1>1. Stamped(old, next) \in Row /\ Alike(next, Stamped(old, next))
  BY StampedFits DEF Alike
<1>2. Desk!Stamps(old, Stamped(old, next))
  BY DEF Desk!Stamps, Stamped, Row
<1> QED BY <1>1, <1>2, RightfulAlike DEF Righted

-----------------------------------------------------------------------------
(* The moves a transition request decides on                               *)
LEMMA ReadDecides ==
  ASSUME NEW u \in Users, NEW row \in Row, NEW p \in Patch, TransitionAllowed(u, row, p)
  PROVE  Decided([actor |-> u, read |-> row, patch |-> Jogged(row, p)])
<1> DEFINE j == Jogged(row, p)  next == Patched(row, j)
<1>1. /\ j \in Patch /\ j.writer = p.writer /\ j.publisher = p.publisher
      /\ j.writer_status = p.writer_status
      /\ j.publisher_status =
           IF ShouldAutoJog(row, p) THEN "in_progress" ELSE p.publisher_status
  BY JoggedFits DEF Jogged, Patch
<1>2. /\ next.writer = Given(p.writer, row.writer)
      /\ next.publisher = Given(p.publisher, row.publisher)
      /\ next.writer_status = Given(p.writer_status, row.writer_status)
      /\ next.publisher_status = Given(j.publisher_status, row.publisher_status)
  <2>1. next = [row EXCEPT !.writer = Given(j.writer, @),
              !.publisher = Given(j.publisher, @),
              !.writer_status = Given(j.writer_status, @),
              !.publisher_status = Given(j.publisher_status, @)]
    BY <1>1, PatchedFits
  <2> QED BY <2>1, <1>1 DEF Row
<1>3. /\ MayName(u, row.writer, next.writer) /\ MayName(u, row.publisher, next.publisher)
      /\ MayMoveWriter(u, row.writer_status, next.writer_status)
  BY <1>2 DEF TransitionAllowed, Given, MayName, MayMoveWriter
<1>4. CASE ShouldAutoJog(row, p)
  <2>1. j.publisher_status = "in_progress" /\ "in_progress" # Keep
    BY <1>1, <1>4, MoveAssumption DEF PublisherStatuses
  <2>2. /\ Patched(row, p).writer_status = Given(p.writer_status, row.writer_status)
        /\ Patched(row, p).publisher = Given(p.publisher, row.publisher)
    BY PatchedFits DEF Row
  <2>3. /\ row.publisher_status = "not_started"
        /\ next.writer_status = "completed" /\ next.publisher # NoUser
        /\ row.writer_status # "completed" \/ next.publisher # row.publisher
    BY <1>2, <1>4, <2>2 DEF ShouldAutoJog
  <2>4. Desk!HandsOff(row, next)
    BY <2>1, <2>3, <1>2 DEF Desk!HandsOff, Given
  <2> QED BY <2>1, <2>4, <1>3 DEF Decided, Desk!Rightful
<1>5. CASE ~ShouldAutoJog(row, p)
  <2>1. j = p
    BY <1>5 DEF Jogged
  <2>2. MayMovePublisher(u, row.publisher_status, next.publisher_status)
    BY <2>1, <1>2 DEF TransitionAllowed, Given, MayMovePublisher
  <2> QED BY <2>1, <2>2, <1>3, <1>5 DEF Decided, Desk!Rightful
<1> QED BY <1>4, <1>5

-----------------------------------------------------------------------------
(* Tasks: entering a review asks every steady admin.                       *)
LEMMA SteadyAreAsked ==
  ASSUME IInv, NEW new \in Row, NEW a \in steady, NEW type \in TaskTypes,
         InReview(type, new)
  PROVE  \/ task[<<a, type>>] = "pending"
         \/ <<a, type>> \in HandedOut(blog, new)
<1>1. a \in Admins /\ active[a] /\ <<a, type>> \in Admins \X TaskTypes
  BY DEF IInv, TypeOK, TasksAreSound
<1>2. task[<<a, type>>] \in {"none", "pending"}
  BY <1>1 DEF IInv, TypeOK, TasksAreSound, TaskStates
<1>3. InReview(type, blog) => task[<<a, type>>] = "pending"
  BY DEF IInv, TasksAreSound
<1>4. ~InReview(type, blog) => EntersReview(type, blog, new)
  BY DEF InReview, EntersReview
<1>5. EntersReview(type, blog, new) /\ task[<<a, type>>] = "none"
        => <<a, type>> \in HandedOut(blog, new)
  BY <1>1 DEF HandedOut
<1> QED BY <1>2, <1>3, <1>4, <1>5

LEMMA NoneEnters ==
  ASSUME NEW old, NEW new, NEW type \in TaskTypes, ~EntersReview(type, old, new),
         InReview(type, new)
  PROVE  InReview(type, old)
BY DEF EntersReview, InReview

-----------------------------------------------------------------------------
(* The desk that the row stands for *)

Stuttering == UNCHANGED <<blog, author>>
DeskStep == Desk!Next \/ Stuttering

LEMMA WorkOnDesk ==
  ASSUME NEW u \in Users, blog' \in Row, Consistent(blog'), Righted(u, blog, blog'),
         author' = u
  PROVE  DeskStep
<1>1. Desk!Work(u)
  BY DEF Desk!Work, Desk!Desks, Desk!Sound, Desk!Rightful, Desk!Stamps, Desk!HandsOff,
         Desk!SameStages, Righted, Consistent, Row, UserOrNull
<1> QED BY <1>1 DEF Desk!Next, DeskStep

LEMMA ClerkAtDesk ==
  ASSUME blog' \in Row, Consistent(blog'), Desk!SameStages(blog, blog'), author' = NoUser
  PROVE  DeskStep
<1>1. Desk!Clerk
  BY DEF Desk!Clerk, Desk!Desks, Desk!Sound, Desk!SameStages, Consistent, Row, UserOrNull
<1> QED BY <1>1 DEF Desk!Next, DeskStep

(* Any statement that writes a row it may write keeps the invariant; the   *)
(* requests in flight stay as they are, or one of them ends.               *)
LEMMA UpdateKeepsInv ==
  ASSUME IInv, NEW u \in UserOrNull, NEW new \in Row, Update(u, new),
         \/ u \in Users /\ Righted(u, blog, new)
         \/ u = NoUser /\ Desk!SameStages(blog, new),
         req' \in [Sessions -> Request \cup {None}],
         \A s \in Sessions : req'[s] # None => req'[s] = req[s],
         UNCHANGED <<active, steady, task>>
  PROVE  IInv' /\ DeskStep
<1>1. PICK t \in FreshTimes :
        IF \E type \in TaskTypes : EntersReview(type, blog, new)
        THEN /\ txn' = [row |-> Touched(new, t), author |-> u, tasks |-> HandedOut(blog, new)]
             /\ UNCHANGED <<blog, author>>
        ELSE blog' = Touched(new, t) /\ author' = u /\ UNCHANGED txn
  BY DEF Update
<1>2. txn = None /\ Consistent(new)
  BY DEF Update
<1>3. /\ t \in Times /\ t # blog.updated_at
      /\ \A s \in Sessions : req[s] # None => req[s].read.updated_at # t
  BY <1>1 DEF FreshTimes
<1>4. /\ Touched(new, t) \in Row /\ Touched(new, t).updated_at = t
      /\ Alike(new, Touched(new, t)) /\ Touched(new, t).stamped = new.stamped
  BY <1>3, TouchedFits DEF Alike, Touched, Row
<1>5. Consistent(Touched(new, t))
  BY <1>2, <1>4, ConsistentAlike
<1>7. \/ u \in Users /\ Righted(u, blog, Touched(new, t))
      \/ u = NoUser /\ Desk!SameStages(blog, Touched(new, t))
  <2>1. Righted(u, blog, new) => Righted(u, blog, Touched(new, t))
    BY <1>4, RightfulAlike DEF Righted, Desk!Stamps, Alike
  <2>2. Desk!SameStages(blog, new) => Desk!SameStages(blog, Touched(new, t))
    BY <1>4 DEF Desk!SameStages, Alike
  <2> QED BY <2>1, <2>2
<1>8. \A type \in TaskTypes : InReview(type, Touched(new, t)) <=> InReview(type, new)
  BY <1>4 DEF InReview, InPublisherReview, Alike
<1>9. \A s \in Sessions : req'[s] # None => Decided(req'[s])
  BY DEF IInv, RowsAreSound
<1>10. CASE \E type \in TaskTypes : EntersReview(type, blog, new)
  <2>1. /\ txn' = [row |-> Touched(new, t), author |-> u, tasks |-> HandedOut(blog, new)]
        /\ UNCHANGED <<blog, author>>
    BY <1>1, <1>10
  <2>2. txn' \in Transaction
    BY <2>1, <1>4 DEF Transaction, HandedOut
  <2>3. TypeOK'
    BY <2>1, <2>2 DEF IInv, TypeOK
  <2>4. VersionNamesRow' /\ VersionsAreFresh'
    BY <2>1, <1>3, <1>4 DEF IInv, VersionNamesRow, VersionsAreFresh
  <2>5. RowsAreSound'
    <3>1. ~Desk!SameStages(blog, Touched(new, t))
      BY <1>4, <1>10 DEF Desk!SameStages, EntersReview, InPublisherReview, Alike
    <3>2. u \in Users /\ Righted(u, blog, Touched(new, t))
      BY <3>1, <1>7
    <3>3. /\ txn'.row = Touched(new, t) /\ txn'.author = u /\ blog' = blog
      BY <2>1
    <3>4. /\ Consistent(txn'.row) /\ txn'.author \in Users
          /\ Righted(txn'.author, blog', txn'.row) /\ ~Desk!SameStages(blog', txn'.row)
      BY <3>1, <3>2, <3>3, <1>5
    <3>5. Consistent(blog')
      BY <3>3 DEF IInv, RowsAreSound
    <3> QED BY <3>4, <3>5, <1>9 DEF RowsAreSound, Consistent, Righted, Desk!Rightful, Desk!Stamps,
            Desk!SameStages, Desk!HandsOff
  <2>6. TasksAreSound'
    BY <2>1, <1>4, <1>8, SteadyAreAsked DEF IInv, TasksAreSound, InReview, InPublisherReview
  <2> QED BY <2>1, <2>3, <2>4, <2>5, <2>6 DEF IInv, DeskStep, Stuttering
<1>11. CASE ~ \E type \in TaskTypes : EntersReview(type, blog, new)
  <2>1. blog' = Touched(new, t) /\ author' = u /\ txn' = None
    BY <1>1, <1>2, <1>11
  <2>2. TypeOK'
    BY <2>1, <1>4 DEF IInv, TypeOK
  <2>3. VersionNamesRow' /\ VersionsAreFresh'
    BY <2>1, <1>3, <1>4 DEF VersionNamesRow, VersionsAreFresh
  <2>4. RowsAreSound'
    BY <2>1, <1>5, <1>9 DEF RowsAreSound, Consistent
  <2>5. \A a \in steady, type \in TaskTypes :
          InReview(type, new) => task[<<a, type>>] = "pending"
    BY <1>11, NoneEnters DEF IInv, TasksAreSound
  <2>6. TasksAreSound'
    BY <2>1, <2>5, <1>8 DEF IInv, TasksAreSound, InReview, InPublisherReview
  <2>7. DeskStep
    <3>1. blog' \in Row /\ Consistent(blog')
      BY <2>1, <1>4, <1>5
    <3>2. \/ u \in Users /\ Righted(u, blog, blog')
          \/ u = NoUser /\ Desk!SameStages(blog, blog')
      BY <2>1, <1>7
    <3> QED BY <2>1, <3>1, <3>2, WorkOnDesk, ClerkAtDesk
  <2> QED BY <2>2, <2>3, <2>4, <2>6, <2>7 DEF IInv
<1> QED BY <1>10, <1>11

-----------------------------------------------------------------------------
(* The steps *)

LEMMA InitEstablishesInv == ASSUME Init PROVE IInv
<1>1. blog \in Row /\ Consistent(blog)
  BY UserAssumption DEF Init, Row, UserOrNull, WriterStatuses, PublisherStatuses
<1>2. TypeOK
  BY <1>1 DEF Init, TypeOK, UserOrNull, TaskStates
<1>3. VersionNamesRow /\ VersionsAreFresh /\ RowsAreSound
  BY <1>1 DEF Init, VersionNamesRow, VersionsAreFresh, RowsAreSound
<1>4. \A type \in TaskTypes : ~InReview(type, blog)
  BY DEF Init, InReview, InPublisherReview
<1>5. TasksAreSound
  BY <1>4, UserAssumption DEF Init, TasksAreSound
<1> QED BY <1>2, <1>3, <1>5 DEF IInv

LEMMA ReadStep ==
  ASSUME IInv, NEW s \in Sessions, NEW u \in Users, NEW p \in Payloads, TransitionRead(s, u, p)
  PROVE  IInv' /\ Stuttering
<1> DEFINE r == [actor |-> u, read |-> blog, patch |-> Jogged(blog, p)]
<1>1. p \in Patch /\ blog \in Row
  BY PayloadsFit DEF IInv, TypeOK
<1>2. r \in Request /\ r.read = blog /\ Decided(r)
  BY <1>1, JoggedFits, ReadDecides DEF TransitionRead, Request
<1> HIDE DEF r
<1>3. /\ req' = [req EXCEPT ![s] = r]
      /\ UNCHANGED <<blog, author, txn, active, steady, task>>
  BY DEF TransitionRead, r
<1>4. \A q \in Sessions : req'[q] = IF q = s THEN r ELSE req[q]
  BY <1>3 DEF IInv, TypeOK
<1>5. TypeOK'
  BY <1>2, <1>3 DEF IInv, TypeOK
<1>6. VersionNamesRow' /\ VersionsAreFresh'
  BY <1>2, <1>3, <1>4 DEF IInv, VersionNamesRow, VersionsAreFresh
<1>7. RowsAreSound'
  <2>1. \A q \in Sessions : req'[q] # None => Decided(req'[q])
    BY <1>2, <1>4 DEF IInv, RowsAreSound
  <2> QED BY <2>1, <1>3 DEF IInv, RowsAreSound, Consistent
<1>8. TasksAreSound'
  BY <1>3 DEF IInv, TasksAreSound, InReview, InPublisherReview
<1> QED BY <1>3, <1>5, <1>6, <1>7, <1>8 DEF IInv, Stuttering

(* The version check: the request writes over the row it has read.         *)
LEMMA WriteStep ==
  ASSUME IInv, NEW s \in Sessions, TransitionWrite(s)
  PROVE  IInv' /\ DeskStep
<1> DEFINE r == req[s]  next == Patched(blog, r.patch)  new == Stamped(blog, next)
<1>1. /\ r # None /\ r \in Request /\ r.read = blog /\ Decided(r)
      /\ r.actor \in Users /\ r.actor \in UserOrNull /\ r.patch \in Patch /\ blog \in Row
  BY DEF TransitionWrite, IInv, TypeOK, VersionNamesRow, RowsAreSound, Request, UserOrNull
<1>2. next \in Row /\ Desk!Rightful(r.actor, blog, next) /\ next.stamped = blog.stamped
  BY <1>1, PatchedFits DEF Decided, Patched, Row
<1> HIDE DEF next
<1>3. new \in Row /\ Righted(r.actor, blog, new)
  BY <1>1, <1>2, StampedIsRighted
<1>4. Update(r.actor, new) /\ req' = [req EXCEPT ![s] = None] /\ UNCHANGED <<active, steady, task>>
  BY DEF TransitionWrite, next
<1>5. req' \in [Sessions -> Request \cup {None}] /\ \A q \in Sessions : req'[q] # None => req'[q] = req[q]
  BY <1>4 DEF IInv, TypeOK
<1> HIDE DEF new, r
<1> QED BY <1>1, <1>3, <1>4, <1>5, UpdateKeepsInv

LEMMA ClientStep ==
  ASSUME IInv, NEW u \in Users, NEW p \in Payloads, ClientWrite(u, p)
  PROVE  IInv' /\ DeskStep
<1> DEFINE next == Patched(blog, p)  new == Stamped(blog, next)
<1>1. p \in Patch /\ blog \in Row /\ u \in UserOrNull
  BY PayloadsFit DEF IInv, TypeOK, UserOrNull
<1>2. next \in Row /\ next.stamped = blog.stamped
  BY <1>1, PatchedFits DEF Patched, Row
<1>3. UpdatePermitted(u, blog, new) /\ Update(u, new) /\ UNCHANGED <<req, active, steady, task>>
  BY DEF ClientWrite
<1>4. Alike(new, next) /\ new \in Row
  BY <1>1, <1>2, StampedFits DEF Alike
<1> HIDE DEF next
<1>5. Desk!Rightful(u, blog, next)
  BY <1>3, <1>4 DEF UpdatePermitted, MayName, MayMoveWriter, MayMovePublisher, Desk!Rightful, Alike
<1>6. Righted(u, blog, new)
  BY <1>1, <1>2, <1>5, StampedIsRighted
<1> HIDE DEF new
<1> QED BY <1>1, <1>3, <1>4, <1>6, UpdateKeepsInv DEF IInv, TypeOK

LEMMA ServiceStep ==
  ASSUME IInv,
         \/ ServiceTouch
         \/ \E w, p \in Assignees, st \in BOOLEAN : ImportKnown(w, p, st)
  PROVE  IInv' /\ DeskStep
<1>1. PICK new \in Row :
        /\ new.writer_status = blog.writer_status
        /\ new.publisher_status = blog.publisher_status
        /\ Update(NoUser, new) /\ UNCHANGED <<req, active, steady, task>>
  <2>1. CASE ServiceTouch
    BY <2>1 DEF ServiceTouch, IInv, TypeOK
  <2>2. ASSUME NEW w \in Assignees, NEW p \in Assignees, NEW st \in BOOLEAN, ImportKnown(w, p, st)
        PROVE  \E new \in Row :
                 /\ new.writer_status = blog.writer_status
                 /\ new.publisher_status = blog.publisher_status
                 /\ Update(NoUser, new) /\ UNCHANGED <<req, active, steady, task>>
    <3> DEFINE new == [blog EXCEPT !.writer = w, !.publisher = p, !.stamped = st]
    <3>1. /\ new \in Row /\ new.writer_status = blog.writer_status
          /\ new.publisher_status = blog.publisher_status
      BY UserAssumption DEF IInv, TypeOK, Row, UserOrNull
    <3>2. Update(NoUser, new) /\ UNCHANGED <<req, active, steady, task>>
      BY <2>2 DEF ImportKnown
    <3> HIDE DEF new
    <3> QED BY <3>1, <3>2
  <2> QED BY <2>1, <2>2
<1>2. Desk!SameStages(blog, new)
  BY <1>1 DEF Desk!SameStages
<1> QED BY <1>1, <1>2, UpdateKeepsInv DEF IInv, TypeOK, UserOrNull

LEMMA CommitStep ==
  ASSUME IInv, CommitUpdate
  PROVE  IInv' /\ DeskStep
<1>1. /\ txn # None /\ txn \in Transaction /\ blog' = txn.row /\ author' = txn.author /\ txn' = None
      /\ task' = [a \in Admins \X TaskTypes |-> IF a \in txn.tasks THEN "pending" ELSE task[a]]
      /\ UNCHANGED <<req, active, steady>>
  BY DEF CommitUpdate, IInv, TypeOK
<1>2. TypeOK'
  BY <1>1 DEF IInv, TypeOK, Transaction, TaskStates
<1>3. VersionNamesRow' /\ VersionsAreFresh'
  BY <1>1 DEF IInv, VersionNamesRow, VersionsAreFresh
<1>4. RowsAreSound'
  BY <1>1 DEF IInv, RowsAreSound, Consistent
<1>5. DeskStep
  <2>1. /\ txn.row \in Row /\ Consistent(txn.row) /\ txn.author \in Users
        /\ Righted(txn.author, blog, txn.row) /\ ~Desk!SameStages(blog, txn.row)
    BY <1>1 DEF IInv, RowsAreSound, Transaction
  <2> QED BY <1>1, <2>1, WorkOnDesk
<1>6. ASSUME NEW a \in steady, NEW type \in TaskTypes
      PROVE  /\ task'[<<a, type>>] # "reassigned"
             /\ InReview(type, txn.row) => task'[<<a, type>>] = "pending"
  <2>1. <<a, type>> \in Admins \X TaskTypes
    BY DEF IInv, TypeOK
  <2>2. task'[<<a, type>>] = IF <<a, type>> \in txn.tasks THEN "pending" ELSE task[<<a, type>>]
    BY <1>1, <2>1
  <2> QED BY <2>2, <1>1 DEF IInv, TasksAreSound
<1>7. TasksAreSound'
  <2>1. \A a \in steady : active'[a]
    BY <1>1 DEF IInv, TasksAreSound
  <2>2. \A a \in steady, type \in TaskTypes :
          task'[<<a, type>>] # "reassigned"
    BY <1>6
  <2>3. \A a \in steady, type \in TaskTypes :
          InReview(type, blog') => task'[<<a, type>>] = "pending"
    BY <1>1, <1>6
  <2> QED BY <1>1, <2>1, <2>2, <2>3 DEF TasksAreSound, InReview, InPublisherReview
<1> QED BY <1>2, <1>3, <1>4, <1>5, <1>7 DEF IInv

(* What leaves the row alone: a failed request, an aborted statement, and  *)
(* the switch of a profile.                                                *)
LEMMA QuietStep ==
  ASSUME IInv,
         \/ \E s \in Sessions : TransitionFail(s)
         \/ AbortUpdate
         \/ \E u \in Churn : Deactivate(u) \/ Reactivate(u)
         \/ UNCHANGED vars
  PROVE  IInv' /\ Stuttering
<1>1. CASE \E s \in Sessions : TransitionFail(s)
  <2>1. PICK s \in Sessions : TransitionFail(s)
    BY <1>1
  <2>2. /\ req' = [req EXCEPT ![s] = None]
        /\ UNCHANGED <<blog, author, txn, active, steady, task>>
    BY <2>1 DEF TransitionFail
  <2>3. TypeOK' /\ \A q \in Sessions : req'[q] # None => req'[q] = req[q]
    BY <2>2 DEF IInv, TypeOK
  <2>4. VersionNamesRow' /\ VersionsAreFresh'
    BY <2>2, <2>3 DEF IInv, VersionNamesRow, VersionsAreFresh
  <2>5. RowsAreSound'
    <3>1. \A q \in Sessions : req'[q] # None => Decided(req'[q])
      BY <2>3 DEF IInv, RowsAreSound
    <3> QED BY <3>1, <2>2 DEF IInv, RowsAreSound, Consistent
  <2>6. TasksAreSound'
    BY <2>2 DEF IInv, TasksAreSound, InReview, InPublisherReview
  <2> QED BY <2>2, <2>3, <2>4, <2>5, <2>6 DEF IInv, Stuttering
<1>2. CASE AbortUpdate
  <2>1. TypeOK' /\ VersionNamesRow' /\ VersionsAreFresh'
    BY <1>2 DEF AbortUpdate, IInv, TypeOK, VersionNamesRow, VersionsAreFresh
  <2>2. RowsAreSound' /\ TasksAreSound'
    BY <1>2 DEF AbortUpdate, IInv, RowsAreSound, TasksAreSound, Consistent, InReview, InPublisherReview
  <2> QED BY <1>2, <2>1, <2>2 DEF AbortUpdate, IInv, Stuttering
<1>3. ASSUME NEW u \in Churn, Deactivate(u)
      PROVE  IInv' /\ Stuttering
  <2>1. TypeOK'
    BY <1>3 DEF Deactivate, IInv, TypeOK, TaskStates
  <2>2. VersionNamesRow' /\ VersionsAreFresh' /\ RowsAreSound'
    BY <1>3 DEF Deactivate, IInv, VersionNamesRow, VersionsAreFresh, RowsAreSound, Consistent
  <2>3. \A a \in steady' : a \in steady /\ a # u /\ active'[a] = active[a]
    BY <1>3, UserAssumption DEF Deactivate, IInv, TypeOK
  <2>4. \A a \in steady', type \in TaskTypes : task'[<<a, type>>] = task[<<a, type>>]
    <3> TAKE a \in steady', type \in TaskTypes
    <3>1. <<a, type>> \in Admins \X TaskTypes /\ a # u
      BY <2>3 DEF IInv, TypeOK
    <3> QED BY <3>1, <1>3 DEF Deactivate
  <2>5. TasksAreSound'
    BY <2>3, <2>4, <1>3 DEF Deactivate, IInv, TasksAreSound, InReview, InPublisherReview
  <2> QED BY <1>3, <2>1, <2>2, <2>5 DEF Deactivate, IInv, Stuttering
<1>4. ASSUME NEW u \in Churn, Reactivate(u)
      PROVE  IInv' /\ Stuttering
  <2>1. TypeOK' /\ VersionNamesRow' /\ VersionsAreFresh' /\ RowsAreSound'
    BY <1>4 DEF Reactivate, IInv, TypeOK, VersionNamesRow, VersionsAreFresh, RowsAreSound, Consistent
  <2>2. \A a \in steady : active'[a]
    BY <1>4 DEF Reactivate, IInv, TypeOK, TasksAreSound
  <2>3. TasksAreSound'
    BY <1>4, <2>2 DEF Reactivate, IInv, TasksAreSound, InReview, InPublisherReview
  <2> QED BY <1>4, <2>1, <2>3 DEF Reactivate, IInv, Stuttering
<1>5. CASE UNCHANGED vars
  BY <1>5 DEF vars, IInv, TypeOK, VersionNamesRow, VersionsAreFresh, RowsAreSound, TasksAreSound,
              Consistent, InReview, InPublisherReview, Stuttering
<1> QED BY <1>1, <1>2, <1>3, <1>4, <1>5

LEMMA StepKeepsInv ==
  ASSUME IInv, [Next]_vars
  PROVE  IInv' /\ DeskStep
BY ReadStep, WriteStep, ClientStep, ServiceStep, CommitStep, QuietStep DEF Next, DeskStep

-----------------------------------------------------------------------------
(* The invariant that the theorems rest on: versions identify rows, every  *)
(* decision in flight is legal for the row it has read, and a steady admin *)
(* has every task of a review that is on.                                  *)
THEOREM InvariantHolds == Spec => []IInv
<1>1. Init => IInv
  BY InitEstablishesInv
<1>2. IInv /\ [Next]_vars => IInv'
  BY StepKeepsInv
<1> QED BY <1>1, <1>2, PTL DEF Spec

(* Type correctness of the row, the requests, the statement and the tasks. *)
THEOREM TypesHold == Spec => []TypeOK
BY InvariantHolds, PTL DEF IInv

(* A transition whose version matches has read the row it replaces.        *)
THEOREM VersionsIdentifyRows == Spec => []VersionNamesRow
BY InvariantHolds, PTL DEF IInv

-----------------------------------------------------------------------------
(* The blog is a desk *)

LEMMA InitIsDesk == ASSUME Init PROVE Desk!Init
<1>1. blog \in Row
  BY UserAssumption DEF Init, Row, UserOrNull, WriterStatuses, PublisherStatuses
<1>2. Desk!Sound([writer |-> blog.writer, publisher |-> blog.publisher,
                  writer_status |-> blog.writer_status,
                  publisher_status |-> blog.publisher_status, stamped |-> blog.stamped])
  BY DEF Init, Consistent, Desk!Sound
<1> QED BY <1>1, <1>2 DEF Init, Desk!Init, Desk!Desks, Row, UserOrNull

(* Requests, versions, triggers and statements that wait to commit add     *)
(* nothing to what one person after another could do, and take nothing of  *)
(* the rules away.                                                         *)
THEOREM DeskIsKept == Spec => ActsAsDesk
<1>1. IInv /\ [Next]_vars => [Desk!Next]_(Desk!state)
  BY StepKeepsInv DEF DeskStep, Stuttering, Desk!state
<1> QED BY <1>1, InitIsDesk, InvariantHolds, PTL DEF Spec, ActsAsDesk, Desk!Spec

(* What is left on a desk is sound, so a published blog has been written   *)
(* and both its lanes have an assignee.                                    *)
THEOREM PublishedBlogsAreWritten == Spec => []PublishedIsWritten
<1>1. Desk!Init => PublishedIsWritten
  BY DEF Desk!Init, Desk!Sound, PublishedIsWritten
<1>2. PublishedIsWritten /\ [Desk!Next]_(Desk!state) => PublishedIsWritten'
  BY DEF Desk!Next, Desk!Work, Desk!Clerk, Desk!Sound, Desk!state, PublishedIsWritten
<1> QED BY <1>1, <1>2, DeskIsKept, PTL DEF ActsAsDesk, Desk!Spec

(* Every change of stage is a legal move of its author, or the handoff.    *)
THEOREM StagesAreLegal == Spec => StagesFollowRules
<1>1. [Desk!Next]_(Desk!state) =>
        [/\ blog'.writer_status # blog.writer_status =>
              MayMoveWriter(author', blog.writer_status, blog'.writer_status)
         /\ blog'.publisher_status # blog.publisher_status =>
              \/ MayMovePublisher(author', blog.publisher_status, blog'.publisher_status)
              \/ /\ blog.publisher_status = "not_started" /\ blog'.publisher_status = "in_progress"
                 /\ blog'.writer_status = "completed" /\ blog'.publisher # NoUser]_vars
  BY DEF Desk!Next, Desk!Work, Desk!Clerk, Desk!Rightful, Desk!HandsOff, Desk!SameStages,
         Desk!state
<1> QED BY <1>1, DeskIsKept, PTL DEF ActsAsDesk, Desk!Spec, StagesFollowRules

(* A transition that completes the writing of a blog with a publisher      *)
(* leaves publishing started: the handoff it computed is still the right   *)
(* one, because the row is still the one it read.                          *)
LEMMA HandoffOfWrite ==
  ASSUME IInv, NEW s \in Sessions, TransitionWrite(s), req[s].patch.publisher_status = Keep,
         blog.writer_status # "completed", blog'.writer_status = "completed",
         blog'.publisher # NoUser
  PROVE  blog'.publisher_status # "not_started"
<1> DEFINE r == req[s]  next == Patched(blog, r.patch)  new == Stamped(blog, next)
<1>1. /\ r.read = blog /\ ~ShouldAutoJog(r.read, r.patch)
      /\ r.patch \in Patch /\ blog \in Row
  BY DEF TransitionWrite, IInv, TypeOK, VersionNamesRow, RowsAreSound, Decided, Request
<1>2. next \in Row /\ next.publisher_status = blog.publisher_status
  <2>1. /\ next \in Row
        /\ next = [blog EXCEPT !.writer = Given(r.patch.writer, @),
              !.publisher = Given(r.patch.publisher, @),
              !.writer_status = Given(r.patch.writer_status, @),
              !.publisher_status = Given(r.patch.publisher_status, @)]
    BY <1>1, PatchedFits
  <2> QED BY <2>1, <1>1 DEF Row, Given
<1>3. ~ /\ blog.publisher_status = "not_started" /\ next.writer_status = "completed"
        /\ next.publisher # NoUser
  BY <1>1 DEF ShouldAutoJog
<1> HIDE DEF next
<1>4. PICK t \in Times : blog' = Touched(new, t)
  BY DEF TransitionWrite, Update, FreshTimes, next
<1>5. /\ new \in Row /\ new.writer_status = next.writer_status
      /\ new.publisher = next.publisher /\ new.publisher_status = next.publisher_status
  BY <1>1, <1>2, StampedFits
<1> HIDE DEF new
<1> QED BY <1>2, <1>3, <1>4, <1>5, TouchedFits

(* A transition that completes the writing starts the publishing of the   *)
(* row it writes, when that row has a publisher and it asked nothing else. *)
THEOREM HandoffsStartPublishing == Spec => HandoffStartsPublishing
<1>1. IInv /\ [Next]_vars =>
        [\A s \in Sessions :
           /\ TransitionWrite(s) /\ req[s].patch.publisher_status = Keep
           /\ blog.writer_status # "completed" /\ blog'.writer_status = "completed"
           /\ blog'.publisher # NoUser
           => blog'.publisher_status # "not_started"]_vars
  BY HandoffOfWrite
<1> QED BY <1>1, InvariantHolds, PTL DEF Spec, HandoffStartsPublishing

(* An admin who was never deactivated has every review that is on.         *)
THEOREM SteadyAdminsHaveTheTask == Spec => []SteadyAdminsAreAsked
<1>1. IInv => SteadyAdminsAreAsked
  BY DEF IInv, TasksAreSound, SteadyAdminsAreAsked, UnderReview, InReview
<1> QED BY <1>1, InvariantHolds, PTL

=============================================================================
