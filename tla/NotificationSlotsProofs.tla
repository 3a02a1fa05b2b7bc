----------------------- MODULE NotificationSlotsProofs -----------------------
(***************************************************************************)
(* What NotificationSlots promises, for any number of sweeps and any       *)
(* cooldown longer than the run of a sweep.                                *)
(*                                                                         *)
(* The argument is about what a sweep has seen.  A stamp it read is never  *)
(* larger than the one in the slot now, and while the two are equal nobody *)
(* has claimed the slot since: then a cooldown separates the stamp from the*)
(* time of the sweep, and for an overdue slot a window separates the claim *)
(* from it, because the claim was itself a write of the post.              *)
(***************************************************************************)
EXTENDS NotificationSlots, TLAPS

SlotsInv ==
  /\ row.updated_at <= clock
  /\ \A s \in Slots :
       /\ last[s] = Never <=> claimedAt[s] = Never
       /\ last[s] # Never => /\ last[s] <= claimedAt[s]
                             /\ claimedAt[s] <= last[s] + MaxRun
                             /\ claimedAt[s] <= row.updated_at

Timely(w) == w.pc # "idle" => w.now <= clock /\ clock <= w.now + MaxRun

(* What a sweep knows of a slot it has seen.                               *)
Known(w, s) ==
  w.seen[s] # NotDue =>
    /\ w.pc # "idle"
    /\ Cooled(w.seen[s], w.now)
    /\ w.seen[s] # Never => last[s] # Never /\ w.seen[s] <= last[s]
    /\ w.seen[s] = last[s] /\ last[s] # Never /\ s \in OverdueSlots
         => claimedAt[s] + Window <= w.now

(* A claimed slot carries the time of the sweep, or a later one.           *)
Holds(w) == w.pc = "notifying" => last[w.slot] # Never /\ w.now <= last[w.slot]

SweepInv(w) == Timely(w) /\ Holds(w) /\ \A s \in Slots : Known(w, s)

IInv ==
  /\ TypeOK /\ SlotsInv /\ OneNotice
  /\ \A j \in Sweeps : SweepInv(sweep[j])

-----------------------------------------------------------------------------
LEMMA IdleFits == Idle \in Sweep /\ SweepInv(Idle) /\ Idle.pc = "idle"
<1>1. NothingSeen \in [Slots -> Stamp \cup {NotDue}] /\ \A s \in Slots : NothingSeen[s] = NotDue
  BY DEF NothingSeen
<1>2. Idle \in Sweep /\ Idle.pc = "idle" /\ Idle.seen = NothingSeen
  BY <1>1 DEF Idle, Sweep, Slots
<1> QED BY <1>1, <1>2 DEF SweepInv, Timely, Holds, Known

(* A sweep that moves on alone keeps the invariant when it still knows what*)
(* it must and takes no slot.                                              *)
LEMMA SweepMoves ==
  ASSUME IInv, NEW j \in Sweeps, NEW w \in Sweep, SweepInv(w), w.pc # "notifying",
         sweep' = [sweep EXCEPT ![j] = w],
         UNCHANGED <<clock, row, last, claimedAt>>
  PROVE  IInv'
<1>1. TypeOK'
  BY DEF IInv, TypeOK
<1>2. \A i \in Sweeps : sweep'[i] = IF i = j THEN w ELSE sweep[i]
  BY DEF IInv, TypeOK
<1>3. SlotsInv'
  BY DEF IInv, SlotsInv
<1>4. OneNotice'
  BY <1>2 DEF IInv, OneNotice
<1>5. \A i \in Sweeps : SweepInv(sweep[i])'
  BY <1>2 DEF IInv, SweepInv, Timely, Holds, Known
<1> QED BY <1>1, <1>3, <1>4, <1>5 DEF IInv

LEMMA InitEstablishes == Init => IInv
<1> SUFFICES ASSUME Init PROVE IInv
  OBVIOUS
<1>1. TypeOK
  BY IdleFits DEF Init, TypeOK, Stages, Slots, Stamp
<1>2. SlotsInv
  BY DEF Init, SlotsInv
<1>3. OneNotice
  BY IdleFits DEF Init, OneNotice
<1>4. \A j \in Sweeps : SweepInv(sweep[j])
  BY IdleFits DEF Init
<1> QED BY <1>1, <1>2, <1>3, <1>4 DEF IInv

-----------------------------------------------------------------------------
LEMMA WorkKeeps ==
  ASSUME IInv, NEW status \in Stages, Work(status)
  PROVE  IInv'
<1>1. TypeOK'
  BY DEF IInv, TypeOK, Work
<1>2. SlotsInv'
  BY DEF IInv, TypeOK, SlotsInv, Work, Stamp
<1>3. OneNotice' /\ \A j \in Sweeps : SweepInv(sweep[j])'
  BY DEF IInv, OneNotice, SweepInv, Timely, Holds, Known, Work
<1> QED BY <1>1, <1>2, <1>3 DEF IInv

LEMMA StartKeeps ==
  ASSUME IInv, NEW j \in Sweeps, Start(j)
  PROVE  IInv'
<1>1. PICK first \in {"reminder", "review"} :
        sweep' = [sweep EXCEPT ![j] = [Idle EXCEPT !.pc = "reading", !.now = clock,
                                                   !.slot = first]]
  BY DEF Start
<1> DEFINE w == [Idle EXCEPT !.pc = "reading", !.now = clock, !.slot = first]
<1>2. w \in Sweep /\ w.pc = "reading" /\ w.now = clock /\ w.seen = NothingSeen
  BY <1>1 DEF IInv, TypeOK, Idle, Sweep, Slots, NothingSeen
<1>3. SweepInv(w)
  BY <1>2, TimeAssumption
  DEF IInv, TypeOK, SweepInv, Timely, Holds, Known, NothingSeen
<1> QED BY <1>1, <1>2, <1>3, SweepMoves DEF Start

LEMMA ReadKeeps ==
  ASSUME IInv, NEW j \in Sweeps, Read(j)
  PROVE  IInv'
<1> DEFINE s == sweep[j].slot
<1>1. sweep[j] \in Sweep /\ SweepInv(sweep[j]) /\ s \in Slots /\ sweep[j].pc = "reading"
  BY DEF IInv, TypeOK, Sweep, Read
<1>2. PICK value \in (IF Due(s, sweep[j].now) THEN {last[s]} ELSE {NotDue})
                     \cup (IF s = "publish" THEN {NotDue} ELSE {}) :
        sweep' = [sweep EXCEPT ![j] =
          [@ EXCEPT !.seen[s] = value,
                    !.pc = IF s = "review" THEN "reading" ELSE "claiming",
                    !.slot = CASE s = "reminder" -> "reminder"
                               [] s = "review"   -> "publish"
                               [] s = "publish"  -> "review"]]
  BY DEF Read
<1>3. value \in Stamp \cup {NotDue}
  BY <1>1, <1>2 DEF IInv, TypeOK
<1> DEFINE w == [sweep[j] EXCEPT
                   !.seen[s] = value,
                   !.pc = IF s = "review" THEN "reading" ELSE "claiming",
                   !.slot = CASE s = "reminder" -> "reminder"
                              [] s = "review"   -> "publish"
                              [] s = "publish"  -> "review"]
<1>4. /\ w.seen = [sweep[j].seen EXCEPT ![s] = value] /\ w.now = sweep[j].now
      /\ w.pc \in {"reading", "claiming"} /\ w.slot \in Slots
  BY <1>1 DEF Sweep, Slots
<1>5. w \in Sweep
  BY <1>1, <1>3, <1>4 DEF Sweep, Slots
<1>6. sweep' = [sweep EXCEPT ![j] = w]
  BY <1>1, <1>2 DEF IInv, TypeOK
<1>7. ASSUME NEW q \in Slots
      PROVE  Known(w, q)
  <2>1. CASE q = s /\ value # NotDue
    <3>1. value = last[s] /\ Due(s, sweep[j].now) /\ w.seen[q] = last[q]
      BY <2>1, <1>1, <1>2, <1>4 DEF Sweep
    <3>2. last[q] \in Stamp /\ claimedAt[q] \in Stamp /\ row.updated_at \in Nat
          /\ w.now \in Nat
      BY <1>5 DEF IInv, TypeOK, Sweep
    <3> QED BY <3>1, <3>2, <2>1, <1>4, TimeAssumption, NullAssumption
            DEF Known, Due, IInv, SlotsInv, Stamp
  <2>2. CASE q = s /\ value = NotDue
    BY <2>2, <1>1, <1>4 DEF Known, Sweep
  <2>3. CASE q # s
    BY <2>3, <1>1, <1>4 DEF Known, SweepInv, Sweep
  <2> QED BY <2>1, <2>2, <2>3
<1>8. SweepInv(w) /\ w.pc # "notifying"
  BY <1>1, <1>4, <1>7 DEF SweepInv, Timely, Holds
<1> QED BY <1>5, <1>6, <1>8, SweepMoves DEF Read

LEMMA AdvanceKeeps ==
  ASSUME IInv, NEW j \in Sweeps, sweep[j].pc # "idle", Advance(j),
         UNCHANGED <<clock, row, last, claimedAt>>
  PROVE  IInv'
<1>1. sweep[j] \in Sweep /\ SweepInv(sweep[j])
  BY DEF IInv, TypeOK
<1>2. CASE sweep[j].slot = "review"
  <2> DEFINE w == [sweep[j] EXCEPT !.pc = "claiming", !.slot = "publish",
                                   !.seen["review"] = NotDue]
  <2>1. sweep' = [sweep EXCEPT ![j] = w]
    BY <1>2, <1>1 DEF Advance, IInv, TypeOK
  <2>2. w \in Sweep /\ w.pc = "claiming" /\ w.now = sweep[j].now
        /\ w.seen = [sweep[j].seen EXCEPT !["review"] = NotDue]
    BY <1>1 DEF Sweep, Slots
  <2>3. \A s \in Slots : w.seen[s] = NotDue \/ w.seen[s] = sweep[j].seen[s]
    BY <1>1, <2>2 DEF Sweep
  <2>4. SweepInv(w)
    BY <1>1, <2>2, <2>3 DEF SweepInv, Timely, Holds, Known
  <2> QED BY <2>1, <2>2, <2>4, SweepMoves
<1>3. CASE sweep[j].slot # "review"
  <2>1. sweep' = [sweep EXCEPT ![j] = Idle]
    BY <1>3 DEF Advance, IInv, TypeOK
  <2> QED BY <2>1, IdleFits, SweepMoves
<1> QED BY <1>2, <1>3

(* The claim, and what it tells about the claim before it.                 *)
LEMMA ClaimFacts ==
  ASSUME IInv, NEW j \in Sweeps, Claim(j), NEW s \in Slots, s = sweep[j].slot
  PROVE  /\ sweep[j] \in Sweep /\ SweepInv(sweep[j])
         /\ sweep[j].now \in Nat /\ clock \in Nat
         /\ sweep[j].now <= clock /\ clock <= sweep[j].now + MaxRun
         /\ last[s] # Never =>
              /\ last[s] \in Nat /\ claimedAt[s] \in Nat
              /\ last[s] + Cooldown <= sweep[j].now
              /\ s \in OverdueSlots => claimedAt[s] + Window <= sweep[j].now
<1>1. sweep[j] \in Sweep /\ SweepInv(sweep[j]) /\ sweep[j].now \in Nat /\ clock \in Nat
      /\ last[s] \in Stamp /\ claimedAt[s] \in Stamp
  BY DEF IInv, TypeOK, Sweep
<1>2. sweep[j].seen[s] = last[s] /\ sweep[j].seen[s] # NotDue /\ sweep[j].pc = "claiming"
  BY DEF Claim, ClaimMatches
<1>3. sweep[j].now <= clock /\ clock <= sweep[j].now + MaxRun
  BY <1>1, <1>2 DEF SweepInv, Timely
<1>4. Known(sweep[j], s)
  BY <1>1 DEF SweepInv
<1> QED BY <1>1, <1>2, <1>3, <1>4 DEF Known, Cooled, IInv, SlotsInv, Stamp

LEMMA ClaimKeeps ==
  ASSUME IInv, NEW j \in Sweeps, Claim(j)
  PROVE  IInv'
<1> DEFINE s == sweep[j].slot
<1> DEFINE now == sweep[j].now
<1>1. s \in Slots
  BY DEF IInv, TypeOK, Sweep
<1>2. /\ sweep[j] \in Sweep /\ SweepInv(sweep[j])
      /\ now \in Nat /\ clock \in Nat /\ now <= clock /\ clock <= now + MaxRun
      /\ last[s] # Never => last[s] \in Nat /\ last[s] + Cooldown <= now
  BY <1>1, ClaimFacts
<1>3. /\ last' = [last EXCEPT ![s] = now] /\ claimedAt' = [claimedAt EXCEPT ![s] = clock]
      /\ row' = [row EXCEPT !.updated_at = clock] /\ clock' = clock
      /\ sweep' = [sweep EXCEPT ![j].pc = "notifying"] /\ sweep[j].pc = "claiming"
  BY DEF Claim
<1>4. TypeOK'
  BY <1>1, <1>2, <1>3 DEF IInv, TypeOK, Stamp, Sweep
<1>5. /\ row'.updated_at = clock
      /\ \A q \in Slots : /\ last'[q] = IF q = s THEN now ELSE last[q]
                          /\ claimedAt'[q] = IF q = s THEN clock ELSE claimedAt[q]
  BY <1>1, <1>3 DEF IInv, TypeOK
<1>6. \A i \in Sweeps : /\ sweep'[i].now = sweep[i].now /\ sweep'[i].slot = sweep[i].slot
                        /\ sweep'[i].seen = sweep[i].seen
                        /\ sweep'[i].pc = IF i = j THEN "notifying" ELSE sweep[i].pc
  BY <1>2, <1>3 DEF IInv, TypeOK, Sweep
<1>7. SlotsInv'
  <2>1. ASSUME NEW q \in Slots
        PROVE  /\ last'[q] = Never <=> claimedAt'[q] = Never
               /\ last'[q] # Never => /\ last'[q] <= claimedAt'[q]
                                      /\ claimedAt'[q] <= last'[q] + MaxRun
                                      /\ claimedAt'[q] <= clock
    <3>1. CASE q = s
      BY <3>1, <1>2, <1>5, NullAssumption
    <3>2. CASE q # s
      <4>1. last[q] \in Stamp /\ claimedAt[q] \in Stamp /\ row.updated_at \in Nat
        BY DEF IInv, TypeOK
      <4> QED BY <4>1, <3>2, <1>2, <1>5 DEF IInv, SlotsInv, Stamp
    <3> QED BY <3>1, <3>2
  <2> QED BY <2>1, <1>2, <1>3, <1>5 DEF SlotsInv
<1>8. OneNotice'
  <2>1. ASSUME NEW i \in Sweeps, sweep[i].pc = "notifying", sweep[i].slot = s
        PROVE  FALSE
    <3>1. sweep[i].now \in Nat /\ last[s] \in Stamp /\ SweepInv(sweep[i])
      BY <1>1 DEF IInv, TypeOK, Sweep
    <3>2. last[s] # Never /\ sweep[i].now <= last[s] /\ clock <= sweep[i].now + MaxRun
      BY <2>1, <3>1 DEF SweepInv, Timely, Holds
    <3> QED BY <3>1, <3>2, <1>2, TimeAssumption
  <2> QED BY <2>1, <1>6 DEF IInv, OneNotice
<1>9. ASSUME NEW i \in Sweeps
      PROVE  SweepInv(sweep[i])'
  <2>1. SweepInv(sweep[i]) /\ sweep[i] \in Sweep
    BY DEF IInv, TypeOK
  <2>2. Timely(sweep[i])'
    BY <2>1, <1>2, <1>3, <1>6 DEF SweepInv, Timely
  <2>3. Holds(sweep[i])'
    <3>1. CASE i = j
      BY <3>1, <1>1, <1>2, <1>5, <1>6, NullAssumption DEF Holds
    <3>2. CASE i # j
      BY <3>2, <2>1, <1>2, <1>5, <1>6, TimeAssumption, NullAssumption
      DEF SweepInv, Holds, Sweep
    <3> QED BY <3>1, <3>2
  <2>4. ASSUME NEW q \in Slots
        PROVE  Known(sweep[i], q)'
    <3>1. Known(sweep[i], q) /\ sweep[i].seen[q] \in Stamp \cup {NotDue} /\ sweep[i].now \in Nat
          /\ last[q] \in Stamp
      BY <2>1 DEF SweepInv, Sweep, IInv, TypeOK
    <3>2. CASE q # s
      BY <3>2, <3>1, <1>5, <1>6 DEF Known, Cooled
    <3>3. CASE q = s
      <4>1. last'[q] = now /\ now # Never
        BY <3>3, <1>2, <1>5, NullAssumption
      <4>2. sweep[i].seen[q] \in Nat => sweep[i].seen[q] < now
        BY <3>1, <3>3, <1>2, TimeAssumption, NullAssumption DEF Known, Stamp
      <4> QED BY <4>1, <4>2, <3>1, <1>2, <1>6, NullAssumption DEF Known, Cooled, Stamp
    <3> QED BY <3>2, <3>3
  <2> QED BY <2>2, <2>3, <2>4 DEF SweepInv
<1> QED BY <1>4, <1>7, <1>8, <1>9 DEF IInv

LEMMA TickKeeps == ASSUME IInv, Tick PROVE IInv'
<1>1. TypeOK'
  BY DEF IInv, TypeOK, Tick
<1>2. SlotsInv'
  BY DEF IInv, TypeOK, SlotsInv, Tick
<1>3. OneNotice'
  BY DEF IInv, OneNotice, Tick
<1>4. ASSUME NEW j \in Sweeps
      PROVE  SweepInv(sweep[j])'
  <2>1. SweepInv(sweep[j]) /\ sweep[j].now \in Nat /\ clock \in Nat
    BY DEF IInv, TypeOK, Sweep
  <2>2. Timely(sweep[j])'
    BY <2>1, TimeAssumption DEF SweepInv, Timely, Tick
  <2> QED BY <2>1, <2>2 DEF SweepInv, Holds, Known, Tick
<1> QED BY <1>1, <1>2, <1>3, <1>4 DEF IInv

LEMMA StepKeeps == IInv /\ [Next]_vars => IInv'
<1> SUFFICES ASSUME IInv, [Next]_vars PROVE IInv'
  OBVIOUS
<1>1. ASSUME NEW status \in Stages, Work(status) PROVE IInv'
  BY <1>1, WorkKeeps
<1>2. ASSUME NEW j \in Sweeps, Start(j) PROVE IInv'
  BY <1>2, StartKeeps
<1>3. ASSUME NEW j \in Sweeps, Read(j) PROVE IInv'
  BY <1>3, ReadKeeps
<1>4. ASSUME NEW j \in Sweeps, Claim(j) PROVE IInv'
  BY <1>4, ClaimKeeps
<1>5. ASSUME NEW j \in Sweeps, Skip(j) \/ Notify(j) PROVE IInv'
  BY <1>5, AdvanceKeeps DEF Skip, Notify
<1>6. ASSUME NEW j \in Sweeps, Die(j) PROVE IInv'
  BY <1>6, IdleFits, SweepMoves DEF Die
<1>7. CASE Tick
  BY <1>7, TickKeeps
<1>8. CASE UNCHANGED vars
  BY <1>8 DEF vars, IInv, TypeOK, SlotsInv, OneNotice, SweepInv, Timely, Holds, Known
<1> QED BY <1>1, <1>2, <1>3, <1>4, <1>5, <1>6, <1>7, <1>8 DEF Next

(* The invariant above holds in every reachable state.                     *)
THEOREM SlotsAreSound == Spec => []IInv
BY InitEstablishes, StepKeeps, PTL DEF Spec

(* The clock, the slots and what the sweeps carry keep their types; a slot *)
(* that is not among the rows of a sweep is never taken for a stamp.       *)
THEOREM SlotTypes == Spec => []TypeOK
<1>1. IInv => TypeOK
  BY DEF IInv
<1> QED BY <1>1, SlotsAreSound, PTL

(* One sweep at a time notifies about a slot.                              *)
THEOREM NoDuplicateNotice == Spec => []OneNotice
<1>1. IInv => OneNotice
  BY DEF IInv
<1> QED BY <1>1, SlotsAreSound, PTL

(* The stamps of a slot grow by a cooldown at a time.                      *)
THEOREM StampsKeepTheCooldown == Spec => StampsSpaced
<1>1. ASSUME IInv, [Next]_vars, NEW s \in Slots, last'[s] # last[s]
      PROVE  Cooled(last[s], last'[s])
  <2>1. PICK j \in Sweeps : Claim(j)
    BY <1>1 DEF Next, vars, Work, Start, Read, Skip, Notify, Die, Tick
  <2>2. s = sweep[j].slot /\ last'[s] = sweep[j].now
    BY <1>1, <2>1 DEF Claim, IInv, TypeOK
  <2> QED BY <1>1, <2>1, <2>2, ClaimFacts DEF Cooled
<1>2. IInv /\ [Next]_vars =>
        [\A s \in Slots : last'[s] # last[s] => Cooled(last[s], last'[s])]_vars
  BY <1>1
<1> QED BY <1>2, SlotsAreSound, PTL DEF Spec, StampsSpaced

(* Claims of an overdue slot are a window apart, reminders a cooldown less *)
(* the run of a sweep.                                                     *)
THEOREM ClaimsAreFarApart == Spec => ClaimsSpaced
<1> DEFINE Spaced ==
      \A j \in Sweeps, s \in Slots :
        sweep[j].pc = "claiming" /\ sweep'[j].pc = "notifying" /\ sweep[j].slot = s
        /\ claimedAt[s] # Never =>
          IF s \in OverdueSlots THEN clock >= claimedAt[s] + Window
          ELSE clock + MaxRun >= claimedAt[s] + Cooldown
<1>1. ASSUME IInv, [Next]_vars, NEW j \in Sweeps, NEW s \in Slots,
             sweep[j].pc = "claiming", sweep'[j].pc = "notifying", sweep[j].slot = s,
             claimedAt[s] # Never
      PROVE  IF s \in OverdueSlots THEN clock >= claimedAt[s] + Window
             ELSE clock + MaxRun >= claimedAt[s] + Cooldown
  <2>1. Claim(j)
    <3>1. ASSUME NEW i \in Sweeps, Start(i) \/ Read(i) \/ Skip(i) \/ Notify(i) \/ Die(i)
          PROVE  sweep'[j].pc # "notifying"
      <4>1. sweep[j] \in Sweep /\ sweep[i] \in Sweep /\ sweep \in [Sweeps -> Sweep]
        BY <1>1 DEF IInv, TypeOK
      <4>2. CASE Start(i) \/ Die(i)
        BY <1>1, <4>1, <4>2 DEF Start, Die, Idle
      <4>3. CASE Read(i)
        BY <1>1, <4>1, <4>3 DEF Read, Sweep
      <4>4. CASE Skip(i) \/ Notify(i)
        <5> DEFINE w == IF sweep[i].slot = "review"
                        THEN [sweep[i] EXCEPT !.pc = "claiming", !.slot = "publish",
                                              !.seen["review"] = NotDue]
                        ELSE Idle
        <5>1. sweep' = [sweep EXCEPT ![i] = w]
          BY <4>4, <4>1 DEF Skip, Notify, Advance
        <5>2. w.pc # "notifying"
          BY <4>1 DEF Idle, Sweep
        <5> HIDE DEF w
        <5> QED BY <1>1, <4>1, <5>1, <5>2
      <4> QED BY <3>1, <4>2, <4>3, <4>4
    <3>2. ASSUME NEW i \in Sweeps, Claim(i) PROVE i = j
      BY <1>1, <3>2 DEF Claim, IInv, TypeOK
    <3> QED BY <1>1, <3>1, <3>2 DEF Next, vars, Work, Tick
  <2>2. last[s] # Never /\ last[s] \in Stamp /\ claimedAt[s] <= last[s] + MaxRun
    BY <1>1 DEF IInv, TypeOK, SlotsInv
  <2>3. /\ sweep[j].now \in Nat /\ clock \in Nat /\ sweep[j].now <= clock
        /\ last[s] \in Nat /\ claimedAt[s] \in Nat
        /\ last[s] + Cooldown <= sweep[j].now
        /\ s \in OverdueSlots => claimedAt[s] + Window <= sweep[j].now
    BY <1>1, <2>1, <2>2, ClaimFacts
  <2> QED BY <2>2, <2>3, TimeAssumption
<1>2. IInv /\ [Next]_vars => [Spaced]_vars
  BY <1>1
<1> QED BY <1>2, SlotsAreSound, PTL DEF Spec, ClaimsSpaced
=============================================================================
