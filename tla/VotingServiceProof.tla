------------------------- MODULE VotingServiceProof -------------------------
(***************************************************************************)
(* Proofs about VotingService, for every set of plans and every value of   *)
(* the policy's constants: its types; then SendInv, an invariant, and what *)
(* follows from it: one POST per race, no vote hidden behind a closed      *)
(* race, a final kill, final terminal states, and a POST only on the       *)
(* verdict of a guard passed after the read before it.                     *)
(*                                                                         *)
(* The second part: DayInv is an invariant too, and so a confirmed race is *)
(* a recorded vote, automatic recovery has one open POST at a time, reads  *)
(* are not repeated for ever, trouble stops the day, and what import       *)
(* admitted fits the budget.  One lemma, StepIsUpdate, says what any step  *)
(* does to the records: at most one of them changes, as Updates allows.    *)
(* The invariants follow from it without a look at the actions.            *)
(***************************************************************************)
EXTENDS VerdictHistory, ArithmeticProof

-----------------------------------------------------------------------------
(* What each record update returns, for every record. *)

LEMMA ToFacts ==
    ASSUME NEW r \in Record, NEW s \in States
    PROVE  /\ To(r, s) \in Record
           /\ To(r, s).state = s
           /\ To(r, s).posts = r.posts
           /\ To(r, s).armCount = r.armCount
           /\ To(r, s).prechecks = r.prechecks
           /\ To(r, s).gets = r.gets
           /\ s \in Terminal => To(r, s).armed = FALSE
           /\ s \notin Terminal => To(r, s).armed = r.armed
BY DEF To, Record, States, Terminal, Time

LEMMA FieldTypes ==
    ASSUME NEW r \in Record
    PROVE  /\ r.posts \in Nat /\ r.armCount \in Nat
           /\ r.prechecks \in Nat /\ r.gets \in Nat
           /\ r.posts + 1 \in Nat /\ r.armCount + 1 \in Nat
           /\ r.prechecks + 1 \in Nat /\ r.gets + 1 \in Nat
BY DEF Record

LEMMA ImportedFacts ==
    /\ Unknown \in Record /\ ImportedRecord \in Record
    /\ ImportedRecord.state = "VALIDATED" /\ ImportedRecord.posts = 0
    /\ ImportedRecord.armed = FALSE /\ ImportedRecord.prechecks = 0
    /\ Unknown.prechecks = 0
BY DEF Unknown, ImportedRecord, Record, States, Terminal, Time

LEMMA ArmedFacts ==
    ASSUME NEW r \in Record, NEW t \in Nat
    PROVE  /\ Armed(r, t) \in Record /\ Armed(r, t).state = "ARMED"
           /\ Armed(r, t).posts = r.posts /\ Armed(r, t).prechecks = r.prechecks
<1> DEFINE m == [r EXCEPT !.armed = TRUE, !.armCount = @ + 1, !.next = t]
<1>1. m \in Record /\ m.posts = r.posts /\ m.prechecks = r.prechecks
  BY FieldTypes DEF Record, Time
<1>2. "ARMED" \in States
  BY DEF States
<1> HIDE DEF m
<1>3. To(m, "ARMED") \in Record /\ To(m, "ARMED").state = "ARMED"
      /\ To(m, "ARMED").posts = m.posts /\ To(m, "ARMED").prechecks = m.prechecks
  BY <1>1, <1>2, ToFacts
<1>4. QED BY <1>1, <1>3 DEF Armed, m

LEMMA PostingFacts ==
    ASSUME NEW r \in Record
    PROVE  /\ Posting(r) \in Record /\ Posting(r).state = "POSTING"
           /\ Posting(r).posts = r.posts + 1 /\ Posting(r).armed = FALSE
           /\ Posting(r).prechecks = r.prechecks
<1> DEFINE m == [r EXCEPT !.posts = @ + 1, !.armed = FALSE, !.next = NoTime]
<1>1. m \in Record /\ m.posts = r.posts + 1 /\ m.armed = FALSE
      /\ m.prechecks = r.prechecks
  BY FieldTypes DEF Record, Time
<1>2. "POSTING" \in States \ Terminal
  BY DEF States, Terminal
<1> HIDE DEF m
<1>3. To(m, "POSTING") \in Record /\ To(m, "POSTING").state = "POSTING"
      /\ To(m, "POSTING").posts = m.posts /\ To(m, "POSTING").armed = m.armed
      /\ To(m, "POSTING").prechecks = m.prechecks
  BY <1>1, <1>2, ToFacts
<1>4. QED BY <1>1, <1>3 DEF Posting, m

LEMMA PrecheckingFacts ==
    ASSUME NEW r \in Record
    PROVE  /\ Prechecking(r) \in Record /\ Prechecking(r).state = "ARMED"
           /\ Prechecking(r).posts = r.posts
           /\ Prechecking(r).prechecks = r.prechecks + 1
<1> DEFINE m == [r EXCEPT !.prechecks = @ + 1]
<1>1. m \in Record /\ m.posts = r.posts /\ m.prechecks = r.prechecks + 1
  BY FieldTypes DEF Record
<1>2. "ARMED" \in States
  BY DEF States
<1> HIDE DEF m
<1>3. To(m, "ARMED") \in Record /\ To(m, "ARMED").state = "ARMED"
      /\ To(m, "ARMED").posts = m.posts /\ To(m, "ARMED").prechecks = m.prechecks
  BY <1>1, <1>2, ToFacts
<1>4. QED BY <1>1, <1>3 DEF Prechecking, m

\* A record whose next action is put at a time and whose state changes.
LEMMA AwaitingFacts ==
    ASSUME NEW r \in Record, NEW s \in States, NEW t \in Time
    PROVE  /\ Awaiting(r, s, t) \in Record /\ Awaiting(r, s, t).state = s
           /\ Awaiting(r, s, t).posts = r.posts
           /\ s \in Terminal => Awaiting(r, s, t).armed = FALSE
           /\ s \notin Terminal => Awaiting(r, s, t).armed = r.armed
<1> DEFINE m == [r EXCEPT !.next = t]
<1>1. m \in Record /\ m.posts = r.posts /\ m.armed = r.armed /\ m.prechecks = r.prechecks
  BY DEF Record
<1> HIDE DEF m
<1>2. /\ To(m, s) \in Record /\ To(m, s).state = s /\ To(m, s).posts = m.posts
      /\ To(m, s).prechecks = m.prechecks
      /\ s \in Terminal => To(m, s).armed = FALSE
      /\ s \notin Terminal => To(m, s).armed = m.armed
  BY <1>1, ToFacts
<1>3. QED BY <1>1, <1>2 DEF Awaiting, m

LEMMA AwaitingCounts ==
    ASSUME NEW r \in Record, NEW s \in States, NEW t \in Time
    PROVE  Awaiting(r, s, t).prechecks = r.prechecks /\ Awaiting(r, s, t).gets = r.gets
BY DEF Awaiting, To, Record

LEMMA RetriedFacts ==
    ASSUME NEW r \in Record, NEW t \in Nat, NEW d \in Nat
    PROVE  /\ Retried(r, t, d) \in Record
           /\ Retried(r, t, d).state \in {"ARMED", "REJECTED"}
           /\ Retried(r, t, d).posts = r.posts /\ Retried(r, t, d).prechecks = r.prechecks
           /\ Retried(r, t, d).state = "ARMED" => r.prechecks < PrecheckLimit
           /\ Retried(r, t, d).armed => Retried(r, t, d).state = "ARMED"
<1>1. PICK s \in {"ARMED", "REJECTED"} :
          s = IF r.prechecks >= PrecheckLimit \/ t >= d THEN "REJECTED" ELSE "ARMED"
  OBVIOUS
<1>2. s = "ARMED" => r.prechecks < PrecheckLimit
  BY <1>1, FieldTypes, LimitsAssumption
<1>3. Retried(r, t, d) = Awaiting(r, s, t)
  BY <1>1 DEF Retried, Awaiting
<1>4. s \in States /\ t \in Time /\ "REJECTED" \in Terminal
  BY DEF States, Terminal, Time
<1>5. /\ Awaiting(r, s, t) \in Record /\ Awaiting(r, s, t).state = s
      /\ Awaiting(r, s, t).posts = r.posts
      /\ s \in Terminal => Awaiting(r, s, t).armed = FALSE
  BY <1>4, AwaitingFacts
<1>6. Awaiting(r, s, t).prechecks = r.prechecks
  BY <1>4, AwaitingCounts
<1>7. QED BY <1>2, <1>3, <1>4, <1>5, <1>6

LEMMA DeferredFacts ==
    ASSUME NEW r \in Record, NEW t \in Nat
    PROVE  /\ Deferred(r, t) \in Record /\ Deferred(r, t).state = "AMBIGUOUS"
           /\ Deferred(r, t).posts = r.posts /\ Deferred(r, t).armed = r.armed
           /\ Deferred(r, t).prechecks = r.prechecks /\ Deferred(r, t).gets = r.gets + 1
<1> DEFINE n == r.gets + 1
           u == IF n < VerificationMaxGETAttempts THEN t ELSE NoTime
           m == [r EXCEPT !.gets = n, !.next = u]
<1>1. n \in Nat /\ u \in Time
  BY FieldTypes DEF Time
<1> HIDE DEF n, u
<1>2. m \in Record /\ m.posts = r.posts /\ m.armed = r.armed
      /\ m.prechecks = r.prechecks /\ m.gets = n
  BY <1>1 DEF Record
<1>3. "AMBIGUOUS" \in States \ Terminal
  BY DEF States, Terminal
<1> HIDE DEF m
<1>4. /\ To(m, "AMBIGUOUS") \in Record /\ To(m, "AMBIGUOUS").state = "AMBIGUOUS"
      /\ To(m, "AMBIGUOUS").posts = m.posts /\ To(m, "AMBIGUOUS").armed = m.armed
      /\ To(m, "AMBIGUOUS").prechecks = m.prechecks /\ To(m, "AMBIGUOUS").gets = m.gets
  BY <1>2, <1>3, ToFacts
<1>5. Deferred(r, t) = To(m, "AMBIGUOUS")
  BY DEF Deferred, m, n, u
<1>6. QED BY <1>2, <1>4, <1>5 DEF n

LEMMA VerifiedFacts ==
    ASSUME NEW r \in Record, NEW s \in Terminal
    PROVE  /\ Verified(r, s) \in Record /\ Verified(r, s).state = s
           /\ Verified(r, s).posts = r.posts /\ Verified(r, s).armed = FALSE
           /\ Verified(r, s).prechecks = r.prechecks
<1> DEFINE m == [r EXCEPT !.gets = @ + 1]
<1>1. m \in Record /\ m.posts = r.posts /\ m.prechecks = r.prechecks
  BY FieldTypes DEF Record
<1>2. s \in States
  BY DEF States
<1> HIDE DEF m
<1>3. /\ To(m, s) \in Record /\ To(m, s).state = s /\ To(m, s).posts = m.posts
      /\ To(m, s).armed = FALSE /\ To(m, s).prechecks = m.prechecks
  BY <1>1, <1>2, ToFacts
<1>4. QED BY <1>1, <1>3 DEF Verified, m

LEMMA RecoveredFacts ==
    ASSUME NEW r \in Record, NEW t \in Nat
    PROVE  /\ Recovered(r, t) \in Record
           /\ Recovered(r, t).posts = r.posts /\ Recovered(r, t).prechecks = r.prechecks
           /\ r.state = "PRECHECKED_EMPTY" => Recovered(r, t).state = "ARMED"
           /\ r.state # "PRECHECKED_EMPTY"
                 => /\ Recovered(r, t).state = "AMBIGUOUS"
                    /\ Recovered(r, t).armed = r.armed
<1>1. t \in Time /\ {"ARMED", "AMBIGUOUS"} \subseteq States \ Terminal
  BY DEF Time, States, Terminal
<1>2. CASE r.state = "PRECHECKED_EMPTY"
  <2> DEFINE m == [r EXCEPT !.armed = TRUE, !.next = t]
  <2>1. m \in Record /\ m.posts = r.posts /\ m.prechecks = r.prechecks
    BY <1>1 DEF Record
  <2> HIDE DEF m
  <2>2. To(m, "ARMED") \in Record /\ To(m, "ARMED").state = "ARMED"
        /\ To(m, "ARMED").posts = m.posts /\ To(m, "ARMED").prechecks = m.prechecks
    BY <1>1, <2>1, ToFacts
  <2>3. QED BY <1>2, <2>1, <2>2 DEF Recovered, m
<1>3. CASE r.state # "PRECHECKED_EMPTY"
  <2> DEFINE m == [r EXCEPT !.next = t]
  <2>1. m \in Record /\ m.posts = r.posts /\ m.armed = r.armed
        /\ m.prechecks = r.prechecks
    BY <1>1 DEF Record
  <2> HIDE DEF m
  <2>2. /\ To(m, "AMBIGUOUS") \in Record /\ To(m, "AMBIGUOUS").state = "AMBIGUOUS"
        /\ To(m, "AMBIGUOUS").posts = m.posts /\ To(m, "AMBIGUOUS").armed = m.armed
        /\ To(m, "AMBIGUOUS").prechecks = m.prechecks
    BY <1>1, <2>1, ToFacts
  <2>3. QED BY <1>3, <2>1, <2>2 DEF Recovered, m
<1>4. QED BY <1>2, <1>3

-----------------------------------------------------------------------------
(* What a durable write and a move of the handler do. *)

LEMMA WriteEffect ==
    ASSUME StoreTypeOK, faults \in Nat,
           NEW p \in Plans, NEW r \in Record, NEW o \in Outcomes, Write(p, r, o)
    PROVE  /\ StoreTypeOK' /\ faults' \in Nat /\ killed' = killed
           /\ \A q \in Plans : q # p => race'[q] = race[q]
           /\ race'[p] \in {race[p], r}
           /\ o = "ok" => race'[p] = r
BY DEF StoreTypeOK, Write, Charge, Outcomes

LEMMA WriteKillEffect ==
    ASSUME StoreTypeOK, faults \in Nat, NEW o \in Outcomes, WriteKill(o)
    PROVE  /\ StoreTypeOK' /\ faults' \in Nat /\ race' = race
           /\ killed => killed'
           /\ o = "ok" => killed'
<1>1. race' = race /\ killed' = (killed \/ o # "unwritten")
  BY Zenon DEF WriteKill
<1>2. faults' \in Nat
  BY DEF WriteKill, Charge
<1>3. /\ killed' \in BOOLEAN
      /\ killed => killed'
      /\ o = "ok" => killed'
  <2>1. o = "ok" => o # "unwritten"
    OBVIOUS
  <2>2. QED BY <1>1, <2>1, Zenon
<1>4. StoreTypeOK'
  BY <1>1, <1>3, Zenon DEF StoreTypeOK
<1>5. QED BY <1>1, <1>2, <1>3, <1>4

LEMMA NoWriteEffect ==
    ASSUME StoreTypeOK, faults \in Nat, NoWrite
    PROVE  StoreTypeOK' /\ faults' \in Nat
BY DEF StoreTypeOK, NoWrite

LEMMA ReturnTyped ==
    ASSUME Return
    PROVE  HandlerTypeOK'
BY DEF Return, Go, HandlerTypeOK, Labels, LoopLabels, PlanLabels

LEMMA GoTyped ==
    ASSUME NEW l \in Labels, NEW p \in Plans \union {NoPlan}, NEW S \in SUBSET Plans,
           NEW c \in {"idle", "defer"}, Go(l, p, S, c),
           l \in LoopLabels => S # {}, l \in PlanLabels => p \in Plans
    PROVE  HandlerTypeOK'
BY DEF Go, HandlerTypeOK

LEMMA LoopTyped ==
    ASSUME NEW S \in SUBSET Plans, NEW l \in LoopLabels \ PlanLabels, Loop(l, S)
    PROVE  HandlerTypeOK'
BY ReturnTyped DEF Loop, Go, HandlerTypeOK, Labels, LoopLabels, PlanLabels

LEMMA HaltTyped ==
    ASSUME cur \in Plans, NEW c \in {"idle", "defer"}, Halt(c)
    PROVE  HandlerTypeOK'
BY DEF Halt, Go, HandlerTypeOK, Labels, LoopLabels, PlanLabels

LEMMA ResumeTyped ==
    ASSUME cur \in Plans, Resume
    PROVE  HandlerTypeOK'
BY ReturnTyped DEF Resume, Go, HandlerTypeOK, Labels, LoopLabels, PlanLabels

LEMMA HaltOverTyped ==
    ASSUME cur \in Plans, cont \in {"idle", "defer"}, NEW S \in SUBSET Plans, HaltOver(S)
    PROVE  HandlerTypeOK'
BY ResumeTyped DEF HaltOver, Go, HandlerTypeOK, Labels, LoopLabels, PlanLabels

LEMMA WorldTyped ==
    ASSUME WorldTypeOK, InProcess, faults' \in Nat
    PROVE  WorldTypeOK'
BY DEF WorldTypeOK, InProcess, contest

LEMMA GuardTyped ==
    ASSUME NEW p
    PROVE  Guard(p) \subseteq {"KILLED", "REJECTED", "EXPIRED", "PASS"}
BY DEF Guard

LEMMA LaterTyped ==
    ASSUME now \in Nat, NEW d \in Nat
    PROVE  Later(d) \in Nat
BY PolicyAssumption DEF Later

\* Giving up a plan: the record may go to any state the code names.
LEMMA CloseTyped ==
    ASSUME StoreTypeOK, faults \in Nat, NEW p \in Plans, NEW s \in States,
           NEW o \in Outcomes, Write(p, To(race[p], s), o)
    PROVE  /\ StoreTypeOK' /\ faults' \in Nat /\ killed' = killed
           /\ \A q \in Plans : q # p => race'[q] = race[q]
           /\ race'[p] \in {race[p], To(race[p], s)}
<1>1. race[p] \in Record
  BY DEF StoreTypeOK
<1>2. To(race[p], s) \in Record
  BY <1>1, ToFacts
<1>3. QED BY <1>2, WriteEffect

-----------------------------------------------------------------------------
(* Types *)

LEMMA CommandTyped ==
    ASSUME TypeOK, Command
    PROVE  TypeOK'
<1> USE DEF TypeOK
<1>0. faults \in Nat /\ now \in Nat /\ Target \in [Plans -> Nat]
  BY ScheduleAssumption DEF WorldTypeOK
<1>1. ASSUME NEW p \in Plans, ImportPlan(p) PROVE TypeOK'
  <2>1. PICK o \in Outcomes : Write(p, ImportedRecord, o)
    BY <1>1 DEF ImportPlan
  <2>2. StoreTypeOK' /\ faults' \in Nat
    BY <1>0, <2>1, ImportedFacts, WriteEffect
  <2>3. UNCHANGED handler /\ InProcess
    BY <1>1 DEF ImportPlan
  <2>4. HandlerTypeOK'
    BY <2>3 DEF handler, HandlerTypeOK
  <2>5. QED BY <2>2, <2>3, <2>4, WorldTyped
<1>2. ASSUME NEW p \in Plans, Arm(p) PROVE TypeOK'
  <2>1. PICK o \in Outcomes : Write(p, Armed(race[p], Target[p]), o)
    BY <1>2 DEF Arm
  <2>2. race[p] \in Record /\ Target[p] \in Nat
    BY <1>0 DEF StoreTypeOK
  <2>3. StoreTypeOK' /\ faults' \in Nat
    BY <1>0, <2>1, <2>2, ArmedFacts, WriteEffect
  <2>4. UNCHANGED handler /\ InProcess
    BY <1>2 DEF Arm
  <2>5. HandlerTypeOK'
    BY <2>4 DEF handler, HandlerTypeOK
  <2>6. QED BY <2>3, <2>4, <2>5, WorldTyped
<1>3. ASSUME NEW p \in Plans, CancelUnposted(p) PROVE TypeOK'
  <2>1. PICK o \in Outcomes : Write(p, To(race[p], "KILLED"), o)
    BY <1>3 DEF CancelUnposted
  <2>2. StoreTypeOK' /\ faults' \in Nat
    BY <1>0, <2>1, CloseTyped DEF States, Terminal
  <2>3. UNCHANGED handler /\ InProcess
    BY <1>3 DEF CancelUnposted
  <2>4. HandlerTypeOK'
    BY <2>3 DEF handler, HandlerTypeOK
  <2>5. QED BY <2>2, <2>3, <2>4, WorldTyped
<1>4. ASSUME NEW B \in Bundles, ImportBundle(B) PROVE TypeOK'
  <2>1. /\ Go("importing", NoPlan, B \ Imported, "idle") /\ NoWrite /\ InProcess
        /\ B \ Imported # {}
    BY <1>4 DEF ImportBundle
  <2>2. B \ Imported \in SUBSET Plans
    BY BundlesAssumption
  <2>3. HandlerTypeOK'
    BY <2>1, <2>2, GoTyped DEF Labels, LoopLabels, PlanLabels
  <2>4. QED BY <1>0, <2>1, <2>3, NoWriteEffect, WorldTyped
<1>5. ASSUME NEW B \in Bundles, ArmBundle(B) PROVE TypeOK'
  <2>1. Go("arming", NoPlan, B, "idle") /\ NoWrite /\ InProcess
    BY <1>5 DEF ArmBundle
  <2>2. B \in SUBSET Plans /\ B # {}
    BY BundlesAssumption
  <2>3. HandlerTypeOK'
    BY <2>1, <2>2, GoTyped DEF Labels, LoopLabels, PlanLabels
  <2>4. QED BY <1>0, <2>1, <2>3, NoWriteEffect, WorldTyped
<1>6. CASE Kill
  <2>1. PICK o \in Outcomes :
           /\ WriteKill(o)
           /\ IF o = "ok" THEN Loop("killing", HaltSet) ELSE Return
    BY <1>6 DEF Kill
  <2>2. StoreTypeOK' /\ faults' \in Nat
    BY <1>0, <2>1, WriteKillEffect
  <2>3. HaltSet \in SUBSET Plans
    BY DEF HaltSet
  <2>4. HandlerTypeOK'
    BY <2>1, <2>3, LoopTyped, ReturnTyped DEF LoopLabels, PlanLabels
  <2>5. InProcess
    BY <1>6 DEF Kill
  <2>6. QED BY <2>2, <2>4, <2>5, WorldTyped
<1>7. QED BY <1>1, <1>2, <1>3, <1>4, <1>5, <1>6 DEF Command

LEMMA TickTyped ==
    ASSUME TypeOK, Tick
    PROVE  TypeOK'
<1> USE DEF TypeOK
<1>0. faults \in Nat
  BY DEF WorldTypeOK
<1>1. CASE TickExpire
  <2>1. /\ Go("expiring", NoPlan, Expirable, "idle") /\ NoWrite /\ InProcess
        /\ Expirable # {}
    BY <1>1 DEF TickExpire
  <2>2. Expirable \in SUBSET Plans
    BY DEF Expirable
  <2>3. HandlerTypeOK'
    BY <2>1, <2>2, GoTyped DEF Labels, LoopLabels, PlanLabels
  <2>4. QED BY <1>0, <2>1, <2>3, NoWriteEffect, WorldTyped
<1>2. ASSUME NEW p \in Plans, Submit(p) PROVE TypeOK'
  <2>1. PICK g \in Guard(p) :
          IF g = "PASS"
          THEN IF AutomaticRecovery
               THEN \E o \in Outcomes :
                       /\ Write(p, Prechecking(race[p]), o)
                       /\ IF o = "ok" THEN Go("read", p, {}, "idle") ELSE Return
               ELSE NoWrite /\ Go("read", p, {}, "idle")
          ELSE /\ \E o \in Outcomes : Write(p, To(race[p], g), o)
               /\ Return
    BY <1>2 DEF Submit
  <2>2. InProcess
    BY <1>2 DEF Submit
  <2>3. Go("read", p, {}, "idle") => HandlerTypeOK'
    BY GoTyped DEF Labels, LoopLabels, PlanLabels
  <2>4. StoreTypeOK' /\ faults' \in Nat /\ HandlerTypeOK'
    <3>1. CASE g = "PASS" /\ AutomaticRecovery
      <4>1. PICK o \in Outcomes :
              /\ Write(p, Prechecking(race[p]), o)
              /\ IF o = "ok" THEN Go("read", p, {}, "idle") ELSE Return
        BY <2>1, <3>1
      <4>2. Prechecking(race[p]) \in Record
        BY PrecheckingFacts DEF StoreTypeOK
      <4>3. QED BY <1>0, <2>3, <4>1, <4>2, WriteEffect, ReturnTyped
    <3>2. CASE g = "PASS" /\ ~AutomaticRecovery
      BY <1>0, <2>1, <2>3, <3>2, NoWriteEffect
    <3>3. CASE g # "PASS"
      <4>1. Return /\ \E o \in Outcomes : Write(p, To(race[p], g), o)
        BY <2>1, <3>3
      <4>2. g \in States
        BY <3>3, GuardTyped DEF States, Terminal
      <4>3. QED BY <1>0, <4>1, <4>2, CloseTyped, ReturnTyped
    <3>4. QED BY <3>1, <3>2, <3>3
  <2>5. QED BY <2>2, <2>4, WorldTyped
<1>3. ASSUME NEW p \in Plans, Reconcile(p) PROVE TypeOK'
  <2>1. /\ Go(IF now >= DayEnd THEN "defer" ELSE "reread", p, {}, "idle")
        /\ NoWrite /\ InProcess
    BY <1>3 DEF Reconcile
  <2>2. Go("defer", p, {}, "idle") => HandlerTypeOK'
    BY GoTyped DEF Labels, LoopLabels, PlanLabels
  <2>3. Go("reread", p, {}, "idle") => HandlerTypeOK'
    BY GoTyped DEF Labels, LoopLabels, PlanLabels
  <2>4. QED BY <1>0, <2>1, <2>2, <2>3, NoWriteEffect, WorldTyped
<1>4. QED BY <1>1, <1>2, <1>3 DEF Tick

\* The steps of a handler that loops over plans.
LEMMA LoopStepTyped ==
    ASSUME TypeOK, ImportNext \/ ArmNext \/ ArmFailed \/ KillNext \/ ExpireNext
                   \/ TickNothing
    PROVE  TypeOK'
<1> USE DEF TypeOK
<1>0. faults \in Nat /\ now \in Nat /\ Target \in [Plans -> Nat] /\ todo \in SUBSET Plans
  BY ScheduleAssumption DEF WorldTypeOK, HandlerTypeOK
<1>1. CASE ImportNext
  <2>1. PICK p \in todo :
          IF Known(p)
          THEN NoWrite /\ Return
          ELSE \E o \in Outcomes :
                  /\ Write(p, ImportedRecord, o)
                  /\ IF o = "ok" THEN Loop("importing", todo \ {p}) ELSE Return
    BY <1>1 DEF ImportNext
  <2>2. InProcess
    BY <1>1 DEF ImportNext
  <2>3. p \in Plans /\ todo \ {p} \in SUBSET Plans
    BY <1>0
  <2>4. Loop("importing", todo \ {p}) => HandlerTypeOK'
    BY <2>3, LoopTyped DEF LoopLabels, PlanLabels
  <2>5. StoreTypeOK' /\ faults' \in Nat /\ HandlerTypeOK'
    <3>1. CASE Known(p)
      BY <1>0, <2>1, <3>1, NoWriteEffect, ReturnTyped
    <3>2. CASE ~Known(p)
      BY <1>0, <2>1, <2>3, <2>4, <3>2, ImportedFacts, WriteEffect, ReturnTyped
    <3>3. QED BY <3>1, <3>2
  <2>6. QED BY <2>2, <2>5, WorldTyped
<1>2. CASE ArmNext
  <2>1. PICK p \in todo, o \in Outcomes :
          /\ Write(p, Armed(race[p], Target[p]), o)
          /\ IF o = "ok" THEN Loop("arming", todo \ {p})
                         ELSE Go("armFailed", NoPlan, {}, "idle")
    BY <1>2 DEF ArmNext
  <2>2. InProcess
    BY <1>2 DEF ArmNext
  <2>3. p \in Plans /\ todo \ {p} \in SUBSET Plans
    BY <1>0
  <2>4. Armed(race[p], Target[p]) \in Record
    <3>1. race[p] \in Record /\ Target[p] \in Nat
      BY <1>0, <2>3 DEF StoreTypeOK
    <3>2. QED BY <3>1, ArmedFacts
  <2>5. Loop("arming", todo \ {p}) => HandlerTypeOK'
    BY <2>3, LoopTyped DEF LoopLabels, PlanLabels
  <2>6. Go("armFailed", NoPlan, {}, "idle") => HandlerTypeOK'
    BY GoTyped DEF Labels, LoopLabels, PlanLabels
  <2>7. StoreTypeOK' /\ faults' \in Nat
    BY <1>0, <2>1, <2>3, <2>4, WriteEffect
  <2>8. QED BY <2>1, <2>2, <2>5, <2>6, <2>7, WorldTyped
<1>3. CASE ArmFailed
  <2>1. PICK o \in Outcomes : WriteKill(o)
    BY <1>3 DEF ArmFailed
  <2>2. Return /\ InProcess
    BY <1>3 DEF ArmFailed
  <2>3. StoreTypeOK' /\ faults' \in Nat
    BY <1>0, <2>1, WriteKillEffect
  <2>4. QED BY <2>2, <2>3, ReturnTyped, WorldTyped
<1>4. CASE KillNext
  <2>1. PICK p \in todo, o \in Outcomes :
          /\ Write(p, To(race[p], "KILLED"), o)
          /\ IF o = "ok" THEN Loop("killing", todo \ {p}) ELSE Return
    BY <1>4 DEF KillNext
  <2>2. InProcess
    BY <1>4 DEF KillNext
  <2>3. p \in Plans /\ todo \ {p} \in SUBSET Plans
    BY <1>0
  <2>4. HandlerTypeOK'
    BY <2>1, <2>3, LoopTyped, ReturnTyped DEF LoopLabels, PlanLabels
  <2>5. StoreTypeOK' /\ faults' \in Nat
    BY <1>0, <2>1, <2>3, CloseTyped DEF States, Terminal
  <2>6. QED BY <2>2, <2>4, <2>5, WorldTyped
<1>5. CASE ExpireNext
  <2>1. PICK p \in todo, o \in Outcomes :
          /\ Write(p, To(race[p], "EXPIRED"), o)
          /\ IF todo = {p} THEN Go("select", NoPlan, {}, "idle")
                           ELSE Go("expiring", NoPlan, todo \ {p}, "idle")
    BY <1>5 DEF ExpireNext
  <2>2. InProcess
    BY <1>5 DEF ExpireNext
  <2>3. p \in Plans /\ todo \ {p} \in SUBSET Plans
    BY <1>0
  <2>4. Go("select", NoPlan, {}, "idle") => HandlerTypeOK'
    BY GoTyped DEF Labels, LoopLabels, PlanLabels
  <2>5. todo # {p} /\ Go("expiring", NoPlan, todo \ {p}, "idle") => HandlerTypeOK'
    BY <2>3, GoTyped DEF Labels, LoopLabels, PlanLabels
  <2>6. StoreTypeOK' /\ faults' \in Nat
    BY <1>0, <2>1, <2>3, CloseTyped DEF States, Terminal
  <2>7. QED BY <2>1, <2>2, <2>4, <2>5, <2>6, WorldTyped
<1>6. CASE TickNothing
  BY <1>0, <1>6, NoWriteEffect, ReturnTyped, WorldTyped DEF TickNothing
<1>7. QED BY <1>1, <1>2, <1>3, <1>4, <1>5, <1>6

\* The steps of a submission up to the POST.
LEMMA SubmissionStepTyped ==
    ASSUME TypeOK, ReadFails \/ ReadAnswers \/ BeforePost \/ Commit \/ Send
    PROVE  TypeOK'
<1> USE DEF TypeOK
<1>0. faults \in Nat /\ now \in Nat /\ cur \in Plans /\ race[cur] \in Record
  BY DEF WorldTypeOK, HandlerTypeOK, StoreTypeOK, PlanLabels, ReadFails, ReadAnswers,
         BeforePost, Commit, Send
<1>1. /\ Halt("idle") => HandlerTypeOK'
      /\ Go("guard", cur, {}, "idle") => HandlerTypeOK'
      /\ Go("commit", cur, {}, "idle") => HandlerTypeOK'
      /\ Go("post", cur, {}, "idle") => HandlerTypeOK'
      /\ Go("wait", cur, {}, "idle") => HandlerTypeOK'
  BY <1>0, HaltTyped, GoTyped DEF Labels, LoopLabels, PlanLabels
<1>2. CASE ReadFails
  <2>1. Later(RetryDelay) \in Nat /\ Deadline[cur] \in Nat
    BY <1>0, LaterTyped, PolicyAssumption, ScheduleAssumption
  <2>2. Retried(race[cur], Later(RetryDelay), Deadline[cur]) \in Record
    BY <1>0, <2>1, RetriedFacts
  <2>3. InProcess
    BY <1>2 DEF ReadFails
  <2>4. CASE AutomaticRecovery
    <3>1. PICK o \in Outcomes :
            Write(cur, Retried(race[cur], Later(RetryDelay), Deadline[cur]), o)
      BY <1>2, <2>4 DEF ReadFails
    <3>2. Return
      BY <1>2, <2>4 DEF ReadFails
    <3>3. QED BY <1>0, <2>2, <2>3, <3>1, <3>2, WriteEffect, ReturnTyped, WorldTyped
  <2>5. CASE ~AutomaticRecovery
    <3>1. PICK o \in Outcomes : Write(cur, To(race[cur], "REJECTED"), o)
      BY <1>2, <2>5 DEF ReadFails
    <3>2. Halt("idle")
      BY <1>2, <2>5 DEF ReadFails
    <3>3. StoreTypeOK' /\ faults' \in Nat
      BY <1>0, <3>1, CloseTyped DEF States, Terminal
    <3>4. QED BY <1>1, <2>3, <3>2, <3>3, WorldTyped
  <2>6. QED BY <2>4, <2>5
<1>3. CASE ReadAnswers
  <2> DEFINE s == PrecheckState(vote[RaceOf[cur]])
  <2>1. s \in States
    BY DEF PrecheckState, States, Terminal
  <2> HIDE DEF s
  <2>2. PICK o \in Outcomes :
          /\ Write(cur, To(race[cur], s), o)
          /\ IF s = "CONFLICT" THEN Halt("idle")
             ELSE IF s = "PRECHECKED_EMPTY" /\ o = "ok"
                  THEN Go("guard", cur, {}, "idle")
                  ELSE Return
    BY <1>3 DEF ReadAnswers, s
  <2>3. InProcess
    BY <1>3 DEF ReadAnswers
  <2>4. StoreTypeOK' /\ faults' \in Nat
    BY <1>0, <2>1, <2>2, CloseTyped
  <2>5. QED BY <1>1, <2>2, <2>3, <2>4, ReturnTyped, WorldTyped
<1>4. CASE BeforePost
  <2>1. PICK g \in PostGuard :
          IF g # "PASS"
          THEN (\E o \in Outcomes : Write(cur, To(race[cur], g), o)) /\ Return
          ELSE IF WithinBudget(cur)
               THEN NoWrite /\ Go("commit", cur, {}, "idle")
               ELSE /\ \E o \in Outcomes : Write(cur, To(race[cur], "REJECTED"), o)
                    /\ Halt("idle")
    BY <1>4 DEF BeforePost
  <2>2. InProcess
    BY <1>4 DEF BeforePost
  <2>3. StoreTypeOK' /\ faults' \in Nat /\ HandlerTypeOK'
    <3>1. CASE g # "PASS"
      <4>1. g \in States
        BY <3>1, GuardTyped DEF PostGuard, States, Terminal
      <4>2. QED BY <1>0, <2>1, <3>1, <4>1, CloseTyped, ReturnTyped
    <3>2. CASE NoWrite /\ Go("commit", cur, {}, "idle")
      BY <1>0, <1>1, <3>2, NoWriteEffect
    <3>3. CASE /\ Halt("idle")
               /\ \E o \in Outcomes : Write(cur, To(race[cur], "REJECTED"), o)
      BY <1>0, <1>1, <3>3, CloseTyped DEF States, Terminal
    <3>4. QED BY <2>1, <3>1, <3>2, <3>3
  <2>4. QED BY <2>2, <2>3, WorldTyped
<1>5. CASE Commit
  <2>1. Posting(race[cur]) \in Record
    BY <1>0, PostingFacts
  <2>2. CASE race[cur].posts >= POSTMaxAttempts
    BY <1>0, <1>5, <2>2, NoWriteEffect, ReturnTyped, WorldTyped DEF Commit
  <2>3. CASE ~(race[cur].posts >= POSTMaxAttempts)
    <3>1. StoreTypeOK' /\ faults' \in Nat /\ HandlerTypeOK'
      BY <1>0, <1>1, <1>5, <2>1, <2>3, WriteEffect, ReturnTyped DEF Commit
    <3>2. InProcess
      BY <1>5 DEF Commit
    <3>3. QED BY <3>1, <3>2, WorldTyped
  <2>4. QED BY <2>2, <2>3
<1>6. CASE Send
  <2>1. HandlerTypeOK'
    BY <1>1, <1>6 DEF Send
  <2>2. NoWrite
    BY <1>6 DEF Send
  <2>3. StoreTypeOK' /\ faults' \in Nat
    BY <1>0, <2>2, NoWriteEffect
  <2>4. WorldTypeOK'
    BY <1>0, <1>6, <2>3 DEF Send, WorldTypeOK
  <2>5. QED BY <2>1, <2>3, <2>4
<1>7. QED BY <1>2, <1>3, <1>4, <1>5, <1>6

\* Both failures of a POST.
LEMMA PostFailsTyped ==
    ASSUME TypeOK, cur \in Plans, NEW s \in {"AMBIGUOUS", "REJECTED"}, PostFails(s)
    PROVE  TypeOK'
<1> USE DEF TypeOK
<1>0. faults \in Nat /\ now \in Nat /\ race[cur] \in Record
  BY DEF WorldTypeOK, StoreTypeOK
<1>1. Later(InitialWait) \in Time
  BY <1>0, LaterTyped, PolicyAssumption DEF Time
<1>2. s \in States
  BY DEF States, Terminal
<1>3. Awaiting(race[cur], s, Later(InitialWait)) \in Record /\ To(race[cur], s) \in Record
  BY <1>0, <1>1, <1>2, AwaitingFacts, ToFacts
<1> DEFINE r == IF s = "AMBIGUOUS"
                THEN Awaiting(race[cur], s, Later(InitialWait))
                ELSE To(race[cur], s)
<1>4. r \in Record
  BY <1>3
<1> HIDE DEF r
<1>5. PICK o \in Outcomes : Write(cur, r, o)
  BY DEF PostFails, r
<1>6. /\ InProcess
      /\ IF AutomaticRecovery THEN Return ELSE Halt("idle")
  BY DEF PostFails
<1>7. HandlerTypeOK'
  BY <1>6, ReturnTyped, HaltTyped
<1>8. QED BY <1>0, <1>4, <1>5, <1>6, <1>7, WriteEffect, WorldTyped

\* The steps after the POST: its outcome and the reads that follow it.
LEMMA OutcomeStepTyped ==
    ASSUME TypeOK, PostAccepted \/ PostRefused \/ PostUnknown
                   \/ RereadFails \/ RereadAnswers \/ Defer
    PROVE  TypeOK'
<1>0. faults \in Nat /\ now \in Nat /\ cur \in Plans /\ race[cur] \in Record
  BY DEF TypeOK, WorldTypeOK, HandlerTypeOK, StoreTypeOK, PlanLabels, PostAccepted,
         PostRefused, PostUnknown, RereadFails, RereadAnswers, Defer
<1>1. /\ Halt("idle") => HandlerTypeOK'
      /\ Halt("defer") => HandlerTypeOK'
      /\ Go("defer", cur, {}, "idle") => HandlerTypeOK'
  BY <1>0, HaltTyped, GoTyped DEF Labels, LoopLabels, PlanLabels
<1>2. CASE PostAccepted
  <2>1. PICK o \in Outcomes :
          Write(cur, Awaiting(race[cur], "PENDING_CONFIRMATION", Later(InitialWait)), o)
    BY <1>2 DEF PostAccepted
  <2>2. Later(InitialWait) \in Time
    BY <1>0, LaterTyped, PolicyAssumption DEF Time
  <2>3. "PENDING_CONFIRMATION" \in States
    BY DEF States
  <2>4. Awaiting(race[cur], "PENDING_CONFIRMATION", Later(InitialWait)) \in Record
    BY <1>0, <2>2, <2>3, AwaitingFacts
  <2>5. Return /\ InProcess
    BY <1>2 DEF PostAccepted
  <2>6. QED BY <1>0, <2>1, <2>4, <2>5, WriteEffect, ReturnTyped, WorldTyped DEF TypeOK
<1>3. CASE PostRefused
  BY <1>0, <1>3, PostFailsTyped DEF PostRefused, RefusedState
<1>4. CASE PostUnknown
  BY <1>0, <1>4, PostFailsTyped DEF PostUnknown, UnknownState
<1>5. CASE RereadFails
  BY <1>0, <1>1, <1>5, NoWriteEffect, WorldTyped DEF RereadFails, TypeOK
<1>6. CASE RereadAnswers
  <2> DEFINE v == vote[RaceOf[cur]]
             s == RereadState(v)
  <2>1. s \in Terminal
    BY DEF RereadState, Terminal
  <2> HIDE DEF s
  <2>2. IF v = NoVote
        THEN NoWrite /\ Go("defer", cur, {}, "idle")
        ELSE \E o \in Outcomes :
                /\ Write(cur, Verified(race[cur], s), o)
                /\ IF s = "CONFLICT" THEN Halt("idle") ELSE Return
    BY <1>6 DEF RereadAnswers, s
  <2>3. InProcess
    BY <1>6 DEF RereadAnswers
  <2> HIDE DEF v
  <2>4. Verified(race[cur], s) \in Record
    BY <1>0, <2>1, VerifiedFacts
  <2>5. CASE v = NoVote
    BY <1>0, <1>1, <2>2, <2>3, <2>5, NoWriteEffect, WorldTyped DEF TypeOK
  <2>6. CASE v # NoVote
    BY <1>0, <1>1, <2>2, <2>3, <2>4, <2>6, WriteEffect, ReturnTyped, WorldTyped DEF TypeOK
  <2>7. QED BY <2>5, <2>6
<1>7. CASE Defer
  <2> DEFINE r == Deferred(race[cur], Later(Interval))
  <2>1. Later(Interval) \in Nat
    BY <1>0, LaterTyped, PolicyAssumption
  <2>2. r \in Record
    BY <1>0, <2>1, DeferredFacts
  <2> HIDE DEF r
  <2>3. PICK o \in Outcomes :
          /\ Write(cur, r, o)
          /\ IF o = "ok" /\ r.gets >= VerificationMaxGETAttempts
             THEN Halt("idle") ELSE Return
    BY <1>7 DEF Defer, r
  <2>4. InProcess
    BY <1>7 DEF Defer
  <2>5. QED BY <1>0, <1>1, <2>2, <2>3, <2>4, WriteEffect, ReturnTyped, WorldTyped DEF TypeOK
<1>8. QED BY <1>2, <1>3, <1>4, <1>5, <1>6, <1>7

LEMMA HaltStepTyped ==
    ASSUME TypeOK, HaltDay \/ HaltNext
    PROVE  TypeOK'
<1>0. faults \in Nat /\ cur \in Plans /\ cont \in {"idle", "defer"} /\ todo \in SUBSET Plans
  BY DEF TypeOK, WorldTypeOK, HandlerTypeOK, PlanLabels, HaltDay, HaltNext
<1>1. HaltSet \in SUBSET Plans
  BY DEF HaltSet
<1>2. HaltOver(HaltSet) => HandlerTypeOK'
  BY <1>0, <1>1, HaltOverTyped
<1>3. CASE HaltDay
  <2>1. InProcess
    BY <1>3 DEF HaltDay
  <2>2. CASE killed
    BY <1>0, <1>2, <1>3, <2>1, <2>2, NoWriteEffect, WorldTyped DEF HaltDay, TypeOK
  <2>3. CASE ~killed
    <3>1. PICK o \in Outcomes :
            WriteKill(o) /\ IF o = "ok" THEN HaltOver(HaltSet) ELSE Resume
      BY <1>3, <2>3 DEF HaltDay
    <3>2. HandlerTypeOK'
      BY <1>0, <1>2, <3>1, ResumeTyped
    <3>3. StoreTypeOK' /\ faults' \in Nat
      BY <1>0, <3>1, WriteKillEffect DEF TypeOK
    <3>4. QED BY <2>1, <3>2, <3>3, WorldTyped DEF TypeOK
  <2>4. QED BY <2>2, <2>3
<1>4. CASE HaltNext
  <2>1. PICK p \in todo, o \in Outcomes :
          Write(p, To(race[p], "KILLED"), o) /\ HaltOver(todo \ {p})
    BY <1>4 DEF HaltNext
  <2>2. InProcess
    BY <1>4 DEF HaltNext
  <2>3. p \in Plans /\ todo \ {p} \in SUBSET Plans
    BY <1>0
  <2>4. HandlerTypeOK'
    BY <1>0, <2>1, <2>3, HaltOverTyped
  <2>5. StoreTypeOK' /\ faults' \in Nat
    BY <1>0, <2>1, <2>3, CloseTyped DEF TypeOK, States, Terminal
  <2>6. QED BY <2>2, <2>4, <2>5, WorldTyped DEF TypeOK
<1>5. QED BY <1>3, <1>4

LEMMA RecoverOverTyped ==
    ASSUME recovered \in BOOLEAN, NEW S \in SUBSET Plans, RecoverOver(S)
    PROVE  HandlerTypeOK' /\ recovered' \in BOOLEAN
<1>1. CASE S = {}
  BY <1>1, ReturnTyped DEF RecoverOver
<1>2. CASE S # {}
  <2>1. Go("recovering", NoPlan, S, "idle") /\ recovered' = recovered
    BY <1>2 DEF RecoverOver
  <2>2. HandlerTypeOK'
    BY <1>2, <2>1, GoTyped DEF Labels, LoopLabels, PlanLabels
  <2>3. QED BY <2>1, <2>2
<1>3. QED BY <1>1, <1>2

LEMMA ProcessStepTyped ==
    ASSUME TypeOK, Crash \/ Start \/ Recover \/ RecoverNext
    PROVE  TypeOK'
<1>0. faults \in Nat /\ now \in Nat /\ recovered \in BOOLEAN /\ todo \in SUBSET Plans
  BY DEF TypeOK, WorldTypeOK, HandlerTypeOK
<1>1. Go("down", NoPlan, {}, "idle") => HandlerTypeOK'
  BY GoTyped DEF Labels, LoopLabels, PlanLabels
<1>2. ASSUME faults' \in Nat, crashes' \in Nat, recovered' \in BOOLEAN,
             UNCHANGED <<contest, sent, stop, now>>
      PROVE  WorldTypeOK'
  BY <1>2 DEF TypeOK, WorldTypeOK, contest
<1>3. CASE Crash
  <2>1. crashes' \in Nat
    BY <1>3 DEF Crash, TypeOK, WorldTypeOK
  <2>2. QED BY <1>0, <1>1, <1>2, <1>3, <2>1, NoWriteEffect DEF Crash, TypeOK
<1>4. CASE Start
  BY <1>0, <1>4, NoWriteEffect, ReturnTyped, WorldTyped DEF Start, TypeOK
<1>5. CASE Recover
  <2>1. RecoverSet \in SUBSET Plans
    BY DEF RecoverSet
  <2>2. crashes' \in Nat
    BY <1>5 DEF Recover, TypeOK, WorldTypeOK
  <2>3. QED BY <1>0, <1>2, <1>5, <2>1, <2>2, NoWriteEffect, RecoverOverTyped DEF Recover, TypeOK
<1>6. CASE RecoverNext
  <2>1. PICK p \in todo, o \in Outcomes :
          /\ Write(p, Recovered(race[p], now), o)
          /\ IF o = "ok" THEN RecoverOver(todo \ {p})
             ELSE Go("down", NoPlan, {}, "idle") /\ UNCHANGED recovered
    BY <1>6 DEF RecoverNext
  <2>2. p \in Plans /\ todo \ {p} \in SUBSET Plans
    BY <1>0
  <2>3. HandlerTypeOK' /\ recovered' \in BOOLEAN
    BY <1>0, <1>1, <2>1, <2>2, RecoverOverTyped
  <2>4. Recovered(race[p], now) \in Record
    BY <1>0, <2>2, RecoveredFacts DEF TypeOK, StoreTypeOK
  <2>5. StoreTypeOK' /\ faults' \in Nat
    BY <1>0, <2>1, <2>2, <2>4, WriteEffect DEF TypeOK
  <2>6. crashes' \in Nat /\ UNCHANGED <<contest, sent, stop, now>>
    BY <1>6 DEF RecoverNext, TypeOK, WorldTypeOK
  <2>7. QED BY <1>2, <2>3, <2>5, <2>6 DEF TypeOK
<1>7. QED BY <1>3, <1>4, <1>5, <1>6

LEMMA WorldStepTyped ==
    ASSUME TypeOK, Contest \/ ToggleStop \/ PassTime \/ UNCHANGED vars
    PROVE  TypeOK'
<1> USE DEF TypeOK
<1>1. UNCHANGED <<store, handler>> => StoreTypeOK' /\ HandlerTypeOK'
  BY DEF store, handler, StoreTypeOK, HandlerTypeOK
<1>2. CASE Contest
  <2>1. OnlyContest
    BY <1>2 DEF Contest, Accept, Refuse, Publish, VoteByHand
  <2>2. wire' \in [Plans -> {"none", "inflight", "accepted", "refused"}]
    BY <1>2 DEF Contest, Accept, Refuse, Publish, VoteByHand, WorldTypeOK
  <2>3. vote' \in [Races -> Plans \union {NoVote, OtherVote}]
    <3>1. vote' = vote \/ \E r \in Races, v \in Plans \union {NoVote, OtherVote} :
            vote' = [vote EXCEPT ![r] = v]
      <4>1. \A q \in Plans : RaceOf[q] \in Races
        BY DEF Races
      <4>2. QED BY <1>2, <4>1 DEF Contest, Accept, Refuse, Publish, VoteByHand
    <3>2. vote \in [Races -> Plans \union {NoVote, OtherVote}]
      BY DEF WorldTypeOK
    <3>3. QED BY <3>1, <3>2
  <2>4. WorldTypeOK'
    BY <2>1, <2>2, <2>3 DEF OnlyContest, WorldTypeOK, daemon
  <2>5. QED BY <1>1, <2>1, <2>4 DEF OnlyContest, daemon
<1>3. CASE ToggleStop
  <2>1. WorldTypeOK'
    BY <1>3 DEF ToggleStop, WorldTypeOK, daemon, contest
  <2>2. QED BY <1>1, <1>3, <2>1 DEF ToggleStop, daemon
<1>4. CASE PassTime
  <2>1. WorldTypeOK'
    BY <1>4 DEF PassTime, WorldTypeOK, daemon, contest
  <2>2. QED BY <1>1, <1>4, <2>1 DEF PassTime, daemon
<1>5. CASE UNCHANGED vars
  <2>1. WorldTypeOK'
    BY <1>5 DEF vars, WorldTypeOK, daemon, contest
  <2>2. QED BY <1>1, <1>5, <2>1 DEF vars, daemon
<1>6. QED BY <1>2, <1>3, <1>4, <1>5

LEMMA StepIsTyped ==
    ASSUME TypeOK, [Next]_vars
    PROVE  TypeOK'
BY CommandTyped, TickTyped, LoopStepTyped, SubmissionStepTyped, OutcomeStepTyped,
   HaltStepTyped, ProcessStepTyped, WorldStepTyped DEF Next, Continue

\* The types of the store's records, of the handler's position and of the world
\* outside hold in every state of every day.
THEOREM TypeCorrect == Spec => []TypeOK
<1>1. Init => TypeOK
  <2> SUFFICES ASSUME Init PROVE TypeOK
    OBVIOUS
  <2>1. StoreTypeOK
    BY ImportedFacts DEF Init, StoreTypeOK
  <2>2. HandlerTypeOK
    BY DEF Init, HandlerTypeOK, Labels, LoopLabels, PlanLabels
  <2>3. WorldTypeOK
    BY DEF Init, WorldTypeOK
  <2>4. QED BY <2>1, <2>2, <2>3 DEF TypeOK
<1>2. TypeOK /\ [Next]_vars => TypeOK'
  BY StepIsTyped
<1>3. QED BY <1>1, <1>2, PTL DEF Spec

-----------------------------------------------------------------------------
(* What a write to the store keeps. *)

\* An attempt is only added by the handler that is about to commit to it.
CommitStep ==
    \A p \in Plans : race'[p].posts > race[p].posts => pc = "commit" /\ p = cur

\* What every step does to the store, and to the requests, is safe.
StoreSafe ==
    RecordInv' /\ WireInv' /\ RivalsInv' /\ TerminalKept /\ CommitStep

LEMMA UnchangedSafe ==
    ASSUME TypeOK, SendInv, race' = race, UNCHANGED <<wire, sent>>
    PROVE  StoreSafe
<1>1. RecordInv'
  BY DEF SendInv, RecordInv
<1>2. WireInv'
  BY DEF SendInv, WireInv
<1>3. RivalsInv'
  BY DEF SendInv, RivalsInv, Imported
<1>4. TerminalKept /\ CommitStep
  BY DEF TerminalKept, CommitStep, TypeOK, StoreTypeOK, Record
<1>5. QED BY <1>1, <1>2, <1>3, <1>4 DEF StoreSafe

LEMMA UpdateSafe ==
    ASSUME TypeOK, SendInv, UNCHANGED <<wire, sent>>,
           NEW p \in Plans, NEW r \in Record, NEW o \in Outcomes, Write(p, r, o),
           RecordOK(r), r.posts >= race[p].posts,
           race[p].state # "DISCOVERED", r.state # "DISCOVERED",
           race[p].state \notin Terminal,
           r.state = "REJECTED" => wire[p] \in {"none", "refused"},
           r.posts > race[p].posts => pc = "commit" /\ p = cur
    PROVE  StoreSafe
<1>1. /\ \A q \in Plans : q # p => race'[q] = race[q]
      /\ race'[p] \in {race[p], r}
      /\ \A q \in Plans : race[q] \in Record
  BY WriteEffect DEF TypeOK, StoreTypeOK, WorldTypeOK
<1>2. RecordInv'
  BY <1>1 DEF SendInv, RecordInv
<1>3. WireInv'
  BY <1>1 DEF SendInv, WireInv, TypeOK, WorldTypeOK, Record
<1>4. RivalsInv'
  BY <1>1 DEF SendInv, RivalsInv, Imported
<1>5. TerminalKept /\ CommitStep
  BY <1>1 DEF TerminalKept, CommitStep, Record
<1>6. QED BY <1>2, <1>3, <1>4, <1>5 DEF StoreSafe

LEMMA ImportSafe ==
    ASSUME TypeOK, SendInv, UNCHANGED <<wire, sent>>,
           NEW p \in Plans, NEW o \in Outcomes, ~Known(p), Write(p, ImportedRecord, o)
    PROVE  StoreSafe
<1>1. /\ \A q \in Plans : q # p => race'[q] = race[q]
      /\ race'[p] \in {race[p], ImportedRecord}
      /\ \A q \in Plans : race[q] \in Record
  BY WriteEffect, ImportedFacts DEF TypeOK, StoreTypeOK, WorldTypeOK
<1>2. race[p].state = "DISCOVERED"
  BY DEF Known, Imported
<1>3. race[p].posts = 0 /\ sent[p] = 0
  BY <1>1, <1>2 DEF SendInv, RecordInv, RecordOK, InDoubt, WireInv, TypeOK, WorldTypeOK, Record
<1>4. RecordOK(ImportedRecord)
  BY ImportedFacts DEF RecordOK, InDoubt
<1>5. RecordInv'
  BY <1>1, <1>4 DEF SendInv, RecordInv
<1>6. WireInv'
  BY <1>1, <1>3, ImportedFacts DEF SendInv, WireInv
<1>7. RivalsInv'
  BY <1>1 DEF SendInv, RivalsInv, Imported, Known
<1>8. TerminalKept /\ CommitStep
  BY <1>1, <1>2, <1>3, ImportedFacts DEF TerminalKept, CommitStep, Record, Terminal
<1>9. QED BY <1>5, <1>6, <1>7, <1>8 DEF StoreSafe

\* A plan that was never sent may be closed in any terminal state.
LEMMA CloseSafe ==
    ASSUME TypeOK, SendInv, UNCHANGED <<wire, sent>>,
           NEW p \in Plans, NEW s \in Terminal, NEW o \in Outcomes,
           Write(p, To(race[p], s), o),
           race[p].state \in {"VALIDATED", "ARMED", "PRECHECKED_EMPTY"}
    PROVE  StoreSafe
<1>1. race[p] \in Record /\ s \in States /\ s # "DISCOVERED"
  BY DEF TypeOK, StoreTypeOK, States, Terminal
<1>2. /\ To(race[p], s) \in Record /\ To(race[p], s).state = s
      /\ To(race[p], s).posts = race[p].posts /\ To(race[p], s).armed = FALSE
  BY <1>1, ToFacts
<1>3. race[p].posts = 0
  BY DEF SendInv, RecordInv, RecordOK, InDoubt
<1>4. wire[p] = "none"
  BY <1>3 DEF SendInv, WireInv, TypeOK, WorldTypeOK
<1>5. s \notin InDoubt
  BY DEF InDoubt, Terminal
<1>6. RecordOK(To(race[p], s))
  BY <1>2, <1>3, <1>5 DEF RecordOK
<1>7. race[p].state \notin Terminal /\ race[p].state # "DISCOVERED"
  BY DEF Terminal
<1>8. QED BY <1>1, <1>2, <1>3, <1>4, <1>6, <1>7, UpdateSafe

\* The updates after the POST keep its one attempt.
LEMMA SettleSafe ==
    ASSUME TypeOK, SendInv, UNCHANGED <<wire, sent>>,
           NEW p \in Plans, NEW r \in Record, NEW o \in Outcomes, Write(p, r, o),
           race[p].state \in InDoubt, r.posts = race[p].posts, r.armed = FALSE,
           r.state \in InDoubt \union {"CONFIRMED", "CONFLICT", "REJECTED"},
           r.state = "REJECTED" => wire[p] = "refused"
    PROVE  StoreSafe
<1>1. race[p].posts = 1
  BY DEF SendInv, RecordInv, RecordOK
<1>2. RecordOK(r)
  BY <1>1 DEF RecordOK
<1>3. race[p].state \notin Terminal /\ race[p].state # "DISCOVERED" /\ r.state # "DISCOVERED"
  BY DEF Terminal, InDoubt
<1>4. QED BY <1>1, <1>2, <1>3, UpdateSafe

\* A race whose POST is open is not armed any more.
LEMMA InDoubtUnarmed ==
    ASSUME TypeOK, SendInv, NEW p \in Plans, race[p].state \in InDoubt
    PROVE  race[p].armed = FALSE /\ race[p].posts = 1
BY DEF TypeOK, StoreTypeOK, Record, SendInv, RecordInv, RecordOK, InDoubt

-----------------------------------------------------------------------------
(* What a handler's move keeps. *)

StepSafe == StoreSafe /\ HandlerInv' /\ KillKept

\* At these labels nothing is expected of the store.
LEMMA QuietInv ==
    ASSUME NEW l \in {"down", "idle", "armFailed", "select", "halt"}, NEW p,
           Go(l, p, {}, "idle")
    PROVE  HandlerInv'
BY DEF Go, HandlerInv

LEMMA ReturnInv ==
    ASSUME Return
    PROVE  HandlerInv'
BY QuietInv DEF Return

LEMMA HaltInv ==
    ASSUME Halt("idle")
    PROVE  HandlerInv'
BY QuietInv DEF Halt

LEMMA LoopInv ==
    ASSUME NEW S \in SUBSET Plans, NEW l \in {"importing", "arming", "killing"}, Loop(l, S),
           l = "arming" => \A q \in S : race'[q].state = "VALIDATED",
           l = "killing" => \A q \in S : Haltable(race'[q])
    PROVE  HandlerInv'
<1>1. CASE S = {}
  BY <1>1, ReturnInv DEF Loop
<1>2. CASE S # {}
  BY <1>2 DEF Loop, Go, HandlerInv
<1>3. QED BY <1>1, <1>2

LEMMA ResumeInv ==
    ASSUME Resume, cont \in {"idle", "defer"}, cont = "defer" => race'[cur].state \in InDoubt
    PROVE  HandlerInv'
<1>1. CASE cont = "defer"
  BY <1>1 DEF Resume, Go, HandlerInv, InDoubt
<1>2. CASE cont # "defer"
  BY <1>2, ReturnInv DEF Resume
<1>3. QED BY <1>1, <1>2

LEMMA HaltOverInv ==
    ASSUME NEW S \in SUBSET Plans, HaltOver(S), cont \in {"idle", "defer"},
           cont = "defer" => race'[cur].state \in InDoubt,
           \A q \in S : Haltable(race'[q])
    PROVE  HandlerInv'
<1>1. CASE S = {}
  BY <1>1, ResumeInv DEF HaltOver
<1>2. CASE S # {}
  BY <1>2 DEF HaltOver, Go, HandlerInv, InDoubt
<1>3. QED BY <1>1, <1>2

LEMMA KeepsKill ==
    ASSUME killed' = killed \/ (killed => killed'), sent' = sent
    PROVE  KillKept
BY Zenon DEF KillKept

LEMMA InProcessWorld ==
    ASSUME InProcess
    PROVE  UNCHANGED <<wire, sent>>
BY DEF InProcess, contest

LEMMA NoWriteSafe ==
    ASSUME TypeOK, SendInv, NoWrite, UNCHANGED <<wire, sent>>
    PROVE  StoreSafe /\ KillKept
BY UnchangedSafe, KeepsKill DEF NoWrite

LEMMA WriteKeeps ==
    ASSUME NEW p, NEW r, NEW o, Write(p, r, o), sent' = sent
    PROVE  KillKept
BY KeepsKill DEF Write

LEMMA WriteKillSafe ==
    ASSUME TypeOK, SendInv, NEW o \in Outcomes, WriteKill(o), UNCHANGED <<wire, sent>>
    PROVE  StoreSafe /\ KillKept /\ race' = race
<1>1. race' = race /\ (killed => killed')
  BY WriteKillEffect DEF TypeOK, WorldTypeOK
<1>2. QED BY <1>1, UnchangedSafe, KeepsKill

-----------------------------------------------------------------------------
(* The handlers *)

LEMMA CommandSafe ==
    ASSUME TypeOK, SendInv, Command
    PROVE  StepSafe
<1> USE DEF StepSafe
<1>0. /\ pc = "idle"
      /\ UNCHANGED handler => HandlerInv'
  <2>1. pc = "idle"
    BY DEF Command, ImportPlan, Arm, CancelUnposted, ImportBundle, ArmBundle, Kill
  <2>2. UNCHANGED handler => pc' = "idle"
    BY <2>1 DEF handler
  <2>3. pc' = "idle" => HandlerInv'
    BY DEF HandlerInv
  <2>4. QED BY <2>1, <2>2, <2>3
<1>1. ASSUME NEW p \in Plans, ImportPlan(p) PROVE StepSafe
  <2>1. PICK o \in Outcomes : Write(p, ImportedRecord, o)
    BY <1>1 DEF ImportPlan
  <2>2. ~Known(p) /\ UNCHANGED handler /\ InProcess
    BY <1>1 DEF ImportPlan
  <2>3. QED BY <1>0, <2>1, <2>2, InProcessWorld, ImportSafe, WriteKeeps
<1>2. ASSUME NEW p \in Plans, Arm(p) PROVE StepSafe
  <2> DEFINE r == Armed(race[p], Target[p])
  <2>1. race[p] \in Record /\ Target[p] \in Nat
    BY ScheduleAssumption DEF TypeOK, StoreTypeOK
  <2>2. race[p].state = "VALIDATED" /\ UNCHANGED handler /\ InProcess
    BY <1>2 DEF Arm, Armable
  <2>3. r \in Record /\ r.state = "ARMED" /\ r.posts = race[p].posts
    BY <2>1, ArmedFacts
  <2>4. race[p].posts = 0
    BY <2>2 DEF SendInv, RecordInv, RecordOK, InDoubt
  <2>5. PICK o \in Outcomes : Write(p, r, o)
    BY <1>2 DEF Arm
  <2> HIDE DEF r
  <2>6. RecordOK(r)
    BY <2>3, <2>4 DEF RecordOK, InDoubt
  <2>7. StoreSafe
    BY <2>2, <2>3, <2>4, <2>5, <2>6, InProcessWorld, UpdateSafe DEF Terminal
  <2>8. QED BY <1>0, <2>2, <2>5, <2>7, InProcessWorld, WriteKeeps
<1>3. ASSUME NEW p \in Plans, CancelUnposted(p) PROVE StepSafe
  <2>1. PICK o \in Outcomes : Write(p, To(race[p], "KILLED"), o)
    BY <1>3 DEF CancelUnposted
  <2>2. /\ race[p].state \in {"VALIDATED", "ARMED", "PRECHECKED_EMPTY"}
        /\ UNCHANGED handler /\ InProcess
    BY <1>3 DEF CancelUnposted
  <2>3. "KILLED" \in Terminal
    BY DEF Terminal
  <2>4. QED BY <1>0, <2>1, <2>2, <2>3, InProcessWorld, CloseSafe, WriteKeeps
<1>4. ASSUME NEW B \in Bundles, ImportBundle(B) PROVE StepSafe
  <2>1. Go("importing", NoPlan, B \ Imported, "idle") /\ NoWrite /\ InProcess
    BY <1>4 DEF ImportBundle
  <2>2. HandlerInv'
    BY <2>1 DEF Go, HandlerInv
  <2>3. QED BY <2>1, <2>2, InProcessWorld, NoWriteSafe
<1>5. ASSUME NEW B \in Bundles, ArmBundle(B) PROVE StepSafe
  <2>1. /\ Go("arming", NoPlan, B, "idle") /\ NoWrite /\ InProcess
        /\ \A p \in B : race[p].state = "VALIDATED"
    BY <1>5 DEF ArmBundle, Armable
  <2>2. HandlerInv'
    BY <2>1 DEF Go, HandlerInv, NoWrite
  <2>3. QED BY <2>1, <2>2, InProcessWorld, NoWriteSafe
<1>6. CASE Kill
  <2>1. PICK o \in Outcomes :
           /\ WriteKill(o)
           /\ IF o = "ok" THEN Loop("killing", HaltSet) ELSE Return
    BY <1>6 DEF Kill
  <2>2. InProcess
    BY <1>6 DEF Kill
  <2>3. StoreSafe /\ KillKept /\ race' = race
    BY <2>1, <2>2, InProcessWorld, WriteKillSafe
  <2>4. HaltSet \in SUBSET Plans /\ \A p \in HaltSet : Haltable(race'[p])
    BY <2>3 DEF HaltSet
  <2>5. HandlerInv'
    BY <2>1, <2>4, LoopInv, ReturnInv
  <2>6. QED BY <2>3, <2>5
<1>7. QED BY <1>1, <1>2, <1>3, <1>4, <1>5, <1>6 DEF Command

LEMMA TickSafe ==
    ASSUME TypeOK, SendInv, Tick
    PROVE  StepSafe
<1> USE DEF StepSafe
<1>1. CASE TickExpire
  <2>1. Go("expiring", NoPlan, Expirable, "idle") /\ NoWrite /\ InProcess
    BY <1>1 DEF TickExpire
  <2>2. HandlerInv'
    BY <2>1 DEF Go, HandlerInv, NoWrite, Expirable
  <2>3. QED BY <2>1, <2>2, InProcessWorld, NoWriteSafe
<1>2. ASSUME NEW p \in Plans, Submit(p) PROVE StepSafe
  <2>1. PICK g \in Guard(p) :
          IF g = "PASS"
          THEN IF AutomaticRecovery
               THEN \E o \in Outcomes :
                       /\ Write(p, Prechecking(race[p]), o)
                       /\ IF o = "ok" THEN Go("read", p, {}, "idle") ELSE Return
               ELSE NoWrite /\ Go("read", p, {}, "idle")
          ELSE /\ \E o \in Outcomes : Write(p, To(race[p], g), o)
               /\ Return
    BY <1>2 DEF Submit
  <2>2. InProcess /\ race[p].state = "ARMED" /\ race[p] \in Record
    BY <1>2 DEF Submit, TypeOK, StoreTypeOK
  <2>3. UNCHANGED <<wire, sent>>
    BY <2>2, InProcessWorld
  <2>4. race'[p].state = "ARMED" /\ Go("read", p, {}, "idle") => HandlerInv'
    BY DEF Go, HandlerInv
  <2>5. CASE g = "PASS" /\ AutomaticRecovery
    <3> DEFINE r == Prechecking(race[p])
    <3>1. PICK o \in Outcomes :
            /\ Write(p, r, o)
            /\ IF o = "ok" THEN Go("read", p, {}, "idle") ELSE Return
      BY <2>1, <2>5
    <3>2. r \in Record /\ r.state = "ARMED" /\ r.posts = race[p].posts
      BY <2>2, PrecheckingFacts
    <3> HIDE DEF r
    <3>3. race[p].posts = 0
      BY <2>2 DEF SendInv, RecordInv, RecordOK, InDoubt
    <3>4. RecordOK(r)
      BY <3>2, <3>3 DEF RecordOK, InDoubt
    <3>5. StoreSafe
      BY <2>2, <2>3, <3>1, <3>2, <3>3, <3>4, UpdateSafe DEF Terminal
    <3>6. race'[p].state = "ARMED"
      BY <2>2, <3>1, <3>2, WriteEffect DEF TypeOK, WorldTypeOK
    <3>7. HandlerInv'
      BY <2>4, <3>1, <3>6, ReturnInv
    <3>8. QED BY <2>3, <3>1, <3>5, <3>7, WriteKeeps
  <2>6. CASE g = "PASS" /\ ~AutomaticRecovery
    <3>1. NoWrite /\ Go("read", p, {}, "idle")
      BY <2>1, <2>6
    <3>2. race'[p].state = "ARMED"
      BY <2>2, <3>1 DEF NoWrite
    <3>3. QED BY <2>3, <2>4, <3>1, <3>2, NoWriteSafe
  <2>7. CASE g # "PASS"
    <3>1. PICK o \in Outcomes : Write(p, To(race[p], g), o)
      BY <2>1, <2>7
    <3>2. g \in Terminal
      BY <2>7, GuardTyped DEF Terminal
    <3>3. Return
      BY <2>1, <2>7
    <3>4. StoreSafe
      BY <2>2, <2>3, <3>1, <3>2, CloseSafe
    <3>5. QED BY <2>3, <3>1, <3>3, <3>4, ReturnInv, WriteKeeps
  <2>8. QED BY <2>5, <2>6, <2>7
<1>3. ASSUME NEW p \in Plans, Reconcile(p) PROVE StepSafe
  <2>1. /\ Go(IF now >= DayEnd THEN "defer" ELSE "reread", p, {}, "idle")
        /\ NoWrite /\ InProcess
        /\ race[p].state \in InDoubt
    BY <1>3 DEF Reconcile, InDoubt
  <2>2. HandlerInv'
    BY <2>1 DEF Go, HandlerInv, NoWrite
  <2>3. QED BY <2>1, <2>2, InProcessWorld, NoWriteSafe
<1>4. QED BY <1>1, <1>2, <1>3 DEF Tick

LEMMA LoopStepSafe ==
    ASSUME TypeOK, SendInv, ImportNext \/ ArmNext \/ ArmFailed \/ KillNext \/ ExpireNext
                            \/ TickNothing
    PROVE  StepSafe
<1> USE DEF StepSafe
<1>0. /\ todo \in SUBSET Plans /\ faults \in Nat /\ StoreTypeOK
      /\ \A p \in Plans : race[p] \in Record
  BY DEF TypeOK, HandlerTypeOK, WorldTypeOK, StoreTypeOK
<1>1. CASE ImportNext
  <2>1. PICK p \in todo :
          IF Known(p)
          THEN NoWrite /\ Return
          ELSE \E o \in Outcomes :
                  /\ Write(p, ImportedRecord, o)
                  /\ IF o = "ok" THEN Loop("importing", todo \ {p}) ELSE Return
    BY <1>1 DEF ImportNext
  <2>2. UNCHANGED <<wire, sent>>
    BY <1>1, InProcessWorld DEF ImportNext
  <2>3. CASE Known(p)
    BY <2>1, <2>2, <2>3, NoWriteSafe, ReturnInv
  <2>4. CASE ~Known(p)
    <3>1. PICK o \in Outcomes :
            /\ Write(p, ImportedRecord, o)
            /\ IF o = "ok" THEN Loop("importing", todo \ {p}) ELSE Return
      BY <2>1, <2>4
    <3>2. HandlerInv'
      BY <1>0, <3>1, LoopInv, ReturnInv
    <3>3. QED BY <1>0, <2>2, <2>4, <3>1, <3>2, ImportSafe, WriteKeeps
  <2>5. QED BY <2>3, <2>4
<1>2. CASE ArmNext
  <2>1. PICK p \in todo, o \in Outcomes :
          /\ Write(p, Armed(race[p], Target[p]), o)
          /\ IF o = "ok" THEN Loop("arming", todo \ {p})
                         ELSE Go("armFailed", NoPlan, {}, "idle")
    BY <1>2 DEF ArmNext
  <2> DEFINE r == Armed(race[p], Target[p])
  <2>2. UNCHANGED <<wire, sent>>
    BY <1>2, InProcessWorld DEF ArmNext
  <2>3. p \in Plans /\ \A q \in todo : race[q].state = "VALIDATED"
    BY <1>0, <1>2 DEF ArmNext, SendInv, HandlerInv
  <2>4. race[p] \in Record /\ Target[p] \in Nat
    BY <1>0, <2>3, ScheduleAssumption
  <2>5. r \in Record /\ r.state = "ARMED" /\ r.posts = race[p].posts
    BY <2>4, ArmedFacts
  <2>6. Write(p, r, o)
    BY <2>1
  <2>7. race[p].posts = 0
    BY <2>3 DEF SendInv, RecordInv, RecordOK, InDoubt
  <2> HIDE DEF r
  <2>8. RecordOK(r)
    BY <2>5, <2>7 DEF RecordOK, InDoubt
  <2>9. StoreSafe
    BY <2>2, <2>3, <2>5, <2>6, <2>7, <2>8, UpdateSafe DEF Terminal
  <2>10. \A q \in todo \ {p} : race'[q].state = "VALIDATED"
    BY <1>0, <2>3, <2>5, <2>6, WriteEffect
  <2>11. HandlerInv'
    BY <1>0, <2>1, <2>10, LoopInv, QuietInv
  <2>12. QED BY <2>2, <2>6, <2>9, <2>11, WriteKeeps
<1>3. CASE ArmFailed
  <2>1. PICK o \in Outcomes : WriteKill(o)
    BY <1>3 DEF ArmFailed
  <2>2. Return /\ UNCHANGED <<wire, sent>>
    BY <1>3, InProcessWorld DEF ArmFailed
  <2>3. QED BY <2>1, <2>2, WriteKillSafe, ReturnInv
<1>4. CASE KillNext
  <2>1. PICK p \in todo, o \in Outcomes :
          /\ Write(p, To(race[p], "KILLED"), o)
          /\ IF o = "ok" THEN Loop("killing", todo \ {p}) ELSE Return
    BY <1>4 DEF KillNext
  <2>2. UNCHANGED <<wire, sent>>
    BY <1>4, InProcessWorld DEF KillNext
  <2>3. p \in Plans /\ \A q \in todo : Haltable(race[q])
    BY <1>0, <1>4 DEF KillNext, SendInv, HandlerInv
  <2>4. race[p].state \in {"VALIDATED", "ARMED", "PRECHECKED_EMPTY"}
    BY <2>3 DEF Haltable, SendInv, RecordInv, RecordOK
  <2>5. "KILLED" \in Terminal
    BY DEF Terminal
  <2>6. StoreSafe
    BY <2>1, <2>2, <2>3, <2>4, <2>5, CloseSafe
  <2>7. \A q \in todo \ {p} : Haltable(race'[q])
    BY <1>0, <2>1, <2>3, CloseTyped DEF States, Terminal
  <2>8. HandlerInv'
    BY <1>0, <2>1, <2>7, LoopInv, ReturnInv
  <2>9. QED BY <2>1, <2>2, <2>6, <2>8, WriteKeeps
<1>5. CASE ExpireNext
  <2>1. PICK p \in todo, o \in Outcomes :
          /\ Write(p, To(race[p], "EXPIRED"), o)
          /\ IF todo = {p} THEN Go("select", NoPlan, {}, "idle")
                           ELSE Go("expiring", NoPlan, todo \ {p}, "idle")
    BY <1>5 DEF ExpireNext
  <2>2. UNCHANGED <<wire, sent>>
    BY <1>5, InProcessWorld DEF ExpireNext
  <2>3. p \in Plans /\ \A q \in todo : race[q].state = "VALIDATED"
    BY <1>0, <1>5 DEF ExpireNext, SendInv, HandlerInv
  <2>4. "EXPIRED" \in Terminal
    BY DEF Terminal
  <2>5. StoreSafe
    BY <2>1, <2>2, <2>3, <2>4, CloseSafe
  <2>6. \A q \in todo \ {p} : race'[q].state = "VALIDATED"
    BY <1>0, <2>1, <2>3, CloseTyped DEF States, Terminal
  <2>7. HandlerInv'
    BY <2>1, <2>6, QuietInv DEF Go, HandlerInv
  <2>8. QED BY <2>1, <2>2, <2>5, <2>7, WriteKeeps
<1>6. CASE TickNothing
  BY <1>6, InProcessWorld, NoWriteSafe, ReturnInv DEF TickNothing
<1>7. QED BY <1>1, <1>2, <1>3, <1>4, <1>5, <1>6

\* The budget check speaks of the records only.
LEMMA BudgetSame ==
    ASSUME race' = race, cur' = cur
    PROVE  WithinBudget(cur)' <=> WithinBudget(cur)
BY DEF WithinBudget

LEMMA SubmissionStepSafe ==
    ASSUME TypeOK, SendInv, ReadFails \/ ReadAnswers \/ BeforePost \/ Commit \/ Send
    PROVE  StepSafe
<1> USE DEF StepSafe
<1>0. /\ faults \in Nat /\ now \in Nat /\ cur \in Plans /\ race[cur] \in Record
      /\ StoreTypeOK
  BY DEF TypeOK, WorldTypeOK, HandlerTypeOK, StoreTypeOK, PlanLabels, ReadFails, ReadAnswers,
         BeforePost, Commit, Send
<1>1. {"REJECTED", "KILLED", "EXPIRED", "CONFLICT", "CONFIRMED_EXISTING"} \subseteq Terminal
  BY DEF Terminal
<1>2. CASE ReadFails
  <2>1. UNCHANGED <<wire, sent>> /\ race[cur].state = "ARMED"
    BY <1>2, InProcessWorld DEF ReadFails, SendInv, HandlerInv
  <2>2. CASE AutomaticRecovery
    <3> DEFINE m == race[cur]
               t == Later(RetryDelay)
               d == Deadline[cur]
               r == Retried(m, t, d)
    <3>1. t \in Nat /\ d \in Nat /\ m \in Record
      BY <1>0, LaterTyped, PolicyAssumption, ScheduleAssumption
    <3> HIDE DEF m, t, d
    <3>2. /\ r \in Record /\ r.state \in {"ARMED", "REJECTED"}
          /\ r.posts = m.posts
          /\ r.armed => r.state = "ARMED"
      BY <3>1, RetriedFacts
    <3> USE DEF m
    <3>3. PICK o \in Outcomes : Write(cur, r, o)
      BY <1>2, <2>2 DEF ReadFails, t, d
    <3>4. Return
      BY <1>2, <2>2 DEF ReadFails
    <3> HIDE DEF r
    <3>5. race[cur].posts = 0 /\ wire[cur] = "none"
      BY <1>0, <2>1 DEF SendInv, RecordInv, RecordOK, InDoubt, WireInv, TypeOK, WorldTypeOK
    <3>6. RecordOK(r)
      BY <3>2, <3>5 DEF RecordOK, InDoubt
    <3>7. StoreSafe
      BY <1>0, <2>1, <3>2, <3>3, <3>5, <3>6, UpdateSafe DEF Terminal
    <3>8. QED BY <2>1, <3>3, <3>4, <3>7, ReturnInv, WriteKeeps
  <2>3. CASE ~AutomaticRecovery
    <3>1. PICK o \in Outcomes : Write(cur, To(race[cur], "REJECTED"), o)
      BY <1>2, <2>3 DEF ReadFails
    <3>2. Halt("idle")
      BY <1>2, <2>3 DEF ReadFails
    <3>3. StoreSafe
      BY <1>0, <1>1, <2>1, <3>1, CloseSafe
    <3>4. QED BY <2>1, <3>1, <3>2, <3>3, HaltInv, WriteKeeps
  <2>4. QED BY <2>2, <2>3
<1>3. CASE ReadAnswers
  <2> DEFINE s == PrecheckState(vote[RaceOf[cur]])
             r == To(race[cur], s)
  <2>1. s \in Terminal \/ s = "PRECHECKED_EMPTY"
    BY DEF PrecheckState, Terminal
  <2> HIDE DEF s
  <2>2. PICK o \in Outcomes :
          /\ Write(cur, r, o)
          /\ IF s = "CONFLICT" THEN Halt("idle")
             ELSE IF s = "PRECHECKED_EMPTY" /\ o = "ok"
                  THEN Go("guard", cur, {}, "idle")
                  ELSE Return
    BY <1>3 DEF ReadAnswers, s
  <2>3. UNCHANGED <<wire, sent>> /\ race[cur].state = "ARMED"
    BY <1>3, InProcessWorld DEF ReadAnswers, SendInv, HandlerInv
  <2>4. CASE s \in Terminal
    <3>1. StoreSafe
      BY <1>0, <2>2, <2>3, <2>4, CloseSafe
    <3>2. s # "PRECHECKED_EMPTY"
      BY <2>4 DEF Terminal
    <3>3. HandlerInv'
      BY <2>2, <3>2, HaltInv, ReturnInv
    <3>4. QED BY <2>2, <2>3, <3>1, <3>3, WriteKeeps
  <2>5. CASE s = "PRECHECKED_EMPTY"
    <3>1. s \in States
      BY <2>5 DEF States
    <3>2. r \in Record /\ r.state = "PRECHECKED_EMPTY" /\ r.posts = race[cur].posts
      BY <1>0, <2>5, <3>1, ToFacts
    <3>3. Write(cur, r, o) /\ IF o = "ok" THEN Go("guard", cur, {}, "idle") ELSE Return
      BY <2>2, <2>5
    <3> HIDE DEF r
    <3>4. race[cur].posts = 0
      BY <1>0, <2>3 DEF SendInv, RecordInv, RecordOK, InDoubt
    <3>5. RecordOK(r)
      BY <3>2, <3>4 DEF RecordOK, InDoubt
    <3>6. StoreSafe
      BY <1>0, <2>3, <3>2, <3>3, <3>4, <3>5, UpdateSafe DEF Terminal
    <3>7. o = "ok" => race'[cur] = r
      BY <1>0, <3>2, <3>3, WriteEffect
    <3>8. HandlerInv'
      BY <3>2, <3>3, <3>7, ReturnInv DEF Go, HandlerInv
    <3>9. QED BY <2>3, <3>3, <3>6, <3>8, WriteKeeps
  <2>6. QED BY <2>1, <2>4, <2>5
<1>4. CASE BeforePost
  <2>1. PICK g \in PostGuard :
          IF g # "PASS"
          THEN (\E o \in Outcomes : Write(cur, To(race[cur], g), o)) /\ Return
          ELSE IF WithinBudget(cur)
               THEN NoWrite /\ Go("commit", cur, {}, "idle")
               ELSE /\ \E o \in Outcomes : Write(cur, To(race[cur], "REJECTED"), o)
                    /\ Halt("idle")
    BY <1>4 DEF BeforePost
  <2>2. UNCHANGED <<wire, sent>> /\ race[cur].state = "PRECHECKED_EMPTY"
    BY <1>4, InProcessWorld DEF BeforePost, SendInv, HandlerInv
  <2>3. race[cur].posts = 0 /\ sent[cur] = 0
    BY <1>0, <2>2 DEF SendInv, RecordInv, RecordOK, InDoubt, WireInv, TypeOK, WorldTypeOK
  <2>4. CASE g # "PASS"
    <3>1. PICK o \in Outcomes : Write(cur, To(race[cur], g), o)
      BY <2>1, <2>4
    <3>2. g \in Terminal /\ Return
      BY <2>1, <2>4, GuardTyped DEF Terminal, PostGuard
    <3>3. StoreSafe
      BY <1>0, <2>2, <3>1, <3>2, CloseSafe
    <3>4. QED BY <2>2, <3>1, <3>2, <3>3, ReturnInv, WriteKeeps
  <2>5. CASE g = "PASS" /\ NoWrite /\ Go("commit", cur, {}, "idle") /\ WithinBudget(cur)
    <3>1. race' = race /\ killed' = killed
      BY <2>5 DEF NoWrite
    <3>2. StoreSafe
      BY <2>2, <3>1, UnchangedSafe
    <3>3. ~killed
      BY <2>5 DEF PostGuard, Guard
    <3>4. KillKept
      BY <2>2, <3>3, Zenon DEF KillKept
    <3>5. /\ pc' = "commit" /\ cur' = cur /\ todo' = {} /\ cont' = "idle"
          /\ race'[cur].state = "PRECHECKED_EMPTY"
      BY <2>2, <2>5, <3>1 DEF Go
    <3>6. WithinBudget(cur)'
      BY <2>5, <3>1, <3>5, BudgetSame
    <3>7. HandlerInv'
      BY <3>1, <3>3, <3>5, <3>6 DEF HandlerInv
    <3>8. QED BY <3>2, <3>4, <3>7
  <2>6. CASE /\ Halt("idle")
             /\ \E o \in Outcomes : Write(cur, To(race[cur], "REJECTED"), o)
    <3>1. PICK o \in Outcomes : Write(cur, To(race[cur], "REJECTED"), o)
      BY <2>6
    <3>2. StoreSafe
      BY <1>0, <1>1, <2>2, <3>1, CloseSafe
    <3>3. QED BY <2>2, <2>6, <3>1, <3>2, HaltInv, WriteKeeps
  <2>7. QED BY <2>1, <2>4, <2>5, <2>6
<1>5. CASE Commit
  <2>1. UNCHANGED <<wire, sent>> /\ race[cur].state = "PRECHECKED_EMPTY" /\ ~killed
    BY <1>5, InProcessWorld DEF Commit, SendInv, HandlerInv
  <2>2. race[cur].posts = 0 /\ sent[cur] = 0
    BY <1>0, <2>1 DEF SendInv, RecordInv, RecordOK, InDoubt, WireInv, TypeOK, WorldTypeOK
  <2> DEFINE r == Posting(race[cur])
  <2>3. /\ r \in Record /\ r.state = "POSTING"
        /\ r.posts = race[cur].posts + 1 /\ r.armed = FALSE
    BY <1>0, PostingFacts
  <2>4. PICK o \in Outcomes :
          Write(cur, r, o) /\ IF o = "ok" THEN Go("post", cur, {}, "idle") ELSE Return
    BY <1>5, <2>2 DEF Commit, POSTMaxAttempts
  <2> HIDE DEF r
  <2>5. RecordOK(r)
    BY <2>2, <2>3 DEF RecordOK, InDoubt
  <2>6. pc = "commit"
    BY <1>5 DEF Commit
  <2>7. StoreSafe
    BY <1>0, <2>1, <2>2, <2>3, <2>4, <2>5, <2>6, UpdateSafe DEF Terminal
  <2>8. killed' = killed /\ (o = "ok" => race'[cur] = r)
    BY <1>0, <2>3, <2>4, WriteEffect
  <2>9. HandlerInv'
    <3>1. CASE o = "ok"
      <4>1. /\ pc' = "post" /\ cur' = cur /\ todo' = {} /\ cont' = "idle"
            /\ race'[cur].state = "POSTING" /\ sent'[cur] = 0 /\ ~killed'
        BY <2>1, <2>2, <2>3, <2>4, <2>8, <3>1 DEF Go
      <4>2. QED BY <4>1 DEF HandlerInv
    <3>2. CASE o # "ok"
      BY <2>4, <3>2, ReturnInv
    <3>3. QED BY <3>1, <3>2
  <2>10. QED BY <2>1, <2>4, <2>7, <2>9, WriteKeeps
<1>6. CASE Send
  <2>1. /\ race[cur].state = "POSTING" /\ sent[cur] = 0 /\ ~killed
        /\ race[cur].posts = 1
    BY <1>0, <1>6 DEF Send, SendInv, HandlerInv, RecordInv, RecordOK, InDoubt
  <2>2. /\ race' = race /\ killed' = killed
        /\ sent' = [sent EXCEPT ![cur] = @ + 1]
        /\ wire' = [wire EXCEPT ![cur] = "inflight"]
        /\ pc' = "wait" /\ cur' = cur /\ todo' = {} /\ cont' = "idle"
    BY <1>6 DEF Send, NoWrite, Go
  <2>3. /\ sent \in [Plans -> Nat] /\ race \in [Plans -> Record]
        /\ wire \in [Plans -> {"none", "inflight", "accepted", "refused"}]
    BY DEF TypeOK, WorldTypeOK, StoreTypeOK
  <2>4. /\ sent'[cur] = 1 /\ wire'[cur] = "inflight"
        /\ \A q \in Plans : q # cur => sent'[q] = sent[q] /\ wire'[q] = wire[q]
    BY <1>0, <2>1, <2>2, <2>3
  <2>5. RecordInv' /\ RivalsInv' /\ TerminalKept /\ CommitStep
    BY <2>2, <2>3 DEF SendInv, RecordInv, RivalsInv, Imported, TerminalKept, CommitStep,
                      Record
  <2>6. WireInv'
    BY <2>1, <2>2, <2>4 DEF SendInv, WireInv
  <2>7. HandlerInv'
    BY <2>1, <2>2, <2>4 DEF HandlerInv
  <2>8. KillKept
    BY <2>1, Zenon DEF KillKept
  <2>9. QED BY <2>5, <2>6, <2>7, <2>8 DEF StoreSafe
<1>7. QED BY <1>2, <1>3, <1>4, <1>5, <1>6

LEMMA PostFailsSafe ==
    ASSUME TypeOK, SendInv, pc = "wait", NEW s \in {"AMBIGUOUS", "REJECTED"}, PostFails(s),
           s = "REJECTED" => wire[cur] = "refused"
    PROVE  StepSafe
<1>0. cur \in Plans /\ race[cur] \in Record /\ now \in Nat
  BY DEF TypeOK, HandlerTypeOK, StoreTypeOK, WorldTypeOK, PlanLabels
<1>1. race[cur].state \in InDoubt
  BY DEF SendInv, HandlerInv, InDoubt
<1>2. race[cur].armed = FALSE
  BY <1>0, <1>1, InDoubtUnarmed
<1>3. Later(InitialWait) \in Time /\ s \in States
  BY <1>0, LaterTyped, PolicyAssumption DEF Time, States, Terminal
<1> DEFINE r == IF s = "AMBIGUOUS"
                THEN Awaiting(race[cur], s, Later(InitialWait))
                ELSE To(race[cur], s)
<1>4. /\ r \in Record /\ r.state = s /\ r.posts = race[cur].posts
      /\ r.armed = FALSE
  <2>1. CASE s = "AMBIGUOUS"
    <3>1. s \notin Terminal
      BY <2>1 DEF Terminal
    <3>2. /\ Awaiting(race[cur], s, Later(InitialWait)) \in Record
          /\ Awaiting(race[cur], s, Later(InitialWait)).state = s
          /\ Awaiting(race[cur], s, Later(InitialWait)).posts = race[cur].posts
          /\ Awaiting(race[cur], s, Later(InitialWait)).armed = race[cur].armed
      BY <1>0, <1>3, <3>1, AwaitingFacts
    <3>3. QED BY <1>2, <2>1, <3>2
  <2>2. CASE s = "REJECTED"
    <3>1. s \in Terminal /\ s # "AMBIGUOUS"
      BY <2>2 DEF Terminal
    <3>2. /\ To(race[cur], s) \in Record /\ To(race[cur], s).state = s
          /\ To(race[cur], s).posts = race[cur].posts /\ To(race[cur], s).armed = FALSE
      BY <1>0, <1>3, <3>1, ToFacts
    <3>3. QED BY <3>1, <3>2
  <2>3. QED BY <2>1, <2>2
<1> HIDE DEF r
<1>5. PICK o \in Outcomes : Write(cur, r, o)
  BY DEF PostFails, r
<1>6. /\ UNCHANGED <<wire, sent>>
      /\ IF AutomaticRecovery THEN Return ELSE Halt("idle")
  BY InProcessWorld DEF PostFails
<1>7. StoreSafe
  BY <1>0, <1>1, <1>4, <1>5, <1>6, SettleSafe DEF InDoubt
<1>8. QED BY <1>5, <1>6, <1>7, ReturnInv, HaltInv, WriteKeeps DEF StepSafe

LEMMA OutcomeStepSafe ==
    ASSUME TypeOK, SendInv, PostAccepted \/ PostRefused \/ PostUnknown
                            \/ RereadFails \/ RereadAnswers \/ Defer
    PROVE  StepSafe
<1>0. /\ now \in Nat /\ faults \in Nat /\ cur \in Plans /\ race[cur] \in Record
      /\ StoreTypeOK
  BY DEF TypeOK, WorldTypeOK, HandlerTypeOK, StoreTypeOK, PlanLabels, PostAccepted,
         PostRefused, PostUnknown, RereadFails, RereadAnswers, Defer
<1>1. race[cur].state \in InDoubt
  BY DEF SendInv, HandlerInv, InDoubt, PostAccepted, PostRefused, PostUnknown, RereadFails,
         RereadAnswers, Defer
<1>2. race[cur].armed = FALSE
  BY <1>0, <1>1, InDoubtUnarmed
<1>3. CASE PostAccepted
  <2> DEFINE s == "PENDING_CONFIRMATION"
             t == Later(InitialWait)
             m == race[cur]
             r == Awaiting(m, s, t)
  <2>1. t \in Time /\ s \in States /\ s \notin Terminal /\ s \in InDoubt
    BY <1>0, LaterTyped, PolicyAssumption DEF Time, States, Terminal, InDoubt
  <2>2. m \in Record
    BY <1>0
  <2>3. PICK o \in Outcomes : Write(cur, r, o)
    BY <1>3 DEF PostAccepted
  <2>4. Return /\ UNCHANGED <<wire, sent>>
    BY <1>3, InProcessWorld DEF PostAccepted
  <2> HIDE DEF s, t, m
  <2>5. r \in Record /\ r.state = s /\ r.posts = m.posts /\ r.armed = m.armed
    BY <2>1, <2>2, AwaitingFacts
  <2> HIDE DEF r
  <2>6. StoreSafe
    BY <1>0, <1>1, <1>2, <2>1, <2>3, <2>4, <2>5, SettleSafe DEF InDoubt, m
  <2>7. QED BY <2>3, <2>4, <2>6, ReturnInv, WriteKeeps DEF StepSafe
<1>4. CASE PostRefused
  BY <1>4, PostFailsSafe DEF PostRefused, RefusedState
<1>5. CASE PostUnknown
  BY <1>5, PostFailsSafe DEF PostUnknown, UnknownState
<1>6. CASE RereadFails
  <2>1. /\ IF AutomaticRecovery THEN Go("defer", cur, {}, "idle") ELSE Halt("defer")
        /\ NoWrite /\ UNCHANGED <<wire, sent>>
    BY <1>6, InProcessWorld DEF RereadFails
  <2>2. race'[cur].state \in InDoubt
    BY <1>1, <2>1 DEF NoWrite
  <2>3. HandlerInv'
    BY <2>1, <2>2 DEF Go, Halt, HandlerInv, InDoubt
  <2>4. QED BY <2>1, <2>3, NoWriteSafe DEF StepSafe
<1>7. CASE RereadAnswers
  <2> DEFINE v == vote[RaceOf[cur]]
             s == RereadState(v)
             r == Verified(race[cur], s)
  <2>1. s \in {"CONFIRMED", "CONFLICT"}
    BY DEF RereadState
  <2> HIDE DEF s
  <2>2. IF v = NoVote
        THEN NoWrite /\ Go("defer", cur, {}, "idle")
        ELSE \E o \in Outcomes :
                /\ Write(cur, r, o)
                /\ IF s = "CONFLICT" THEN Halt("idle") ELSE Return
    BY <1>7 DEF RereadAnswers, s
  <2>3. UNCHANGED <<wire, sent>>
    BY <1>7, InProcessWorld DEF RereadAnswers
  <2> HIDE DEF v
  <2>4. s \in Terminal
    BY <2>1 DEF Terminal
  <2>5. r \in Record /\ r.state = s /\ r.posts = race[cur].posts /\ r.armed = FALSE
    BY <1>0, <2>4, VerifiedFacts
  <2> HIDE DEF r
  <2>6. CASE v = NoVote
    <3>1. NoWrite /\ Go("defer", cur, {}, "idle")
      BY <2>2, <2>6
    <3>2. HandlerInv'
      BY <1>1, <3>1 DEF NoWrite, Go, HandlerInv, InDoubt
    <3>3. QED BY <2>3, <3>1, <3>2, NoWriteSafe DEF StepSafe
  <2>7. CASE v # NoVote
    <3>1. PICK o \in Outcomes :
            Write(cur, r, o) /\ IF s = "CONFLICT" THEN Halt("idle") ELSE Return
      BY <2>2, <2>7
    <3>2. StoreSafe
      BY <1>0, <1>1, <2>1, <2>3, <2>5, <3>1, SettleSafe
    <3>3. QED BY <2>3, <3>1, <3>2, HaltInv, ReturnInv, WriteKeeps DEF StepSafe
  <2>8. QED BY <2>6, <2>7
<1>8. CASE Defer
  <2> DEFINE r == Deferred(race[cur], Later(Interval))
  <2>1. Later(Interval) \in Nat
    BY <1>0, LaterTyped, PolicyAssumption
  <2>2. /\ r \in Record /\ r.state = "AMBIGUOUS" /\ r.posts = race[cur].posts
        /\ r.armed = race[cur].armed
    BY <1>0, <2>1, DeferredFacts
  <2> HIDE DEF r
  <2>3. PICK o \in Outcomes :
          /\ Write(cur, r, o)
          /\ IF o = "ok" /\ r.gets >= VerificationMaxGETAttempts
             THEN Halt("idle") ELSE Return
    BY <1>8 DEF Defer, r
  <2>4. UNCHANGED <<wire, sent>>
    BY <1>8, InProcessWorld DEF Defer
  <2>5. StoreSafe
    BY <1>0, <1>1, <1>2, <2>2, <2>3, <2>4, SettleSafe DEF InDoubt
  <2>6. QED BY <2>3, <2>4, <2>5, HaltInv, ReturnInv, WriteKeeps DEF StepSafe
<1>9. QED BY <1>3, <1>4, <1>5, <1>6, <1>7, <1>8

LEMMA HaltStepSafe ==
    ASSUME TypeOK, SendInv, HaltDay \/ HaltNext
    PROVE  StepSafe
<1>0. /\ cur \in Plans /\ cont \in {"idle", "defer"} /\ todo \in SUBSET Plans
      /\ faults \in Nat /\ StoreTypeOK
      /\ \A p \in Plans : race[p] \in Record
  BY DEF TypeOK, WorldTypeOK, HandlerTypeOK, StoreTypeOK, PlanLabels, HaltDay, HaltNext
<1>1. cont = "defer" => race[cur].state \in InDoubt
  BY DEF HaltDay, HaltNext, SendInv, HandlerInv
<1>2. UNCHANGED <<wire, sent>>
  BY InProcessWorld DEF HaltDay, HaltNext
<1>3. HaltSet \in SUBSET Plans /\ (race' = race => \A q \in HaltSet : Haltable(race'[q]))
  BY DEF HaltSet
<1>4. race' = race /\ HaltOver(HaltSet) => HandlerInv'
  BY <1>0, <1>1, <1>3, HaltOverInv
<1>5. CASE HaltDay
  <2>1. CASE killed
    <3>1. NoWrite /\ HaltOver(HaltSet)
      BY <1>5, <2>1 DEF HaltDay
    <3>2. QED BY <1>2, <1>4, <3>1, NoWriteSafe DEF NoWrite, StepSafe
  <2>2. CASE ~killed
    <3>1. PICK o \in Outcomes :
            WriteKill(o) /\ IF o = "ok" THEN HaltOver(HaltSet) ELSE Resume
      BY <1>5, <2>2 DEF HaltDay
    <3>2. StoreSafe /\ KillKept /\ race' = race
      BY <1>2, <3>1, WriteKillSafe
    <3>3. Resume => HandlerInv'
      BY <1>0, <1>1, <3>2, ResumeInv
    <3>4. QED BY <1>4, <3>1, <3>2, <3>3 DEF StepSafe
  <2>3. QED BY <2>1, <2>2
<1>6. CASE HaltNext
  <2>1. PICK p \in todo, o \in Outcomes :
          Write(p, To(race[p], "KILLED"), o) /\ HaltOver(todo \ {p})
    BY <1>6 DEF HaltNext
  <2>2. p \in Plans /\ \A q \in todo : Haltable(race[q])
    BY <1>0, <1>6 DEF HaltNext, SendInv, HandlerInv
  <2>3. race[p].state \in {"VALIDATED", "ARMED", "PRECHECKED_EMPTY"}
    BY <2>2 DEF Haltable, SendInv, RecordInv, RecordOK
  <2>4. "KILLED" \in Terminal
    BY DEF Terminal
  <2>5. StoreSafe
    BY <1>2, <2>1, <2>2, <2>3, <2>4, CloseSafe
  <2>6. \A q \in Plans : q # p => race'[q] = race[q]
    BY <1>0, <2>1, <2>2, CloseTyped DEF States, Terminal
  <2>7. cont = "defer" => race'[cur].state \in InDoubt
    BY <1>0, <1>1, <2>3, <2>6 DEF InDoubt
  <2>8. HandlerInv'
    BY <1>0, <2>1, <2>2, <2>6, <2>7, HaltOverInv
  <2>9. QED BY <1>2, <2>1, <2>5, <2>8, WriteKeeps DEF StepSafe
<1>7. QED BY <1>5, <1>6

LEMMA RecoverOverInv ==
    ASSUME NEW S \in SUBSET Plans, RecoverOver(S), \A q \in S : NeedsRecovery(race'[q])
    PROVE  HandlerInv'
<1>1. CASE S = {}
  BY <1>1, ReturnInv DEF RecoverOver
<1>2. CASE S # {}
  BY <1>2 DEF RecoverOver, Go, HandlerInv
<1>3. QED BY <1>1, <1>2

LEMMA ProcessStepSafe ==
    ASSUME TypeOK, SendInv, Crash \/ Start \/ Recover \/ RecoverNext
    PROVE  StepSafe
<1>0. /\ todo \in SUBSET Plans /\ faults \in Nat /\ now \in Nat /\ StoreTypeOK
      /\ \A p \in Plans : race[p] \in Record
  BY DEF TypeOK, WorldTypeOK, HandlerTypeOK, StoreTypeOK
<1>1. UNCHANGED <<wire, sent>>
  BY InProcessWorld DEF Crash, Start, Recover, RecoverNext, contest
<1>2. CASE Crash
  <2>1. Go("down", NoPlan, {}, "idle") /\ NoWrite
    BY <1>2 DEF Crash
  <2>2. QED BY <1>1, <2>1, QuietInv, NoWriteSafe DEF StepSafe
<1>3. CASE Start
  BY <1>1, <1>3, ReturnInv, NoWriteSafe DEF Start, StepSafe
<1>4. CASE Recover
  <2>1. RecoverOver(RecoverSet) /\ NoWrite
    BY <1>4 DEF Recover
  <2>2. RecoverSet \in SUBSET Plans /\ \A q \in RecoverSet : NeedsRecovery(race'[q])
    BY <2>1 DEF RecoverSet, NoWrite
  <2>3. QED BY <1>1, <2>1, <2>2, RecoverOverInv, NoWriteSafe DEF StepSafe
<1>5. CASE RecoverNext
  <2>1. PICK p \in todo, o \in Outcomes :
          /\ Write(p, Recovered(race[p], now), o)
          /\ IF o = "ok" THEN RecoverOver(todo \ {p})
             ELSE Go("down", NoPlan, {}, "idle") /\ UNCHANGED recovered
    BY <1>5 DEF RecoverNext
  <2> DEFINE r == Recovered(race[p], now)
  <2>2. p \in Plans /\ \A q \in todo : NeedsRecovery(race[q])
    BY <1>0, <1>5 DEF RecoverNext, SendInv, HandlerInv
  <2>3. /\ r \in Record /\ r.posts = race[p].posts
        /\ race[p].state = "PRECHECKED_EMPTY" => r.state = "ARMED"
        /\ race[p].state # "PRECHECKED_EMPTY"
              => r.state = "AMBIGUOUS" /\ r.armed = race[p].armed
    BY <1>0, <2>2, RecoveredFacts
  <2>4. Write(p, r, o)
    BY <2>1
  <2> HIDE DEF r
  <2>5. StoreSafe
    <3>1. CASE race[p].state = "PRECHECKED_EMPTY"
      <4>1. race[p].posts = 0
        BY <2>2, <3>1 DEF NeedsRecovery
      <4>2. RecordOK(r)
        BY <2>3, <3>1, <4>1 DEF RecordOK, InDoubt
      <4>3. QED BY <1>1, <2>2, <2>3, <2>4, <3>1, <4>1, <4>2, UpdateSafe DEF Terminal
    <3>2. CASE race[p].state # "PRECHECKED_EMPTY"
      <4>1. race[p].state \in InDoubt
        BY <2>2, <3>2 DEF NeedsRecovery, InDoubt
      <4>2. r.armed = FALSE
        BY <2>2, <2>3, <3>2, <4>1, InDoubtUnarmed
      <4>3. QED BY <1>1, <2>2, <2>3, <2>4, <3>2, <4>1, <4>2, SettleSafe DEF InDoubt
    <3>3. QED BY <3>1, <3>2
  <2>6. \A q \in todo \ {p} : NeedsRecovery(race'[q])
    BY <1>0, <2>2, <2>3, <2>4, WriteEffect
  <2>7. HandlerInv'
    BY <1>0, <2>1, <2>6, RecoverOverInv, QuietInv
  <2>8. QED BY <1>1, <2>4, <2>5, <2>7, WriteKeeps DEF StepSafe
<1>6. QED BY <1>2, <1>3, <1>4, <1>5

LEMMA WorldStepSafe ==
    ASSUME TypeOK, SendInv, Contest \/ ToggleStop \/ PassTime \/ UNCHANGED vars
    PROVE  StepSafe
<1>1. race' = race /\ killed' = killed /\ sent' = sent /\ UNCHANGED handler
  BY DEF Contest, Accept, Refuse, Publish, VoteByHand, OnlyContest, ToggleStop, PassTime,
         vars, store, daemon
<1>2. HandlerInv'
  BY <1>1, BudgetSame DEF handler, SendInv, HandlerInv
<1>3. KillKept
  BY <1>1, KeepsKill
<1>4. CASE UNCHANGED wire
  BY <1>1, <1>2, <1>3, <1>4, UnchangedSafe DEF StepSafe
<1>5. ASSUME NEW p \in Plans, Accept(p) \/ Refuse(p) PROVE StepSafe
  <2>1. wire[p] = "inflight" /\ \A q \in Plans : q # p => wire'[q] = wire[q]
    BY <1>5 DEF Accept, Refuse, TypeOK, WorldTypeOK
  <2>2. WireInv'
    BY <1>1, <2>1 DEF SendInv, WireInv
  <2>3. RecordInv' /\ RivalsInv' /\ TerminalKept /\ CommitStep
    BY <1>1 DEF SendInv, RecordInv, RivalsInv, Imported, TerminalKept, CommitStep, TypeOK,
                StoreTypeOK, Record
  <2>4. QED BY <1>2, <1>3, <2>2, <2>3 DEF StepSafe, StoreSafe
<1>6. QED BY <1>4, <1>5 DEF Contest, Publish, VoteByHand, ToggleStop, PassTime, vars, contest

LEMMA StepIsSafe ==
    ASSUME TypeOK, SendInv, [Next]_vars
    PROVE  StepSafe
BY CommandSafe, TickSafe, LoopStepSafe, SubmissionStepSafe, OutcomeStepSafe, HaltStepSafe,
   ProcessStepSafe, WorldStepSafe DEF Next, Continue

-----------------------------------------------------------------------------
(* The theorems *)

\* The inductive invariant: requests only behind their own durable attempt, one
\* plan per race in the store, and what a handler has read still holds.
THEOREM SendInvariant == Spec => []SendInv
<1>1. Init => SendInv
  <2> SUFFICES ASSUME Init PROVE SendInv
    OBVIOUS
  <2>1. \A p \in Plans : race[p] = Unknown /\ sent[p] = 0 /\ wire[p] = "none"
    BY DEF Init
  <2>2. Unknown.state = "DISCOVERED" /\ Unknown.posts = 0 /\ Unknown.armed = FALSE
    BY DEF Unknown
  <2>3. RecordInv
    BY <2>1, <2>2 DEF RecordInv, RecordOK, InDoubt
  <2>4. WireInv
    BY <2>1, <2>2 DEF WireInv
  <2>5. RivalsInv
    BY <2>1, <2>2 DEF RivalsInv, Imported
  <2>6. HandlerInv
    BY DEF Init, HandlerInv
  <2>7. QED BY <2>3, <2>4, <2>5, <2>6 DEF SendInv
<1>2. TypeOK /\ SendInv /\ [Next]_vars => SendInv'
  BY StepIsSafe DEF StepSafe, StoreSafe, SendInv
<1>3. QED BY <1>1, <1>2, TypeCorrect, PTL DEF Spec

\* One race gets at most one POST in its life, for any plans, limits, faults and
\* crashes: Submit in executeSubmission and what Recover does after a restart.
THEOREM OnePostPerRace == Spec => []AtMostOnePostPerRace
<1>1. TypeOK /\ SendInv => AtMostOnePostPerRace
  <2> SUFFICES ASSUME TypeOK, SendInv, NEW p \in Plans, NEW q \in Plans,
                      RaceOf[p] = RaceOf[q], sent[p] > 0, sent[q] > 0
               PROVE  p = q /\ sent[p] = 1
    BY DEF AtMostOnePostPerRace
  <2>1. /\ sent[p] \in Nat /\ sent[q] \in Nat
        /\ sent[p] <= race[p].posts /\ sent[q] <= race[q].posts
        /\ RecordOK(race[p]) /\ RecordOK(race[q])
    BY DEF TypeOK, WorldTypeOK, SendInv, WireInv, RecordInv
  <2>2. race[p].posts = 1 /\ race[q].posts = 1
    BY <2>1 DEF RecordOK
  <2>3. p \in Imported /\ q \in Imported
    BY <2>1, <2>2 DEF RecordOK, InDoubt, Imported
  <2>4. p = q
    BY <2>3 DEF SendInv, RivalsInv
  <2>5. QED BY <2>1, <2>2, <2>4
<1>2. QED BY <1>1, TypeCorrect, SendInvariant, PTL

\* A race closed without an accepted POST never hides a request the contest has
\* taken or may still take.
THEOREM NothingHidden == Spec => []NoHiddenVote
<1>1. TypeOK /\ SendInv => NoHiddenVote
  <2> SUFFICES ASSUME TypeOK, SendInv, NEW p \in Plans,
                      race[p].state \in {"DISCOVERED", "VALIDATED", "ARMED",
                        "PRECHECKED_EMPTY", "CONFIRMED_EXISTING", "REJECTED",
                        "EXPIRED", "KILLED"}
               PROVE  wire[p] \in {"none", "refused"}
    BY DEF NoHiddenVote
  <2>1. CASE race[p].state = "REJECTED"
    BY <2>1 DEF SendInv, WireInv
  <2>2. CASE race[p].state # "REJECTED"
    <3>1. race[p].posts = 0
      BY <2>2 DEF SendInv, RecordInv, RecordOK, InDoubt
    <3>2. QED BY <3>1 DEF SendInv, WireInv, TypeOK, WorldTypeOK
  <2>3. QED BY <2>1, <2>2
<1>2. QED BY <1>1, TypeCorrect, SendInvariant, PTL

\* A killed day stays killed and sends nothing more, in any later process.
THEOREM KilledForGood == Spec => KillIsFinal
<1>1. TypeOK /\ SendInv /\ [Next]_vars => [KillKept]_vars
  BY StepIsSafe DEF StepSafe
<1>2. QED BY <1>1, TypeCorrect, SendInvariant, PTL DEF Spec, KillIsFinal

\* No handler, loop or restart moves a race out of a terminal state.
THEOREM TerminalForGood == Spec => TerminalIsFinal
<1>1. TypeOK /\ SendInv /\ [Next]_vars => [TerminalKept]_vars
  BY StepIsSafe DEF StepSafe, StoreSafe
<1>2. QED BY <1>1, TypeCorrect, SendInvariant, PTL DEF Spec, TerminalIsFinal

-----------------------------------------------------------------------------
(* What a step does to the records. *)

USE DEF Reading

Unsent == {"DISCOVERED", "VALIDATED", "ARMED", "PRECHECKED_EMPTY"}

\* The record of p becomes r.
Updates(p, r) ==
    /\ race[p].state \notin Terminal /\ r.state # "DISCOVERED"
    /\ UNCHANGED vote
    /\ race[p].state = "DISCOVERED"
          => \/ pc = "importing" /\ p \in todo
             \/ pc = "idle" /\ MayImport({p})
    /\ r.posts # race[p].posts
          => race[p].posts = 0 /\ r.posts = 1 /\ pc = "commit" /\ WithinBudget(p)
    /\ r.state \in {"CONFIRMED", "CONFIRMED_EXISTING"} => vote[RaceOf[p]] = p
    /\ Troubled(r)
          => \/ AutomaticRecovery \/ pc' = "halt" \/ faults' > faults
             \/ pc = "recovering" /\ race[p].posts > 0
    /\ r.prechecks > race[p].prechecks
          => /\ r.prechecks = race[p].prechecks + 1
             /\ race[p].state = "ARMED" /\ pc \in {"idle", "select"}
             /\ faults' > faults \/ (pc' = "read" /\ cur' = p)
    /\ r.state \in Unsent
          => /\ race[p].state \in Unsent
             /\ pc \in Reading
                   => /\ p = cur
                      /\ \/ faults' > faults \/ r.prechecks < PrecheckLimit
                         \/ pc' = "guard" /\ cur' = p
    /\ r.state \notin Unsent /\ pc \in Reading => p = cur

StepUpdates ==
    \/ /\ race' = race
       /\ pc \in Reading
             => (pc' \in Reading /\ cur' = cur) \/ faults' > faults \/ crashes' > crashes
    \/ \E p \in Plans, r \in Record : race' = [race EXCEPT ![p] = r] /\ Updates(p, r)

LEMMA WriteUpdates ==
    ASSUME TypeOK, NEW p \in Plans, NEW r \in Record, NEW o \in Outcomes, Write(p, r, o),
           Updates(p, r)
    PROVE  StepUpdates
BY DEF TypeOK, WorldTypeOK, Write, Charge, StepUpdates

\* What the two outcomes of a write leave behind.
LEMMA WriteCounts ==
    ASSUME TypeOK, NEW p, NEW r, NEW o, Write(p, r, o)
    PROVE  o = "ok" \/ faults' > faults
BY DEF TypeOK, WorldTypeOK, Write, Charge

LEMMA InProcessVotes ==
    ASSUME InProcess
    PROVE  UNCHANGED vote
BY DEF InProcess, contest

\* A race that was not sent is closed.
LEMMA CloseUpdates ==
    ASSUME TypeOK, SendInv, UNCHANGED vote,
           NEW p \in Plans, NEW s \in {"KILLED", "EXPIRED", "REJECTED"},
           NEW o \in Outcomes, Write(p, To(race[p], s), o),
           race[p].state \in {"VALIDATED", "ARMED", "PRECHECKED_EMPTY"},
           pc \in Reading => p = cur
    PROVE  StepUpdates
<1>1. race[p] \in Record /\ s \in States
  BY DEF TypeOK, StoreTypeOK, States, Terminal
<1>2. PICK r \in Record :
        /\ r = To(race[p], s) /\ r.state = s
        /\ r.posts = race[p].posts /\ r.prechecks = race[p].prechecks
        /\ race[p].prechecks \in Nat
  BY <1>1, ToFacts, FieldTypes
<1>3. race[p].posts = 0
  BY DEF SendInv, RecordInv, RecordOK, InDoubt
<1>4. ~Troubled(r)
  BY <1>2, <1>3 DEF Troubled
<1>5. Updates(p, r)
  BY <1>2, <1>4 DEF Updates, Terminal, Unsent
<1>6. QED
  BY <1>2, <1>5, WriteUpdates

\* A race whose POST is open is looked at again.
LEMMA SettleUpdates ==
    ASSUME TypeOK, SendInv, UNCHANGED vote,
           NEW p \in Plans, NEW r \in Record, NEW o \in Outcomes, Write(p, r, o),
           race[p].state \in InDoubt, pc \notin Reading,
           r.posts = race[p].posts, r.prechecks = race[p].prechecks,
           r.state \in InDoubt \union {"CONFIRMED", "CONFLICT", "REJECTED"},
           r.state = "CONFIRMED" => vote[RaceOf[p]] = p,
           Troubled(r) => \/ AutomaticRecovery \/ pc' = "halt" \/ faults' > faults
                          \/ pc = "recovering"
    PROVE  StepUpdates
<1>1. race[p].posts = 1 /\ race[p].prechecks \in Nat
  BY InDoubtUnarmed DEF TypeOK, StoreTypeOK, Record
<1>2. Updates(p, r)
  BY <1>1 DEF Updates, Terminal, Unsent, InDoubt
<1>3. QED
  BY <1>2, WriteUpdates

LEMMA ImportUpdates ==
    ASSUME TypeOK, SendInv, UNCHANGED vote,
           NEW p \in Plans, NEW o \in Outcomes, Write(p, ImportedRecord, o),
           race[p].state = "DISCOVERED",
           (pc = "importing" /\ p \in todo) \/ (pc = "idle" /\ MayImport({p}))
    PROVE  StepUpdates
<1>1. race[p].posts = 0 /\ race[p].prechecks \in Nat
  BY DEF SendInv, RecordInv, RecordOK, InDoubt, TypeOK, StoreTypeOK, Record
<1>2. ~Troubled(ImportedRecord)
  BY ImportedFacts DEF Troubled
<1>3. Updates(p, ImportedRecord)
  BY <1>1, <1>2, ImportedFacts DEF Updates, Terminal, Unsent
<1>4. QED
  BY <1>3, ImportedFacts, WriteUpdates

LEMMA ArmUpdates ==
    ASSUME TypeOK, SendInv, UNCHANGED vote,
           NEW p \in Plans, NEW o \in Outcomes, Write(p, Armed(race[p], Target[p]), o),
           race[p].state = "VALIDATED", pc \notin Reading
    PROVE  StepUpdates
<1>1. race[p] \in Record /\ Target[p] \in Nat
  BY ScheduleAssumption DEF TypeOK, StoreTypeOK
<1>2. PICK r \in Record :
        /\ r = Armed(race[p], Target[p]) /\ r.state = "ARMED"
        /\ r.posts = race[p].posts /\ r.prechecks = race[p].prechecks
        /\ race[p].prechecks \in Nat
  BY <1>1, ArmedFacts, FieldTypes
<1>3. ~Troubled(r)
  BY <1>2 DEF Troubled
<1>4. Updates(p, r)
  BY <1>2, <1>3 DEF Updates, Terminal, Unsent
<1>5. QED
  BY <1>2, <1>4, WriteUpdates

LEMMA CommandUpdates ==
    ASSUME TypeOK, SendInv, Command
    PROVE  StepUpdates
<1>0. pc = "idle" /\ (race' = race => StepUpdates)
  BY DEF Command, ImportPlan, Arm, CancelUnposted, ImportBundle, ArmBundle, Kill, StepUpdates
<1>1. ASSUME NEW p \in Plans, ImportPlan(p) PROVE StepUpdates
  <2>1. PICK o \in Outcomes : Write(p, ImportedRecord, o)
    BY <1>1 DEF ImportPlan
  <2>2. race[p].state = "DISCOVERED" /\ UNCHANGED vote /\ MayImport({p})
    BY <1>1, InProcessVotes DEF ImportPlan, Known, Imported
  <2>3. QED
    BY <1>0, <2>1, <2>2, ImportUpdates
<1>2. ASSUME NEW p \in Plans, Arm(p) PROVE StepUpdates
  <2>1. PICK o \in Outcomes : Write(p, Armed(race[p], Target[p]), o)
    BY <1>2 DEF Arm
  <2>2. race[p].state = "VALIDATED" /\ UNCHANGED vote
    BY <1>2, InProcessVotes DEF Arm, Armable
  <2>3. QED
    BY <1>0, <2>1, <2>2, ArmUpdates
<1>3. ASSUME NEW p \in Plans, CancelUnposted(p) PROVE StepUpdates
  <2>1. PICK o \in Outcomes : Write(p, To(race[p], "KILLED"), o)
    BY <1>3 DEF CancelUnposted
  <2>2. race[p].state \in {"VALIDATED", "ARMED", "PRECHECKED_EMPTY"} /\ UNCHANGED vote
    BY <1>3, InProcessVotes DEF CancelUnposted
  <2>3. QED
    BY <1>0, <2>1, <2>2, CloseUpdates
<1>4. ASSUME NEW B \in Bundles, ImportBundle(B) \/ ArmBundle(B) PROVE StepUpdates
  BY <1>0, <1>4 DEF ImportBundle, ArmBundle, NoWrite
<1>5. ASSUME Kill PROVE StepUpdates
  BY <1>0, <1>5 DEF Kill, WriteKill
<1>6. QED
  BY <1>1, <1>2, <1>3, <1>4, <1>5 DEF Command

LEMMA SubmitUpdates ==
    ASSUME TypeOK, SendInv, NEW p \in Plans, Submit(p)
    PROVE  StepUpdates
<1>1. PICK g \in Guard(p) :
        IF g = "PASS"
        THEN IF AutomaticRecovery
             THEN \E o \in Outcomes :
                     /\ Write(p, Prechecking(race[p]), o)
                     /\ IF o = "ok" THEN Go("read", p, {}, "idle") ELSE Return
             ELSE NoWrite /\ Go("read", p, {}, "idle")
        ELSE /\ \E o \in Outcomes : Write(p, To(race[p], g), o)
             /\ Return
  BY DEF Submit
<1>2. /\ UNCHANGED vote /\ race[p].state = "ARMED" /\ pc \in {"idle", "select"}
      /\ race[p] \in Record
  BY InProcessVotes DEF Submit, Selecting, TypeOK, StoreTypeOK
<1>3. CASE g = "PASS" /\ AutomaticRecovery
  <2>1. PICK r \in Record :
          /\ r = Prechecking(race[p]) /\ r.state = "ARMED"
          /\ r.posts = race[p].posts /\ r.prechecks = race[p].prechecks + 1
    BY <1>2, PrecheckingFacts
  <2>2. PICK o \in Outcomes :
          Write(p, r, o) /\ IF o = "ok" THEN Go("read", p, {}, "idle") ELSE Return
    BY <1>1, <1>3, <2>1
  <2>3. faults' > faults \/ (pc' = "read" /\ cur' = p)
    BY <2>2, WriteCounts DEF Go
  <2>4. ~Troubled(r)
    BY <2>1 DEF Troubled
  <2>5. Updates(p, r)
    BY <1>2, <2>1, <2>3, <2>4 DEF Updates, Terminal, Unsent
  <2>6. QED
    BY <2>2, <2>5, WriteUpdates
<1>4. CASE g = "PASS" /\ ~AutomaticRecovery
  BY <1>1, <1>2, <1>4 DEF NoWrite, StepUpdates
<1>5. CASE g # "PASS"
  <2>1. g \in {"KILLED", "EXPIRED", "REJECTED"}
    BY <1>5, GuardTyped
  <2>2. PICK o \in Outcomes : Write(p, To(race[p], g), o)
    BY <1>1, <1>5
  <2>3. QED
    BY <1>2, <2>1, <2>2, CloseUpdates
<1>6. QED
  BY <1>3, <1>4, <1>5

LEMMA TickUpdates ==
    ASSUME TypeOK, SendInv, Tick
    PROVE  StepUpdates
<1>1. CASE TickExpire
  BY <1>1 DEF TickExpire, NoWrite, StepUpdates
<1>2. ASSUME NEW p \in Plans, Reconcile(p) PROVE StepUpdates
  BY <1>2 DEF Reconcile, Selecting, NoWrite, StepUpdates
<1>3. QED
  BY <1>1, <1>2, SubmitUpdates DEF Tick

\* The loops over several plans.
LEMMA LoopUpdates ==
    ASSUME TypeOK, SendInv, ImportNext \/ ArmNext \/ ArmFailed \/ KillNext \/ ExpireNext
                            \/ TickNothing \/ HaltDay \/ HaltNext
    PROVE  StepUpdates
<1>0. /\ todo \in SUBSET Plans /\ UNCHANGED vote
      /\ pc \notin Reading /\ (race' = race => StepUpdates)
  BY InProcessVotes DEF TypeOK, HandlerTypeOK, StepUpdates, ImportNext, ArmNext, ArmFailed,
     KillNext, ExpireNext, TickNothing, HaltDay, HaltNext
<1>1. CASE ImportNext
  <2>1. CASE NoWrite
    BY <1>0, <2>1 DEF NoWrite
  <2>2. CASE ~NoWrite
    <3>1. PICK p \in todo, o \in Outcomes : ~Known(p) /\ Write(p, ImportedRecord, o)
      BY <1>1, <2>2 DEF ImportNext
    <3>2. p \in Plans /\ race[p].state = "DISCOVERED" /\ pc = "importing"
      BY <1>0, <1>1, <3>1 DEF Known, Imported, ImportNext
    <3>3. QED
      BY <1>0, <3>1, <3>2, ImportUpdates
  <2>3. QED
    BY <2>1, <2>2
<1>2. CASE ArmNext
  <2>1. PICK p \in todo, o \in Outcomes : Write(p, Armed(race[p], Target[p]), o)
    BY <1>2 DEF ArmNext
  <2>2. p \in Plans /\ race[p].state = "VALIDATED"
    BY <1>0, <1>2 DEF ArmNext, SendInv, HandlerInv
  <2>3. QED
    BY <1>0, <2>1, <2>2, ArmUpdates
<1>3. CASE ArmFailed \/ TickNothing \/ HaltDay
  BY <1>0, <1>3 DEF ArmFailed, TickNothing, HaltDay, WriteKill, NoWrite
<1>4. CASE KillNext \/ HaltNext
  <2>1. PICK p \in todo, o \in Outcomes : Write(p, To(race[p], "KILLED"), o)
    BY <1>4 DEF KillNext, HaltNext
  <2>2. p \in Plans /\ Haltable(race[p])
    BY <1>0, <1>4 DEF KillNext, HaltNext, SendInv, HandlerInv
  <2>3. race[p].state \in {"VALIDATED", "ARMED", "PRECHECKED_EMPTY"}
    BY <2>2 DEF Haltable, SendInv, RecordInv, RecordOK
  <2>4. QED
    BY <1>0, <2>1, <2>2, <2>3, CloseUpdates
<1>5. CASE ExpireNext
  <2>1. PICK p \in todo, o \in Outcomes : Write(p, To(race[p], "EXPIRED"), o)
    BY <1>5 DEF ExpireNext
  <2>2. p \in Plans /\ race[p].state = "VALIDATED"
    BY <1>0, <1>5 DEF ExpireNext, SendInv, HandlerInv
  <2>3. QED
    BY <1>0, <2>1, <2>2, CloseUpdates
<1>6. QED
  BY <1>1, <1>2, <1>3, <1>4, <1>5

\* The read before the POST, and the second guard.
LEMMA SubmissionUpdates ==
    ASSUME TypeOK, SendInv, ReadFails \/ ReadAnswers \/ BeforePost \/ Commit
    PROVE  StepUpdates
<1>0. /\ cur \in Plans /\ race[cur] \in Record /\ UNCHANGED vote
      /\ now \in Nat /\ Deadline[cur] \in Nat
  BY InProcessVotes, ScheduleAssumption DEF TypeOK, HandlerTypeOK, StoreTypeOK, WorldTypeOK,
     PlanLabels, ReadFails, ReadAnswers, BeforePost, Commit
<1>1. race[cur].state \in {"ARMED", "PRECHECKED_EMPTY"} /\ race[cur].posts = 0
  <2>1. race[cur].state \in {"ARMED", "PRECHECKED_EMPTY"}
    BY DEF SendInv, HandlerInv, ReadFails, ReadAnswers, BeforePost, Commit
  <2>2. RecordOK(race[cur])
    BY <1>0 DEF SendInv, RecordInv
  <2>3. QED
    BY <2>1, <2>2 DEF RecordOK, InDoubt
<1>2. CASE ReadFails
  <2>1. CASE AutomaticRecovery
    <3>1. Later(RetryDelay) \in Nat
      BY <1>0, LaterTyped, PolicyAssumption
    <3>2. PICK r \in Record :
            /\ r = Retried(race[cur], Later(RetryDelay), Deadline[cur])
            /\ r.state \in {"ARMED", "REJECTED"} /\ r.posts = race[cur].posts
            /\ r.prechecks = race[cur].prechecks
            /\ r.state = "ARMED" => race[cur].prechecks < PrecheckLimit
      BY <1>0, <3>1, RetriedFacts
    <3>3. PICK o \in Outcomes : Write(cur, r, o)
      BY <1>2, <2>1, <3>2 DEF ReadFails
    <3>4. ~Troubled(r)
      BY <1>1, <3>2 DEF Troubled
    <3>5. race[cur].prechecks \in Nat
      BY <1>0, FieldTypes
    <3>6. Updates(cur, r)
      BY <1>0, <1>1, <3>2, <3>4, <3>5 DEF Updates, Terminal, Unsent
    <3>7. QED
      BY <1>0, <3>3, <3>6, WriteUpdates
  <2>2. CASE ~AutomaticRecovery
    <3>1. PICK o \in Outcomes : Write(cur, To(race[cur], "REJECTED"), o)
      BY <1>2, <2>2 DEF ReadFails
    <3>2. QED
      BY <1>0, <1>1, <3>1, CloseUpdates
  <2>3. QED
    BY <2>1, <2>2
<1>3. CASE ReadAnswers
  <2>1. PICK s : s = PrecheckState(vote[RaceOf[cur]])
    OBVIOUS
  <2>2. PICK o \in Outcomes :
          /\ Write(cur, To(race[cur], s), o)
          /\ IF s = "CONFLICT" THEN Halt("idle")
             ELSE IF s = "PRECHECKED_EMPTY" /\ o = "ok"
                  THEN Go("guard", cur, {}, "idle")
                  ELSE Return
    BY <1>3, <2>1 DEF ReadAnswers
  <2>3. /\ s \in {"CONFIRMED_EXISTING", "PRECHECKED_EMPTY", "CONFLICT"}
        /\ s = "CONFIRMED_EXISTING" => vote[RaceOf[cur]] = cur
    BY <2>1 DEF PrecheckState
  <2>4. s \in States
    BY <2>3 DEF States, Terminal
  <2>5. PICK r \in Record :
          /\ r = To(race[cur], s) /\ r.state = s
          /\ r.posts = race[cur].posts /\ r.prechecks = race[cur].prechecks
          /\ race[cur].prechecks \in Nat
    BY <1>0, <2>4, ToFacts, FieldTypes
  <2>6. Troubled(r) => pc' = "halt"
    BY <1>1, <2>2, <2>3, <2>5 DEF Troubled, Halt, Go
  <2>7. s = "PRECHECKED_EMPTY" => faults' > faults \/ (pc' = "guard" /\ cur' = cur)
    BY <2>2, WriteCounts DEF Go
  <2>8. pc = "read"
    BY <1>3 DEF ReadAnswers
  <2>9. Updates(cur, r)
    BY <1>0, <1>1, <2>3, <2>5, <2>6, <2>7, <2>8 DEF Updates, Terminal, Unsent
  <2>10. QED
    BY <1>0, <2>2, <2>5, <2>9, WriteUpdates
<1>4. CASE BeforePost
  <2>1. PICK g \in Guard(cur) :
          IF g # "PASS"
          THEN (\E o \in Outcomes : Write(cur, To(race[cur], g), o)) /\ Return
          ELSE IF WithinBudget(cur)
               THEN NoWrite /\ Go("commit", cur, {}, "idle")
               ELSE /\ \E o \in Outcomes : Write(cur, To(race[cur], "REJECTED"), o)
                    /\ Halt("idle")
    BY <1>4 DEF BeforePost, PostGuard
  <2>2. g \in {"KILLED", "REJECTED", "EXPIRED", "PASS"} /\ pc = "guard"
    BY <1>4, GuardTyped DEF BeforePost
  <2>3. CASE g # "PASS"
    BY <1>0, <1>1, <2>1, <2>2, <2>3, CloseUpdates
  <2>4. CASE g = "PASS" /\ ~WithinBudget(cur)
    BY <1>0, <1>1, <2>1, <2>4, CloseUpdates
  <2>5. CASE g = "PASS" /\ WithinBudget(cur)
    BY <2>1, <2>5 DEF NoWrite, Go, StepUpdates, Reading
  <2>6. QED
    BY <2>3, <2>4, <2>5
<1>5. CASE Commit
  <2>1. PICK r \in Record :
          /\ r = Posting(race[cur]) /\ r.state = "POSTING"
          /\ r.posts = race[cur].posts + 1 /\ r.prechecks = race[cur].prechecks
          /\ race[cur].prechecks \in Nat
    BY <1>0, PostingFacts, FieldTypes
  <2>2. PICK o \in Outcomes : Write(cur, r, o)
    BY <1>1, <1>5, <2>1 DEF Commit, POSTMaxAttempts
  <2>3. ~Troubled(r)
    BY <2>1 DEF Troubled
  <2>4. pc = "commit" /\ WithinBudget(cur)
    BY <1>5 DEF Commit, SendInv, HandlerInv
  <2>5. Updates(cur, r)
    BY <1>0, <1>1, <2>1, <2>3, <2>4 DEF Updates, Terminal, Unsent
  <2>6. QED
    BY <1>0, <2>2, <2>5, WriteUpdates
<1>6. QED
  BY <1>2, <1>3, <1>4, <1>5

\* The POST and the reads that follow it.
LEMMA OutcomeUpdates ==
    ASSUME TypeOK, SendInv, Send \/ PostAccepted \/ PostRefused \/ PostUnknown
                            \/ RereadFails \/ RereadAnswers \/ Defer
    PROVE  StepUpdates
<1>0. /\ cur \in Plans /\ race[cur] \in Record /\ now \in Nat
      /\ pc \in {"post", "wait", "reread", "defer"} /\ (race' = race => StepUpdates)
  BY DEF TypeOK, HandlerTypeOK, StoreTypeOK, WorldTypeOK, PlanLabels, StepUpdates, Send,
     PostAccepted, PostRefused, PostUnknown, RereadFails, RereadAnswers, Defer
<1> PICK m \in Record : m = race[cur]
  BY <1>0
<1>1. race[cur].state \in InDoubt
  BY <1>0 DEF SendInv, HandlerInv, InDoubt
<1>2. CASE Send \/ RereadFails
  BY <1>0, <1>2 DEF Send, RereadFails, NoWrite
<1>3. Later(InitialWait) \in Nat /\ Later(Interval) \in Nat
  BY <1>0, LaterTyped, PolicyAssumption
<1>4. CASE PostAccepted
  <2>1. PICK t \in Time, s \in States \ Terminal :
          t = Later(InitialWait) /\ s = "PENDING_CONFIRMATION"
    BY <1>3 DEF Time, States, Terminal
  <2>2. PICK r \in Record :
          /\ r = Awaiting(m, s, t) /\ r.state = s
          /\ r.posts = m.posts /\ r.prechecks = m.prechecks
    BY AwaitingFacts, AwaitingCounts, ZenonT(60)
  <2>3. PICK o \in Outcomes : Write(cur, r, o)
    BY <1>4, <2>1, <2>2 DEF PostAccepted
  <2>4. ~Troubled(r) /\ UNCHANGED vote
    BY <1>4, <2>1, <2>2, InProcessVotes DEF Troubled, PostAccepted
  <2>5. QED
    BY <1>0, <1>1, <2>1, <2>2, <2>3, <2>4, SettleUpdates DEF InDoubt
<1>5. ASSUME NEW s \in {"AMBIGUOUS", "REJECTED"}, PostFails(s) PROVE StepUpdates
  <2>1. PICK t \in Time : t = Later(InitialWait)
    BY <1>3 DEF Time
  <2>2. PICK r \in Record :
          /\ r = IF s = "AMBIGUOUS" THEN Awaiting(m, s, t) ELSE To(m, s)
          /\ r.state = s /\ r.posts = m.posts /\ r.prechecks = m.prechecks
    <3>1. s \in States
      BY DEF States, Terminal
    <3>2. CASE s = "AMBIGUOUS"
      <4>1. s \notin Terminal
        BY <3>2 DEF Terminal
      <4>2. /\ Awaiting(m, s, t) \in Record /\ Awaiting(m, s, t).state = s
            /\ Awaiting(m, s, t).posts = m.posts
        BY <3>1, <4>1, AwaitingFacts, ZenonT(60)
      <4>3. Awaiting(m, s, t).prechecks = m.prechecks
        BY <3>1, AwaitingCounts
      <4>4. QED
        BY <3>2, <4>2, <4>3
    <3>3. CASE s # "AMBIGUOUS"
      BY <3>1, <3>3, ToFacts, ZenonT(60)
    <3>4. QED
      BY <3>2, <3>3
  <2>3. PICK o \in Outcomes : Write(cur, r, o)
    BY <1>5, <2>1, <2>2 DEF PostFails
  <2>4. AutomaticRecovery \/ pc' = "halt"
    BY <1>5 DEF PostFails, Halt, Go
  <2>5. UNCHANGED vote
    BY <1>5, InProcessVotes DEF PostFails
  <2>6. QED
    BY <1>0, <1>1, <2>2, <2>3, <2>4, <2>5, SettleUpdates DEF InDoubt
<1>6. CASE PostRefused \/ PostUnknown
  BY <1>5, <1>6 DEF PostRefused, PostUnknown, RefusedState, UnknownState
<1>7. CASE RereadAnswers
  <2>1. PICK v : v = vote[RaceOf[cur]]
    OBVIOUS
  <2>2. CASE v = NoVote
    BY <1>0, <1>7, <2>1, <2>2 DEF RereadAnswers, NoWrite
  <2>3. CASE v # NoVote
    <3>1. PICK s \in {"CONFIRMED", "CONFLICT"} :
            s = RereadState(v) /\ (s = "CONFIRMED" => v = cur)
      BY DEF RereadState
    <3>2. PICK r \in Record :
            /\ r = Verified(m, s) /\ r.state = s
            /\ r.posts = m.posts /\ r.prechecks = m.prechecks
      <4>1. s \in Terminal
        BY DEF Terminal
      <4>2. QED
        BY <4>1, VerifiedFacts
    <3>3. PICK o \in Outcomes :
            Write(cur, r, o) /\ IF s = "CONFLICT" THEN Halt("idle") ELSE Return
      BY <1>7, <2>1, <2>3, <3>1, <3>2 DEF RereadAnswers
    <3>4. Troubled(r) => pc' = "halt"
      BY <3>2, <3>3 DEF Troubled, Halt, Go
    <3>5. UNCHANGED vote
      BY <1>7, InProcessVotes DEF RereadAnswers
    <3>6. QED
      BY <1>0, <1>1, <2>1, <3>1, <3>2, <3>3, <3>4, <3>5, SettleUpdates
  <2>4. QED
    BY <2>2, <2>3
<1>8. CASE Defer
  <2>1. PICK r \in Record :
          /\ r = Deferred(race[cur], Later(Interval)) /\ r.state = "AMBIGUOUS"
          /\ r.posts = race[cur].posts /\ r.prechecks = race[cur].prechecks
          /\ r.gets = race[cur].gets + 1 /\ race[cur].gets \in Nat
    BY <1>0, <1>3, DeferredFacts, FieldTypes, ZenonT(60)
  <2>2. PICK o \in Outcomes :
          /\ Write(cur, r, o)
          /\ IF o = "ok" /\ r.gets >= VerificationMaxGETAttempts THEN Halt("idle") ELSE Return
    BY <1>8, <2>1 DEF Defer
  <2>3. Troubled(r) => pc' = "halt" \/ faults' > faults
    BY <2>1, <2>2, WriteCounts DEF Troubled, Halt, Go
  <2>4. UNCHANGED vote
    BY <1>8, InProcessVotes DEF Defer
  <2>5. QED
    BY <1>0, <1>1, <2>1, <2>2, <2>3, <2>4, SettleUpdates DEF InDoubt
<1>9. QED
  BY <1>2, <1>4, <1>6, <1>7, <1>8

LEMMA ProcessUpdates ==
    ASSUME TypeOK, SendInv, Crash \/ Start \/ Recover \/ RecoverNext
    PROVE  StepUpdates
<1>1. CASE Crash \/ Start \/ Recover
  BY <1>1 DEF Crash, Start, Recover, NoWrite, StepUpdates, TypeOK, WorldTypeOK
<1>2. CASE RecoverNext
  <2>1. PICK p \in todo, o \in Outcomes : Write(p, Recovered(race[p], now), o)
    BY <1>2 DEF RecoverNext
  <2>2. /\ p \in Plans /\ race[p] \in Record /\ NeedsRecovery(race[p])
        /\ pc = "recovering" /\ UNCHANGED vote /\ now \in Nat
    BY <1>2 DEF RecoverNext, TypeOK, StoreTypeOK, HandlerTypeOK, WorldTypeOK, SendInv,
       HandlerInv, contest
  <2>3. PICK r \in Record :
          /\ r = Recovered(race[p], now)
          /\ r.posts = race[p].posts /\ r.prechecks = race[p].prechecks
          /\ race[p].state = "PRECHECKED_EMPTY" => r.state = "ARMED"
          /\ race[p].state # "PRECHECKED_EMPTY" => r.state = "AMBIGUOUS"
          /\ race[p].prechecks \in Nat
    BY <2>2, RecoveredFacts, FieldTypes
  <2>4. CASE race[p].state = "PRECHECKED_EMPTY"
    <3>1. ~Troubled(r)
      BY <2>3, <2>4 DEF Troubled
    <3>2. Updates(p, r)
      BY <2>2, <2>3, <2>4, <3>1 DEF Updates, Terminal, Unsent
    <3>3. QED
      BY <2>1, <2>2, <2>3, <3>2, WriteUpdates
  <2>5. CASE race[p].state # "PRECHECKED_EMPTY"
    <3>1. race[p].state \in InDoubt
      BY <2>2, <2>5 DEF NeedsRecovery, InDoubt
    <3>2. QED
      BY <2>1, <2>2, <2>3, <2>5, <3>1, SettleUpdates DEF InDoubt
  <2>6. QED
    BY <2>4, <2>5
<1>3. QED
  BY <1>1, <1>2

LEMMA StepIsUpdate ==
    ASSUME TypeOK, SendInv, [Next]_vars
    PROVE  StepUpdates
<1>1. Contest \/ ToggleStop \/ PassTime \/ UNCHANGED vars => StepUpdates
  BY DEF Contest, Accept, Refuse, Publish, VoteByHand, OnlyContest, ToggleStop, PassTime,
         vars, store, daemon, handler, StepUpdates
<1>2. QED
  BY <1>1, CommandUpdates, TickUpdates, LoopUpdates, SubmissionUpdates, OutcomeUpdates,
     ProcessUpdates DEF Next, Continue

-----------------------------------------------------------------------------
(* Where a step takes the handler, and what it does to the rest. *)

Imports ==
    \/ pc' # "importing"
    \/ pc = "importing" /\ todo' \subseteq todo
    \/ /\ pc = "idle" /\ race' = race
       /\ \E B \in Bundles : MayImport(B) /\ todo' = B \ Imported

Moves ==
    /\ Imports
    /\ faults' >= faults /\ crashes' >= crashes
    /\ crashes' > crashes \/ (recovered => recovered')
    /\ pc' = "recovering" => ~recovered'
    /\ pc' = "read" => pc = "read" \/ recovered
    /\ pc' \in {"guard", "commit"} => pc \in Reading
    /\ pc' \in {"commit", "post"} => pc' = pc \/ BeforePost \/ Commit
    /\ pc = "halt" => pc' = "halt" \/ killed' \/ faults' > faults \/ crashes' > crashes

LEMMA WriteFaults ==
    ASSUME TypeOK
    PROVE  /\ \A p, r, o : Write(p, r, o) => faults' >= faults
           /\ \A o : WriteKill(o) => faults' >= faults /\ (o = "ok" => killed')
                                     /\ (o # "ok" => faults' > faults)
           /\ NoWrite => faults' = faults /\ faults' >= faults
<1>1. ASSUME NEW o, WriteKill(o) PROVE o = "ok" => killed'
  BY <1>1, Zenon DEF WriteKill
<1>2. QED
  BY <1>1 DEF TypeOK, WorldTypeOK, Write, WriteKill, Charge, NoWrite

\* A handler that stays in its process, at labels of no interest.
LEMMA QuietMoves ==
    ASSUME TypeOK, faults' >= faults, InProcess,
           pc' \in {"recovering", "post"} \union Reading => pc' = pc,
           pc' # "recovering" \/ ~recovered, pc # "halt", Imports
    PROVE  Moves
BY DEF Moves, InProcess, TypeOK, WorldTypeOK

LEMMA CommandMoves ==
    ASSUME TypeOK, FreshInv, Command
    PROVE  Moves
<1>1. pc = "idle" /\ InProcess
  BY DEF Command, ImportPlan, Arm, CancelUnposted, ImportBundle, ArmBundle, Kill
<1>2. faults' >= faults
  BY WriteFaults DEF Command, ImportPlan, Arm, CancelUnposted, ImportBundle, ArmBundle, Kill
<1>3. pc' \in {"idle", "importing", "arming", "killing"}
  BY <1>1 DEF Command, ImportPlan, Arm, CancelUnposted, ImportBundle, ArmBundle, Kill, handler,
     Loop, Go, Return
<1>4. Imports
  BY <1>1, <1>3 DEF Command, ImportPlan, Arm, CancelUnposted, ImportBundle, ArmBundle, Kill,
     handler, Loop, Go, Return, Imports, NoWrite
<1>5. QED
  BY <1>1, <1>2, <1>3, <1>4, QuietMoves

LEMMA TickMoves ==
    ASSUME TypeOK, FreshInv, Tick
    PROVE  Moves
<1>1. CASE TickExpire
  BY <1>1, WriteFaults, QuietMoves DEF TickExpire, Go, Imports
<1>2. ASSUME NEW p \in Plans, Submit(p) \/ Reconcile(p) PROVE Moves
  <2>1. recovered /\ pc \in {"idle", "select"} /\ InProcess
    BY <1>2 DEF Submit, Reconcile, Selecting
  <2>2. faults' >= faults
    BY <1>2, WriteFaults DEF Submit, Reconcile
  <2>3. pc' \in {"read", "idle", "defer", "reread"}
    BY <1>2 DEF Submit, Reconcile, Go, Return
  <2>4. QED
    BY <2>1, <2>2, <2>3 DEF Moves, Imports, InProcess, TypeOK, WorldTypeOK
<1>3. QED
  BY <1>1, <1>2 DEF Tick

LEMMA ContinueMoves ==
    ASSUME TypeOK, FreshInv, Continue
    PROVE  Moves
<1>1. CASE ImportNext \/ ArmNext \/ ArmFailed \/ KillNext \/ ExpireNext \/ TickNothing
  <2>1. pc \in {"importing", "arming", "armFailed", "killing", "expiring", "select"} /\ InProcess
    BY <1>1 DEF ImportNext, ArmNext, ArmFailed, KillNext, ExpireNext, TickNothing
  <2>2. faults' >= faults
    BY <1>1, WriteFaults DEF ImportNext, ArmNext, ArmFailed, KillNext,
       ExpireNext, TickNothing
  <2>3. pc' \in {"idle", "importing", "arming", "armFailed", "killing", "expiring", "select"}
    BY <1>1 DEF ImportNext, ArmNext, ArmFailed, KillNext, ExpireNext, TickNothing, Go, Return, Loop
  <2>4. Imports
    BY <1>1, <2>1 DEF ImportNext, ArmNext, ArmFailed, KillNext, ExpireNext, TickNothing, Go,
       Return, Loop, Imports
  <2>5. QED
    BY <2>1, <2>2, <2>3, <2>4, QuietMoves
<1>2. CASE ReadFails \/ ReadAnswers \/ BeforePost \/ Commit
  <2>1. pc \in Reading /\ InProcess
    BY <1>2 DEF ReadFails, ReadAnswers, BeforePost, Commit, Reading
  <2>2. faults' >= faults
    BY <1>2, WriteFaults DEF ReadFails, ReadAnswers, BeforePost, Commit
  <2>3. /\ pc' \in {"idle", "halt", "guard", "commit", "post"}
        /\ pc' \in {"commit", "post"} => BeforePost \/ Commit
    BY <1>2 DEF ReadFails, ReadAnswers, BeforePost, Commit, Go, Return, Halt
  <2>4. QED
    BY <2>1, <2>2, <2>3 DEF Moves, Imports, InProcess, TypeOK, WorldTypeOK, Reading
<1>3. CASE Send
  BY <1>3, WriteFaults DEF Moves, Imports, Send, Go, TypeOK, WorldTypeOK
<1>4. CASE PostAccepted \/ PostRefused \/ PostUnknown \/ RereadFails \/ RereadAnswers \/ Defer
  <2>1. pc \in {"wait", "reread", "defer"} /\ InProcess
    BY <1>4 DEF PostAccepted, PostRefused, PostUnknown, PostFails, RereadFails, RereadAnswers, Defer
  <2>2. faults' >= faults
    BY <1>4, WriteFaults DEF PostAccepted, PostRefused, PostUnknown,
       PostFails, RereadFails, RereadAnswers, Defer
  <2>3. pc' \in {"idle", "halt", "defer"}
    BY <1>4 DEF PostAccepted, PostRefused, PostUnknown, PostFails, RereadFails, RereadAnswers,
       Defer, Go, Return, Halt
  <2>4. QED
    BY <2>1, <2>2, <2>3, QuietMoves DEF Imports
<1>5. CASE HaltDay \/ HaltNext
  <2>1. pc \in {"halt", "halting"} /\ InProcess
    BY <1>5 DEF HaltDay, HaltNext
  <2>2. faults' >= faults
    BY <1>5, WriteFaults DEF HaltDay, HaltNext
  <2>3. pc' \in {"idle", "halting", "defer"}
    BY <1>5 DEF HaltDay, HaltNext, HaltOver, Resume, Go, Return
  <2>4. pc = "halt" => killed' \/ faults' > faults
    <3>1. ASSUME HaltDay PROVE killed' \/ faults' > faults
      <4>1. CASE killed
        BY <3>1, <4>1 DEF HaltDay, NoWrite
      <4>2. CASE ~killed
        BY <3>1, <4>2, WriteFaults DEF HaltDay
      <4>3. QED
        BY <4>1, <4>2
    <3>2. QED
      BY <1>5, <3>1 DEF HaltNext
  <2>5. QED
    BY <2>1, <2>2, <2>3, <2>4 DEF Moves, Imports, InProcess, TypeOK, WorldTypeOK
<1>6. CASE RecoverNext
  <2>1. pc = "recovering" /\ ~recovered /\ crashes' = crashes
    BY <1>6 DEF RecoverNext, FreshInv
  <2>2. faults' >= faults
    BY <1>6, WriteFaults DEF RecoverNext
  <2>3. pc' \in {"idle", "recovering", "down"} /\ (pc' = "recovering" => recovered' = recovered)
    BY <1>6 DEF RecoverNext, RecoverOver, Go, Return
  <2>4. QED
    BY <2>1, <2>2, <2>3 DEF Moves, Imports, TypeOK, WorldTypeOK
<1>7. QED
  BY <1>1, <1>2, <1>3, <1>4, <1>5, <1>6 DEF Continue

LEMMA StepMoves ==
    ASSUME TypeOK, FreshInv, [Next]_vars
    PROVE  Moves
<1>1. CASE Crash
  BY <1>1, WriteFaults DEF Crash, Moves, Imports, Go, TypeOK, WorldTypeOK
<1>2. CASE Start
  BY <1>2, WriteFaults, QuietMoves DEF Start, Imports, Return, Go, TypeOK, WorldTypeOK
<1>3. CASE Recover
  <2>1. pc = "idle" /\ ~recovered /\ crashes' = crashes /\ faults' = faults
    BY <1>3, WriteFaults DEF Recover
  <2>2. pc' \in {"idle", "recovering"} /\ (pc' = "recovering" => recovered' = recovered)
    BY <1>3 DEF Recover, RecoverOver, Go, Return
  <2>3. QED
    BY <2>1, <2>2 DEF Moves, Imports, TypeOK, WorldTypeOK
<1>4. CASE Contest \/ ToggleStop \/ PassTime \/ UNCHANGED vars
  BY <1>4 DEF Contest, Accept, Refuse, Publish, VoteByHand, OnlyContest, ToggleStop, PassTime,
     vars, store, daemon, handler, Moves, Imports, TypeOK, WorldTypeOK, FreshInv
<1>5. QED
  BY <1>1, <1>2, <1>3, <1>4, CommandMoves, TickMoves, ContinueMoves DEF Next

-----------------------------------------------------------------------------
(* Each part of DayInv is kept by every step. *)

\* Nothing went wrong before a state in which nothing has gone wrong.
LEMMA NoCount ==
    ASSUME TypeOK, TypeOK', Moves, crashes' + faults' = 0
    PROVE  crashes = 0 /\ faults = 0 /\ crashes' = 0 /\ faults' = 0
<1>1. {crashes, faults, crashes', faults'} \subseteq Nat
  BY DEF TypeOK, WorldTypeOK
<1>2. crashes' >= crashes /\ faults' >= faults
  BY DEF Moves
<1>3. QED
  BY <1>1, <1>2

LEMMA FreshKept ==
    ASSUME TypeOK, SendInv, FreshInv, [Next]_vars
    PROVE  FreshInv'
<1>1. StepUpdates /\ Moves /\ TypeOK'
  BY StepIsUpdate, StepMoves, StepIsTyped
<1>2. SUFFICES ASSUME crashes' + faults' = 0, ~recovered'
               PROVE  pc' \notin Reading /\ \A p \in Plans : race'[p].posts = 0
  BY <1>1 DEF FreshInv, Moves
<1>3. crashes + faults = 0 /\ crashes' = crashes /\ faults' = faults /\ ~recovered
  BY <1>1, <1>2, NoCount DEF Moves
<1>4. pc \notin Reading /\ \A p \in Plans : race[p].posts = 0
  BY <1>3 DEF FreshInv
<1>5. pc' \notin Reading
  BY <1>1, <1>3, <1>4 DEF Moves
<1>6. ASSUME NEW p \in Plans PROVE race'[p].posts = 0
  BY <1>1, <1>4 DEF StepUpdates, Updates, TypeOK, StoreTypeOK
<1>7. QED
  BY <1>5, <1>6

LEMMA TroubleKept ==
    ASSUME TypeOK, SendInv, FreshInv, TroubleInv, [Next]_vars
    PROVE  TroubleInv'
<1>1. StepUpdates /\ Moves /\ KillKept /\ TypeOK'
  BY StepIsUpdate, StepMoves, StepIsTyped, StepIsSafe DEF StepSafe, KillKept, vars, store
<1>2. SUFFICES ASSUME ~AutomaticRecovery, crashes' + faults' = 0,
                      NEW p \in Plans, Troubled(race'[p])
               PROVE  killed' \/ pc' = "halt"
  BY DEF TroubleInv
<1>3. crashes + faults = 0 /\ crashes' = crashes /\ faults' = faults
  BY <1>1, <1>2, NoCount
<1>4. CASE Troubled(race[p])
  <2>1. killed \/ pc = "halt"
    BY <1>2, <1>3, <1>4 DEF TroubleInv
  <2>2. killed => killed'
    BY <1>1, Zenon DEF KillKept
  <2>3. pc = "halt" => killed' \/ pc' = "halt"
    BY <1>1, <1>3 DEF Moves, TypeOK, WorldTypeOK
  <2>4. QED
    BY <2>1, <2>2, <2>3
<1>5. CASE ~Troubled(race[p])
  <2>1. PICK q \in Plans, r \in Record : race' = [race EXCEPT ![q] = r] /\ Updates(q, r)
    BY <1>1, <1>2, <1>5 DEF StepUpdates
  <2>2. p = q /\ race'[p] = r
    BY <1>2, <1>5, <2>1 DEF TypeOK, StoreTypeOK
  <2>3. pc' = "halt" \/ (pc = "recovering" /\ race[p].posts > 0)
    BY <1>2, <1>3, <2>1, <2>2 DEF Updates, TypeOK, WorldTypeOK
  <2>4. pc = "recovering" => race[p].posts = 0
    BY <1>3 DEF FreshInv
  <2>5. QED
    BY <2>3, <2>4
<1>6. QED
  BY <1>4, <1>5

LEMMA ReadsKept ==
    ASSUME TypeOK, SendInv, FreshInv, ReadsInv, [Next]_vars
    PROVE  ReadsInv'
<1>1. StepUpdates /\ Moves /\ TypeOK'
  BY StepIsUpdate, StepMoves, StepIsTyped
<1>2. PICK limit, limitp :
        /\ limit = PrecheckLimit + crashes + faults
        /\ limitp = PrecheckLimit + crashes' + faults'
  OBVIOUS
<1>3. /\ {limit, limitp} \subseteq Nat /\ PrecheckLimit \in Nat
      /\ limit >= PrecheckLimit /\ limitp >= limit
      /\ faults' > faults \/ crashes' > crashes => limitp > limit
  BY <1>1, <1>2, LimitsAssumption DEF Moves, TypeOK, WorldTypeOK
<1>4. SUFFICES ASSUME NEW p \in Plans
               PROVE  /\ race'[p].prechecks <= limitp
                      /\ race'[p].state \in Unsent /\ ~(pc' \in Reading /\ cur' = p)
                            => race'[p].prechecks < limitp
  BY <1>2 DEF ReadsInv, Unsent
<1>5. /\ race[p].prechecks \in Nat /\ race[p].prechecks <= limit
      /\ race[p].state \in Unsent /\ ~(pc \in Reading /\ cur = p)
            => race[p].prechecks < limit
  BY <1>2 DEF ReadsInv, Unsent, TypeOK, StoreTypeOK, Record
<1>6. CASE race'[p] = race[p] /\ (pc \in Reading /\ cur = p
             => (pc' \in Reading /\ cur' = cur) \/ faults' > faults \/ crashes' > crashes)
  BY <1>5, <1>6, <1>3
<1>7. ASSUME NEW r \in Record, race' = [race EXCEPT ![p] = r], Updates(p, r)
      PROVE  /\ race'[p].prechecks <= limitp
             /\ race'[p].state \in Unsent /\ ~(pc' \in Reading /\ cur' = p)
                   => race'[p].prechecks < limitp
  <2>1. race'[p] = r /\ r.prechecks \in Nat
    BY <1>7 DEF TypeOK, StoreTypeOK, Record
  <2>2. CASE r.prechecks > race[p].prechecks
    <3>1. /\ r.prechecks = race[p].prechecks + 1 /\ race[p].prechecks < limit
          /\ faults' > faults \/ (pc' = "read" /\ cur' = p)
      BY <1>5, <1>7, <2>2 DEF Updates, Unsent
    <3>2. QED
      BY <1>5, <1>3, <2>1, <3>1
  <2>3. CASE r.prechecks <= race[p].prechecks
    <3>1. r.prechecks <= limitp
      BY <1>5, <1>3, <2>1, <2>3
    <3>2. ASSUME r.state \in Unsent, ~(pc' \in Reading /\ cur' = p)
          PROVE  r.prechecks < limitp
      <4>1. CASE pc \in Reading
        <5>1. faults' > faults \/ r.prechecks < PrecheckLimit
          BY <1>7, <3>2, <4>1 DEF Updates
        <5>2. QED
          BY <1>5, <1>3, <2>1, <2>3, <5>1
      <4>2. CASE pc \notin Reading
        <5>1. race[p].prechecks < limit
          BY <1>5, <1>7, <3>2, <4>2 DEF Updates
        <5>2. QED
          BY <1>5, <1>3, <2>1, <2>3, <5>1
      <4>3. QED
        BY <4>1, <4>2
    <3>3. QED
      BY <2>1, <3>1, <3>2
  <2>4. QED
    BY <1>5, <2>1, <2>2, <2>3
<1>8. ASSUME NEW q \in Plans, q # p, NEW r \in Record, race' = [race EXCEPT ![q] = r],
             Updates(q, r)
      PROVE  race'[p] = race[p] /\ ~(pc \in Reading /\ cur = p)
  BY <1>8 DEF Updates, TypeOK, StoreTypeOK
<1>9. QED
  BY <1>1, <1>6, <1>7, <1>8 DEF StepUpdates

\* A step adds plans to the day only by admitting a plan or a bundle.
LEMMA StepAdmits ==
    ASSUME TypeOK, FreshInv, SendInv, [Next]_vars
    PROVE  \/ Admitted' \subseteq Admitted
           \/ \E S \in SUBSET Plans : MayImport(S) /\ Admitted' = Imported \union (S \ Imported)
<1>1. StepUpdates /\ Moves
  BY StepIsUpdate, StepMoves
<1>2. /\ Imported \subseteq Admitted /\ (pc = "importing" => todo \subseteq Admitted)
      /\ Admitted' = Imported' \union (IF pc' = "importing" THEN todo' ELSE {})
      /\ pc = "idle" => Admitted = Imported
      /\ todo \subseteq Plans /\ \A p \in Plans : race[p] \in Record
  BY DEF Admitted, TypeOK, HandlerTypeOK, StoreTypeOK
<1>3. CASE race' = race
  <2>1. Imported' = Imported
    BY <1>3 DEF Imported
  <2>2. CASE pc' # "importing" \/ (pc = "importing" /\ todo' \subseteq todo)
    BY <1>2, <2>1, <2>2
  <2>3. CASE pc' = "importing" /\ ~(pc = "importing" /\ todo' \subseteq todo)
    <3>1. PICK B \in Bundles : MayImport(B) /\ todo' = B \ Imported
      BY <1>1, <2>3 DEF Moves, Imports
    <3>2. B \in SUBSET Plans
      BY BundlesAssumption
    <3>3. QED
      BY <1>2, <2>1, <2>3, <3>1, <3>2
  <2>4. QED
    BY <2>2, <2>3
<1>4. ASSUME NEW p \in Plans, NEW r \in Record, race' = [race EXCEPT ![p] = r], Updates(p, r),
             race' # race
      PROVE  \/ Admitted' \subseteq Admitted
             \/ \E S \in SUBSET Plans : MayImport(S) /\ Admitted' = Imported \union (S \ Imported)
  <2>1. race'[p] = r /\ \A q \in Plans : q # p => race'[q] = race[q]
    BY <1>4 DEF TypeOK, StoreTypeOK
  <2>2. Imported' = Imported \union {p}
    BY <1>4, <2>1 DEF Imported, Updates
  <2>3. pc' # "importing" \/ (pc = "importing" /\ todo' \subseteq todo)
    BY <1>1, <1>4 DEF Moves, Imports
  <2>4. CASE p \in Imported
    BY <1>2, <2>2, <2>3, <2>4
  <2>5. CASE p \notin Imported
    <3>1. (pc = "importing" /\ p \in todo) \/ (pc = "idle" /\ MayImport({p}))
      BY <1>4, <2>5 DEF Imported, Updates
    <3>2. CASE pc = "importing" /\ p \in todo
      BY <1>2, <2>2, <2>3, <3>2
    <3>3. CASE pc = "idle" /\ MayImport({p})
      <4>1. Admitted' = Imported \union {p} /\ {p} \ Imported = {p}
        BY <1>2, <2>2, <2>3, <2>5, <3>3
      <4>2. QED
        BY <3>3, <4>1
    <3>4. QED
      BY <3>1, <3>2, <3>3
  <2>6. QED
    BY <2>4, <2>5
<1>5. QED
  BY <1>1, <1>3, <1>4 DEF StepUpdates

\* Fewer plans take no more of the limits.
LEMMA FewerFit ==
    ASSUME NEW S \in SUBSET Plans, NEW T \in SUBSET S
    PROVE  Cardinality(T) <= Cardinality(S) /\ Total(Stake, T) <= Total(Stake, S)
           /\ {Cardinality(S), Cardinality(T), Total(Stake, S), Total(Stake, T)} \subseteq Nat
<1>1. IsFiniteSet(S) /\ IsFiniteSet(T)
  BY PlansAssumption, FS_Subset
<1>2. \A p \in S : Stake[p] \in Nat
  BY ScheduleAssumption
<1>3. SumOn(Stake, T) \in Nat /\ SumOn(Stake, T) <= SumOn(Stake, S)
  BY <1>1, <1>2, SumGrows
<1>4. SumOn(Stake, S) \in Nat
  BY <1>1, <1>2, SumGrows
<1>5. \A R : SumOn(Stake, R) = Total(Stake, R)
  BY DEF SumOn, Total
<1>6. Cardinality(T) <= Cardinality(S) /\ Cardinality(S) \in Nat /\ Cardinality(T) \in Nat
  BY <1>1, FS_Subset, FS_CardinalityType
<1>7. QED
  BY <1>3, <1>4, <1>5, <1>6

LEMMA BudgetKept ==
    ASSUME TypeOK, FreshInv, SendInv, BudgetInv, [Next]_vars
    PROVE  BudgetInv'
<1>1. SUFFICES ASSUME ~AutomaticRecovery
               PROVE  Cardinality(Admitted') <= MaxRaces /\ Total(Stake, Admitted') <= MaxDailyStake
  BY Zenon DEF BudgetInv
<1>2. Admitted \in SUBSET Plans
  BY DEF Admitted, Imported, TypeOK, HandlerTypeOK
<1>3. CASE Admitted' \subseteq Admitted
  <2>1. Cardinality(Admitted) <= MaxRaces /\ Total(Stake, Admitted) <= MaxDailyStake
    BY <1>1 DEF BudgetInv
  <2>2. /\ Cardinality(Admitted') <= Cardinality(Admitted)
        /\ Total(Stake, Admitted') <= Total(Stake, Admitted)
        /\ {Cardinality(Admitted), Cardinality(Admitted'),
            Total(Stake, Admitted), Total(Stake, Admitted')} \subseteq Nat
    BY <1>2, <1>3, FewerFit
  <2>3. QED
    BY <2>1, <2>2, PolicyAssumption
<1>4. ASSUME NEW S \in SUBSET Plans, MayImport(S), Admitted' = Imported \union (S \ Imported)
      PROVE  Cardinality(Admitted') <= MaxRaces /\ Total(Stake, Admitted') <= MaxDailyStake
  <2>1. Reserved = Imported
    BY <1>1 DEF Reserved
  <2>2. QED
    BY <1>4, <2>1 DEF MayImport
<1>5. QED
  BY <1>3, <1>4, StepAdmits

-----------------------------------------------------------------------------
(* What DayInv gives in a state. *)

LEMMA AdmittedFits ==
    ASSUME TypeOK, SendInv, BudgetInv, ~AutomaticRecovery, pc = "guard"
    PROVE  WithinBudget(cur)
<1> DEFINE posted == {q \in Plans : race[q].posts > 0}
           posts == [q \in Plans |-> race[q].posts]
<1>1. /\ cur \in Plans /\ race[cur].state = "PRECHECKED_EMPTY"
      /\ \A q \in Plans : RecordOK(race[q])
  BY DEF TypeOK, HandlerTypeOK, PlanLabels, SendInv, HandlerInv, RecordInv
<1>2. race[cur].posts = 0
  BY <1>1 DEF RecordOK, InDoubt
<1>3. posted \subseteq Imported \ {cur} /\ cur \in Imported
  BY <1>1, <1>2 DEF RecordOK, InDoubt, Imported
<1>4. /\ Admitted = Imported /\ Imported \in SUBSET Plans /\ IsFiniteSet(Imported)
      /\ Cardinality(Imported) <= MaxRaces /\ Total(Stake, Imported) <= MaxDailyStake
  <2>1. Admitted = Imported /\ Imported \in SUBSET Plans
    BY DEF Admitted, Imported
  <2>2. QED
    BY <2>1, PlansAssumption, FS_Subset DEF BudgetInv
<1>5. Total(posts, Plans) = Cardinality(posted)
  <2>1. \A q \in Plans : posts[q] = IF q \in posted THEN 1 ELSE 0
    BY <1>1 DEF RecordOK
  <2>2. posted \in SUBSET Plans
    OBVIOUS
  <2> HIDE DEF posts, posted
  <2>3. QED
    BY <2>1, <2>2, PlansAssumption, SumCounts DEF Total, SumOn
<1>6. Cardinality(posted) < MaxPOSTRequests
  <2>1. Cardinality(Imported \ {cur}) = Cardinality(Imported) - 1
    BY <1>3, <1>4, FS_RemoveElement
  <2>2. Imported \ {cur} \in SUBSET Plans /\ posted \in SUBSET (Imported \ {cur})
    BY <1>3, <1>4
  <2>3. Cardinality(posted) <= Cardinality(Imported \ {cur}) /\ Cardinality(posted) \in Nat
    BY <2>2, FewerFit
  <2>4. Cardinality(Imported) \in Nat
    BY <1>4, FS_CardinalityType
  <2>5. QED
    BY <1>4, <2>1, <2>3, <2>4, PolicyAssumption
<1>7. Total(Stake, posted \union {cur}) <= MaxDailyStake
  <2>1. posted \union {cur} \in SUBSET Imported
    BY <1>3
  <2>2. /\ Total(Stake, posted \union {cur}) <= Total(Stake, Imported)
        /\ {Total(Stake, posted \union {cur}), Total(Stake, Imported)} \subseteq Nat
    BY <1>4, <2>1, FewerFit
  <2>3. QED
    BY <1>4, <2>2, PolicyAssumption
<1> HIDE DEF posts
<1>8. QED
  BY <1>5, <1>6, <1>7 DEF WithinBudget, posts

\* A recorded vote is the last one of its race: the contest takes one per race.
LEMMA VoteKept ==
    ASSUME [Next]_vars, NEW p \in Plans, vote[RaceOf[p]] # NoVote, TypeOK
    PROVE  vote'[RaceOf[p]] = vote[RaceOf[p]]
<1>1. CASE UNCHANGED vote
  BY <1>1
<1>2. ASSUME NEW q \in Plans, Publish(q) PROVE vote'[RaceOf[p]] = vote[RaceOf[p]]
  BY <1>2 DEF Publish, TypeOK, WorldTypeOK
<1>3. ASSUME NEW r \in Races, VoteByHand(r) PROVE vote'[RaceOf[p]] = vote[RaceOf[p]]
  BY <1>3 DEF VoteByHand, Taken, TypeOK, WorldTypeOK
<1>4. CASE Command \/ Tick \/ Crash \/ Start \/ Recover
  BY <1>1, <1>4, InProcessVotes DEF Command, ImportPlan, Arm, CancelUnposted, ImportBundle,
     ArmBundle, Kill, Tick, TickExpire, Submit, Reconcile, Crash, Start, Recover, contest
<1>5. CASE Continue
  BY <1>1, <1>5, InProcessVotes DEF Continue, ImportNext, ArmNext, ArmFailed, KillNext,
     ExpireNext, TickNothing, ReadFails, ReadAnswers, BeforePost, Commit, Send,
     PostAccepted, PostRefused, PostUnknown, PostFails, RereadFails, RereadAnswers, Defer, HaltDay, HaltNext,
     RecoverNext, contest
<1>6. CASE ToggleStop \/ PassTime \/ UNCHANGED vars
  BY <1>1, <1>6 DEF ToggleStop, PassTime, vars, contest
<1>7. ASSUME NEW q \in Plans, Accept(q) \/ Refuse(q) PROVE UNCHANGED vote
  BY <1>7 DEF Accept, Refuse
<1>8. QED
  BY <1>1, <1>2, <1>3, <1>4, <1>5, <1>6, <1>7 DEF Next, Contest

LEMMA ConfirmedKept ==
    ASSUME TypeOK, SendInv, ConfirmedIsRecorded, [Next]_vars
    PROVE  ConfirmedIsRecorded'
<1>1. SUFFICES ASSUME NEW p \in Plans, race'[p].state \in {"CONFIRMED", "CONFIRMED_EXISTING"}
               PROVE  vote'[RaceOf[p]] = p
  BY DEF ConfirmedIsRecorded
<1>2. StepUpdates
  BY StepIsUpdate
<1>3. CASE race'[p] = race[p]
  <2>1. vote[RaceOf[p]] = p
    BY <1>1, <1>3 DEF ConfirmedIsRecorded
  <2>2. QED
    BY <2>1, VoteKept, PlansAssumption
<1>4. CASE race'[p] # race[p]
  <2>1. PICK r \in Record : race' = [race EXCEPT ![p] = r] /\ Updates(p, r)
    BY <1>2, <1>4 DEF StepUpdates, TypeOK, StoreTypeOK
  <2>2. QED
    BY <1>1, <2>1 DEF Updates, TypeOK, StoreTypeOK
<1>5. QED
  BY <1>3, <1>4

LEMMA OneOpenKept ==
    ASSUME AutomaticRecovery, TypeOK, SendInv, OneUnresolvedPost, [Next]_vars
    PROVE  OneUnresolvedPost'
<1>1. StepUpdates
  BY StepIsUpdate
<1>2. CASE race' = race
  BY <1>2 DEF OneUnresolvedPost
<1>3. ASSUME NEW p \in Plans, NEW r \in Record, race' = [race EXCEPT ![p] = r], Updates(p, r)
      PROVE  OneUnresolvedPost'
  <2>1. race'[p] = r /\ \A q \in Plans : q # p => race'[q] = race[q]
    BY <1>3 DEF TypeOK, StoreTypeOK
  <2>2. CASE r.posts = race[p].posts
    <3>1. Unresolved(r) => Unresolved(race[p])
      BY <1>3, <2>2 DEF Unresolved, Updates, Terminal
    <3>2. QED
      BY <2>1, <3>1 DEF OneUnresolvedPost
  <2>3. CASE r.posts # race[p].posts
    <3>1. \A q \in Plans \ {p} : ~Unresolved(race[q])
      BY <1>3, <2>3 DEF Updates, WithinBudget
    <3>2. QED
      BY <2>1, <3>1 DEF OneUnresolvedPost
  <2>4. QED
    BY <2>2, <2>3
<1>4. QED
  BY <1>1, <1>2, <1>3 DEF StepUpdates

LEMMA SentBySend ==
    ASSUME Next
    PROVE  sent' = sent \/ Send
<1>1. InProcess => sent' = sent
  BY DEF InProcess
<1>2. CASE Command \/ Tick \/ Crash \/ Start \/ Recover
  BY <1>1, <1>2 DEF Command, ImportPlan, Arm, CancelUnposted, ImportBundle, ArmBundle, Kill,
     Tick, TickExpire, Submit, Reconcile, Crash, Start, Recover
<1>3. CASE Continue
  BY <1>1, <1>3 DEF Continue, ImportNext, ArmNext, ArmFailed, KillNext, ExpireNext, TickNothing,
     ReadFails, ReadAnswers, BeforePost, Commit, PostAccepted, PostRefused, PostUnknown, PostFails,
     RereadFails, RereadAnswers, Defer, HaltDay, HaltNext, RecoverNext
<1>4. CASE Contest \/ ToggleStop \/ PassTime
  BY <1>4 DEF Contest, Accept, Refuse, Publish, VoteByHand, OnlyContest, ToggleStop, PassTime
<1>5. QED
  BY <1>2, <1>3, <1>4 DEF Next

-----------------------------------------------------------------------------
(* The theorems *)

LEMMA DayInitially ==
    ASSUME Init
    PROVE  FreshInv /\ TroubleInv /\ ReadsInv /\ BudgetInv /\ ConfirmedIsRecorded
           /\ OneUnresolvedPost
<1>1. /\ \A p \in Plans : race[p].state = "DISCOVERED" /\ race[p].posts = 0
                          /\ race[p].prechecks = 0
      /\ pc = "idle" /\ crashes = 0 /\ faults = 0
  BY DEF Init, Unknown
<1>2. FreshInv
  BY <1>1 DEF FreshInv
<1>3. TroubleInv /\ ConfirmedIsRecorded /\ OneUnresolvedPost
  BY <1>1 DEF TroubleInv, Troubled, ConfirmedIsRecorded, OneUnresolvedPost, Unresolved
<1>4. ReadsInv
  BY <1>1, LimitsAssumption DEF ReadsInv
<1>5. BudgetInv
  <2>1. Admitted = {}
    BY <1>1 DEF Admitted, Imported
  <2>2. Cardinality({}) = 0 /\ SumOn(Stake, {}) = 0
    BY FS_EmptySet, SumUnrolls
  <2>3. SumOn(Stake, {}) = Total(Stake, {})
    BY DEF SumOn, Total
  <2>4. QED
    BY <2>1, <2>2, <2>3, PolicyAssumption DEF BudgetInv
<1>6. QED
  BY <1>2, <1>3, <1>4, <1>5

\* The inductive invariant behind the outcome of a day: what SendInv says, and
\* the reads that are left, the first process, the halt and the day's limits.
THEOREM DayInvariant == Spec => []DayInv
<1>1. Init => FreshInv /\ TroubleInv /\ ReadsInv /\ BudgetInv
  BY DayInitially
<1>2. /\ TypeOK /\ SendInv
      /\ FreshInv /\ TroubleInv /\ ReadsInv /\ BudgetInv
      /\ [Next]_vars
      => (FreshInv /\ TroubleInv /\ ReadsInv /\ BudgetInv)'
  BY FreshKept, TroubleKept, ReadsKept, BudgetKept
<1>3. QED
  BY <1>1, <1>2, TypeCorrect, SendInvariant, PTL DEF Spec, DayInv

\* A race is only called confirmed when the contest's record of it is the plan's
\* vote, and that record never changes (executeSubmission and reconcile).
THEOREM ConfirmedForGood == Spec => []ConfirmedIsRecorded
<1>1. Init => ConfirmedIsRecorded
  BY DayInitially
<1>2. TypeOK /\ SendInv /\ ConfirmedIsRecorded /\ [Next]_vars => ConfirmedIsRecorded'
  BY ConfirmedKept
<1>3. QED
  BY <1>1, <1>2, TypeCorrect, SendInvariant, PTL DEF Spec

\* Under automatic recovery guardSubmissionBudget lets a POST go only when no
\* other one is open, so there are never two of unknown outcome.
THEOREM OneOpenPost ==
    ASSUME AutomaticRecovery PROVE Spec => []OneUnresolvedPost
<1>1. Init => OneUnresolvedPost
  BY DayInitially
<1>2. TypeOK /\ SendInv /\ OneUnresolvedPost /\ [Next]_vars => OneUnresolvedPost'
  BY OneOpenKept
<1>3. QED
  BY <1>1, <1>2, TypeCorrect, SendInvariant, PTL DEF Spec

\* retryUnpostedRead gives up: the reads before a POST are bounded, but for one
\* more with each process death and each failed write.
THEOREM ReadsBounded == Spec => []ReadRetriesBounded
<1>1. DayInv => ReadRetriesBounded
  BY DEF DayInv, ReadsInv, ReadRetriesBounded
<1>2. QED
  BY <1>1, DayInvariant, PTL

\* Without automatic recovery, what ImportPlan or ImportBundle admitted passes
\* guardSubmissionBudget at its time, whatever was sent before.
THEOREM AdmittedIsSubmitted ==
    ASSUME ~AutomaticRecovery PROVE Spec => []AdmittedFitsBudget
<1>1. TypeOK /\ DayInv => AdmittedFitsBudget
  BY AdmittedFits DEF DayInv, AdmittedFitsBudget
<1>2. QED
  BY <1>1, TypeCorrect, DayInvariant, PTL

\* Without automatic recovery nothing is sent after a contradiction, a refusal
\* or an unknown result: haltFuturePlans comes before the next POST.
THEOREM TroubleStops ==
    ASSUME ~AutomaticRecovery PROVE Spec => TroubleStopsDay
<1>1. TypeOK /\ DayInv /\ [Next]_vars
        => [sent' # sent /\ crashes + faults = 0 => \A p \in Plans : ~Troubled(race[p])]_vars
  <2>1. SUFFICES ASSUME TypeOK, DayInv, Next, sent' # sent, crashes + faults = 0,
                        NEW p \in Plans, Troubled(race[p])
                 PROVE  FALSE
    OBVIOUS
  <2>2. killed \/ pc = "halt"
    BY <2>1 DEF DayInv, TroubleInv
  <2>3. KillKept
    BY <2>1, StepIsSafe DEF DayInv, StepSafe
  <2>4. ~killed
    BY <2>1, <2>3, Zenon DEF KillKept
  <2>5. pc = "post"
    BY <2>1, SentBySend DEF Send
  <2>6. QED
    BY <2>1, <2>2, <2>4, <2>5
<1>2. QED
  BY <1>1, TypeCorrect, DayInvariant, PTL DEF Spec, TroubleStopsDay

\* The history variable adds nothing to what the service may do.
LEMMA WatchedIsSpec == WatchedSpec => Spec
<1>1. WatchedInit => Init
  BY DEF WatchedInit
<1>2. [WatchedNext]_<<vars, fresh>> => [Next]_vars
  BY DEF WatchedNext
<1>3. QED
  BY <1>1, <1>2, PTL DEF WatchedSpec, Spec

LEMMA GuardPasses ==
    ASSUME TypeOK, NEW p \in Plans, "PASS" \in Guard(p)
    PROVE  MaySend(p)
<1>1. now \in Nat /\ Deadline[p] \in Nat /\ DayEnd \in Nat
  BY ScheduleAssumption, PolicyAssumption DEF TypeOK, WorldTypeOK
<1>2. ~stop /\ ~killed
  BY DEF Guard
<1>3. QED
  BY <1>1, <1>2 DEF Guard, MaySend

\* A handler about to commit, or to send, has passed the second guard since the
\* read before the POST was answered.
LEMMA VerdictKept ==
    ASSUME TypeOK, FreshInv, VerdictInv, [WatchedNext]_<<vars, fresh>>
    PROVE  VerdictInv'
<1>1. CASE UNCHANGED <<vars, fresh>>
  BY <1>1 DEF VerdictInv, FreshOK, vars, daemon, handler
<1>2. CASE Next /\ Watch
  <2>1. fresh' \in BOOLEAN
    BY <1>2 DEF Watch
  <2>2. ASSUME pc' \in {"commit", "post"} PROVE fresh \/ MaySend(cur)'
    <3>1. pc' = pc \/ BeforePost \/ Commit
      BY <1>2, <2>2, StepMoves DEF Moves
    <3>2. CASE pc' = pc \/ Commit
      BY <2>2, <3>2 DEF VerdictInv, Commit
    <3>3. CASE BeforePost
      <4>1. "PASS" \in Guard(cur) /\ cur' = cur /\ NoWrite /\ InProcess
        BY <2>2, <3>3 DEF BeforePost, PostGuard, Return, Halt, Go
      <4>2. cur \in Plans
        BY <3>3 DEF BeforePost, TypeOK, HandlerTypeOK, PlanLabels
      <4>3. MaySend(cur)
        BY <4>1, <4>2, GuardPasses
      <4>4. QED
        BY <4>1, <4>3 DEF MaySend, NoWrite, InProcess
    <3>4. QED
      BY <3>1, <3>2, <3>3
  <2>3. QED
    BY <1>2, <2>1, <2>2 DEF VerdictInv, FreshOK, Watch
<1>3. QED
  BY <1>1, <1>2 DEF WatchedNext

\* Whatever time, the STOP file and the disk do between its steps, the daemon
\* commits to a POST and sends it only if the plan could be sent at some moment
\* since the read before it was answered (the second guard of executeSubmission).
THEOREM SentOnVerdict == WatchedSpec => SentOnFreshVerdict
<1>1. WatchedInit => VerdictInv
  BY DEF WatchedInit, Init, VerdictInv, FreshOK
<1>2. TypeOK /\ FreshInv /\ VerdictInv /\ [WatchedNext]_<<vars, fresh>> => VerdictInv'
  BY VerdictKept
<1>3. TypeOK /\ SendInv /\ VerdictInv /\ [WatchedNext]_<<vars, fresh>>
        => [RestsOnFreshVerdict]_<<vars, fresh>>
  <2>1. SUFFICES ASSUME TypeOK, SendInv, VerdictInv, Next, NEW p \in Plans, Sends(p)
                 PROVE  fresh
    BY DEF WatchedNext, RestsOnFreshVerdict
  <2>2. CASE race'[p].posts > race[p].posts
    BY <2>1, <2>2, StepIsSafe DEF StepSafe, StoreSafe, CommitStep, VerdictInv
  <2>3. CASE sent'[p] > sent[p]
    <3>1. sent' # sent
      BY <2>1, <2>3 DEF TypeOK, WorldTypeOK
    <3>2. pc = "post"
      BY <2>1, <3>1, SentBySend DEF Send
    <3>3. QED
      BY <2>1, <3>2 DEF VerdictInv
  <2>4. QED
    BY <2>1, <2>2, <2>3 DEF Sends
<1>4. QED
  BY <1>1, <1>2, <1>3, WatchedIsSpec, TypeCorrect, SendInvariant, DayInvariant, PTL
     DEF WatchedSpec, SentOnFreshVerdict, DayInv
=============================================================================
