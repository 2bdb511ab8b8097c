----------------------------- MODULE SprintProofs -----------------------------
(***************************************************************************)
(* For any Developers, Reviewers, pull requests, plans and bounds: every   *)
(* state of SprintLanes is well typed, the board implements the schedule,  *)
(* and the safety properties of SprintProperties hold.                     *)
(*                                                                         *)
(* Every step of SprintLanes is first reduced to what it does to the board *)
(* (BoardNext); the properties of the board are then proved of those.      *)
(***************************************************************************)
EXTENDS SprintProperties, FiniteSetTheorems, TLAPS

(***************************************************************************)
(* The records that operators build.                                       *)
(***************************************************************************)
LEMMA UnitState ==
  ASSUME NEW k \in Unit, NEW state \in Dispositions
  PROVE  /\ [k EXCEPT !.state = state] \in Unit
         /\ [k EXCEPT !.state = state].state = state
         /\ [k EXCEPT !.state = state].dev = k.dev
         /\ [k EXCEPT !.state = state].kind = k.kind
         /\ [k EXCEPT !.state = state].deps = k.deps
BY DEF Unit

LEMMA MovedType ==
  ASSUME NEW us \in [UnitId -> Unit], NEW u \in UnitId, NEW state \in Dispositions
  PROVE  Moved(us, u, state) \in [UnitId -> Unit]
<1>1. [us[u] EXCEPT !.state = state] \in Unit
  BY UnitState
<1> QED BY ONLY <1>1, us \in [UnitId -> Unit] DEF Moved

LEMMA ReleaseType ==
  ASSUME NEW us \in [UnitId -> Unit]
  PROVE  Release(us) \in [UnitId -> Unit]
<1>1. "ready" \in Dispositions
  BY DEF Dispositions, Occupied
<1>2. \A u \in UnitId : [us[u] EXCEPT !.state = "ready"] \in Unit
  BY <1>1, UnitState
<1> QED BY <1>2 DEF Release

LEMMA AssignType ==
  ASSUME NEW us, NEW as \in [UnitId -> Assignment]
  PROVE  Assign(us, as) \in [UnitId -> Assignment]
BY DEF Assign, Assignment

LEMMA PlannedType ==
  ASSUME NEW plan \in Plans, NEW state \in Dispositions
  PROVE  Planned(plan, state) \in Unit
BY BoardConstants DEF Planned, Unit, Plan

LEMMA MergedType ==
  ASSUME units \in [UnitId -> Unit], NEW P, NEW ps
  PROVE  Merged(P, ps) \in [UnitId -> Unit]
<1>1. "completed" \in Dispositions
  BY DEF Dispositions, Settled
<1>2. \A u \in UnitId : [units[u] EXCEPT !.state = "completed"] \in Unit
  BY <1>1, UnitState
<1> QED BY <1>2 DEF Merged

LEMMA NoticeType ==
  ASSUME NEW us, NEW r \in Reviewers \cup {Nobody}, NEW g \in Nat
  PROVE  <<Cardinality(Created(us)), r, g>> \in Nat \X (Reviewers \cup {Nobody}) \X Nat
<1>1. MaxUnit \in Nat
  BY BoardConstants
<1>2. IsFiniteSet(UnitId)
  BY <1>1, FS_Interval DEF UnitId
<1>3. IsFiniteSet(Created(us))
  BY <1>2, FS_Subset DEF Created
<1> QED BY <1>3, FS_CardinalityType

(***************************************************************************)
(* The board: each operator of SprintBoard keeps its types.                *)
(***************************************************************************)
LEMMA AnnouncedType ==
  ASSUME BoardTypeOK, NEW us, NEW r \in Reviewers \cup {Nobody}, NEW g \in Nat, NEW c \in BOOLEAN
  PROVE  announced \cup (IF c THEN {<<Cardinality(Created(us)), r, g>>} ELSE {})
           \subseteq Nat \X (Reviewers \cup {Nobody}) \X Nat
<1>1. announced \subseteq Nat \X (Reviewers \cup {Nobody}) \X Nat
  BY DEF BoardTypeOK
<1>2. <<Cardinality(Created(us)), r, g>> \in Nat \X (Reviewers \cup {Nobody}) \X Nat
  BY NoticeType
<1> QED BY ONLY <1>1, <1>2

LEMMA SettleType ==
  ASSUME BoardTypeOK, NEW us \in [UnitId -> Unit], NEW as \in [UnitId -> Assignment],
         NEW release, Settle(us, as, release)
  PROVE  BoardTypeOK'
<1>1. CASE /\ lifecycle' = "paused" /\ units' = us /\ asg' = as
           /\ UNCHANGED <<owner, gen, eligible, announced>>
  BY <1>1 DEF BoardTypeOK, Lifecycles
<1>2. CASE ~(/\ lifecycle' = "paused" /\ units' = us /\ asg' = as
             /\ UNCHANGED <<owner, gen, eligible, announced>>)
  <2> DEFINE told == lifecycle = "armed" /\ AllSettled(us)
  <2>1. /\ announced' = announced \cup (IF told THEN {Notice(us)} ELSE {})
        /\ UNCHANGED <<lifecycle, owner, gen, eligible>>
    BY <1>2 DEF Settle
  <2>2. units' = us \/ units' = Release(us)
    BY <1>2 DEF Settle
  <2>3. asg' = as \/ asg' = Assign(us, as)
    BY <1>2 DEF Settle
  <2>4. units' \in [UnitId -> Unit]
    BY <2>2, ReleaseType
  <2>5. asg' \in [UnitId -> Assignment]
    BY <2>3, AssignType
  <2>6. owner \in Reviewers \cup {Nobody} /\ gen \in Nat
    BY DEF BoardTypeOK
  <2>7. told \in BOOLEAN
    OBVIOUS
  <2> HIDE DEF told
  <2>8. announced' \subseteq Nat \X (Reviewers \cup {Nobody}) \X Nat
    BY <2>1, <2>6, <2>7, AnnouncedType DEF Notice
  <2> QED BY <2>1, <2>4, <2>5, <2>8 DEF BoardTypeOK
<1> QED BY <1>1, <1>2

(* Only units and assignments, or only the lifecycle, change. *)
LEMMA UnitsType ==
  ASSUME BoardTypeOK, units' \in [UnitId -> Unit], asg' \in [UnitId -> Assignment],
         lifecycle' \in Lifecycles, UNCHANGED <<owner, gen, eligible, announced>>
  PROVE  BoardTypeOK'
BY DEF BoardTypeOK

LEMMA BoardFacts ==
  ASSUME BoardTypeOK
  PROVE  /\ units \in [UnitId -> Unit] /\ asg \in [UnitId -> Assignment]
         /\ lifecycle \in Lifecycles /\ owner \in Reviewers \cup {Nobody} /\ gen \in Nat
         /\ \A u \in UnitId : units[u] \in Unit /\ units[u].state \in Dispositions
BY DEF BoardTypeOK, Unit

LEMMA PlanType ==
  ASSUME BoardTypeOK, NEW u \in UnitId, NEW plan \in Plans, Create(u, plan) \/ Replan(u, plan)
  PROVE  BoardTypeOK'
<1>1. Planned(plan, "planned") \in Unit
  BY PlannedType DEF Dispositions
<1>2. units' = [units EXCEPT ![u] = Planned(plan, "planned")]
  BY DEF Create, Replan
<1>3. units' \in [UnitId -> Unit]
  BY <1>1, <1>2, BoardFacts
<1>4. UNCHANGED <<lifecycle, owner, gen, eligible, announced, asg>>
  BY DEF Create, Replan
<1> QED BY <1>3, <1>4, BoardFacts, UnitsType

LEMMA RetiredType ==
  ASSUME NEW as \in [UnitId -> Assignment], NEW u \in UnitId
  PROVE  [as EXCEPT ![u] = Retired(@)] \in [UnitId -> Assignment]
BY DEF Retired, Assignment

LEMMA RecallType ==
  ASSUME BoardTypeOK, NEW u \in UnitId, NEW state \in Dispositions,
         units' = Moved(units, u, state), asg' = [asg EXCEPT ![u] = Retired(@)],
         UNCHANGED <<lifecycle, owner, gen, eligible, announced>>
  PROVE  BoardTypeOK'
<1>1. units' \in [UnitId -> Unit]
  BY MovedType, BoardFacts
<1>2. asg' \in [UnitId -> Assignment]
  BY RetiredType, BoardFacts
<1> QED BY <1>1, <1>2, BoardFacts, UnitsType

LEMMA EndType ==
  ASSUME BoardTypeOK, NEW u \in UnitId, Cancel(u) \/ Complete(u) \/ DispatchReady
  PROVE  BoardTypeOK'
<1>1. CASE Cancel(u)
  <2>1. Moved(units, u, "cancelled") \in [UnitId -> Unit]
    BY MovedType, BoardFacts DEF Dispositions, Settled
  <2> QED BY <1>1, <2>1, SettleType, BoardFacts DEF Cancel
<1>2. CASE Complete(u)
  <2>1. Moved(units, u, "completed") \in [UnitId -> Unit]
    BY MovedType, BoardFacts DEF Dispositions, Settled
  <2> QED BY <1>2, <2>1, SettleType, BoardFacts DEF Complete
<1>3. CASE DispatchReady
  BY <1>3, SettleType, BoardFacts DEF DispatchReady
<1> QED BY <1>1, <1>2, <1>3

LEMMA AnswerType ==
  ASSUME BoardTypeOK, NEW u \in UnitId, Accept(u) \/ Decline(u)
  PROVE  BoardTypeOK'
<1>1. asg' \in [UnitId -> Assignment]
  BY BoardFacts DEF Accept, Decline, Assignment
<1>2. Moved(units, u, "active") \in [UnitId -> Unit]
  BY MovedType, BoardFacts DEF Dispositions, Occupied
<1>3. Moved(units, u, "planned") \in [UnitId -> Unit]
  BY MovedType, BoardFacts DEF Dispositions
<1>4. units' \in {units, Moved(units, u, "active"), Moved(units, u, "planned")}
  BY DEF Accept, Decline
<1>5. units' \in [UnitId -> Unit]
  BY <1>2, <1>3, <1>4, BoardFacts
<1>6. UNCHANGED <<lifecycle, owner, gen, eligible, announced>>
  BY DEF Accept, Decline
<1> QED BY <1>1, <1>5, <1>6, BoardFacts, UnitsType

LEMMA DeliveredType ==
  ASSUME BoardTypeOK, NEW d
  PROVE  Delivered(d) \in [UnitId -> Assignment]
BY BoardFacts DEF Delivered, Assignment

LEMMA GenerationType ==
  ASSUME BoardTypeOK, NEW r
  PROVE  Generation(r) \in Nat
BY BoardFacts DEF Generation

LEMMA ArmType ==
  ASSUME BoardTypeOK, NEW r \in Reviewers, NEW us \in [UnitId -> Unit],
         (Arm(r) /\ us = units) \/ Resume(r, us)
  PROVE  BoardTypeOK'
<1>1. /\ lifecycle' = "armed" /\ owner' = r /\ gen' = Generation(r)
      /\ units' = Release(us) /\ asg' = Assign(us, asg) /\ UNCHANGED eligible
      /\ announced' = announced \cup
           (IF AllSettled(us) THEN {<<Cardinality(Created(us)), r, Generation(r)>>} ELSE {})
  BY DEF Arm, Resume
<1>2. AllSettled(us) \in BOOLEAN
  BY DEF AllSettled
<1>3. announced' \subseteq Nat \X (Reviewers \cup {Nobody}) \X Nat
  BY <1>1, <1>2, GenerationType, AnnouncedType
<1>4. units' \in [UnitId -> Unit] /\ asg' \in [UnitId -> Assignment]
  BY <1>1, ReleaseType, AssignType, BoardFacts
<1> QED BY <1>1, <1>3, <1>4, GenerationType DEF BoardTypeOK, Lifecycles

LEMMA RefusedType ==
  ASSUME BoardTypeOK, NEW r \in Reviewers, NEW us \in [UnitId -> Unit], ResumeRefused(r, us)
  PROVE  BoardTypeOK'
<1> DEFINE told == us # units /\ AllSettled(us)
<1>1. /\ owner' = r /\ gen' = Generation(r) /\ units' = us /\ UNCHANGED <<lifecycle, eligible, asg>>
      /\ announced' = announced \cup
           (IF told THEN {<<Cardinality(Created(us)), r, Generation(r)>>} ELSE {})
  BY DEF ResumeRefused
<1>2. told \in BOOLEAN
  OBVIOUS
<1> HIDE DEF told
<1>3. announced' \subseteq Nat \X (Reviewers \cup {Nobody}) \X Nat
  BY <1>1, <1>2, GenerationType, AnnouncedType
<1> QED BY <1>1, <1>3, GenerationType DEF BoardTypeOK

(***************************************************************************)
(* The lanes.                                                              *)
(***************************************************************************)
LEMMA LanesFacts ==
  ASSUME LanesTypeOK
  PROVE  /\ prs \in [PRs -> PR] /\ github \in [PRs -> Fact]
         /\ reads \in [Readers -> Read \cup {AtRest}] /\ survey \in Survey
         /\ req \in [UnitId -> Request] /\ approved \in [UnitId -> 0..MaxRequest]
         /\ rounds \in [UnitId -> Nat] /\ facts \subseteq Developers \cup {Nobody}
         /\ bypassed \subseteq PRs \X (0..MaxSeen) \X ({NoUnit} \cup UnitId)
BY DEF LanesTypeOK

LEMMA PRFields ==
  ASSUME NEW r \in PR
  PROVE  /\ r.home \in {"none", "here", "aborted"} /\ r.dev \in Developers \cup {Nobody}
         /\ r.unit \in {NoUnit} \cup UnitId /\ r.live \in BOOLEAN /\ r.watched \in BOOLEAN
         /\ r.n \in 0..MaxSeen /\ r.seen \in Seen /\ r.lane \in Seen /\ r.key \in 0..MaxSeen
BY DEF PR

LEMMA RecordedType ==
  ASSUME LanesTypeOK, NEW p \in PRs, NEW got \in Seen, News(p, got) => prs[p].n < MaxSeen
  PROVE  /\ Recorded(p, got) \in PR
         /\ Recorded(p, got).key \in 0..MaxSeen /\ Recorded(p, got).unit = prs[p].unit
         /\ Recorded(p, got).home = prs[p].home /\ Recorded(p, got).live = prs[p].live
<1>1. prs[p] \in PR /\ MaxSeen \in Nat
  BY LanesFacts, LaneConstants
<1>2. prs[p].n \in 0..MaxSeen /\ prs[p].lane \in Seen /\ prs[p].key \in 0..MaxSeen
  BY <1>1, PRFields
<1>3. CASE ~News(p, got)
  BY <1>1, <1>2, <1>3 DEF Recorded
<1>4. CASE News(p, got)
  <2> DEFINE lane == IF prs[p].home = "none" THEN prs[p].lane ELSE got
             key == IF prs[p].home = "none" THEN prs[p].key ELSE prs[p].n + 1
  <2>1. prs[p].n + 1 \in 0..MaxSeen
    BY <1>1, <1>2, <1>4
  <2>2. lane \in Seen /\ key \in 0..MaxSeen
    BY <1>2, <2>1
  <2>3. Recorded(p, got) = [prs[p] EXCEPT !.n = prs[p].n + 1, !.seen = got, !.lane = lane, !.key = key]
    BY <1>4 DEF Recorded
  <2> HIDE DEF lane, key
  <2> QED BY <1>1, <2>1, <2>2, <2>3 DEF PR
<1> QED BY <1>3, <1>4

LEMMA ReadType ==
  ASSUME LanesTypeOK, NEW o \in Readers, NEW k \in Read \cup {AtRest}
  PROVE  [reads EXCEPT ![o] = k] \in [Readers -> Read \cup {AtRest}]
BY LanesFacts

LEMMA ReadParts ==
  ASSUME LanesTypeOK, NEW o \in Readers, reads[o].got # NoFact \/ reads[o].pr # NoPR
  PROVE  /\ reads[o] \in Read /\ reads[o].pr \in PRs
         /\ reads[o].got \in Seen /\ reads[o].unit \in {NoUnit} \cup UnitId
BY LanesFacts DEF AtRest, Read

LEMMA AtRead == ASSUME NEW p \in PRs PROVE At(p) \in Read
BY DEF At, Read, Seen

LEMMA ToldType ==
  ASSUME LanesTypeOK, NEW P \in SUBSET PRs
  PROVE  Told(P) \subseteq Developers \cup {Nobody}
BY LanesFacts, PRFields DEF Told

(* The bypasses of a set of PRs whose registrations are typed. *)
LEMMA BypassesType ==
  ASSUME NEW P \in SUBSET PRs, NEW ps,
         \A p \in P : ps[p].key \in 0..MaxSeen /\ ps[p].unit \in {NoUnit} \cup UnitId
  PROVE  Bypasses(P, ps) \subseteq PRs \X (0..MaxSeen) \X ({NoUnit} \cup UnitId)
BY DEF Bypasses

(* What the lanes are after a step that records no read. *)
LEMMA LanesType ==
  ASSUME LanesTypeOK, prs' \in [PRs -> PR], github' \in [PRs -> Fact],
         reads' \in [Readers -> Read \cup {AtRest}], survey' \in Survey, req' \in [UnitId -> Request],
         approved' \in [UnitId -> 0..MaxRequest], rounds' \in [UnitId -> Nat],
         facts' \subseteq Developers \cup {Nobody},
         bypassed' \subseteq PRs \X (0..MaxSeen) \X ({NoUnit} \cup UnitId)
  PROVE  LanesTypeOK'
BY DEF LanesTypeOK

LEMMA ObserveType ==
  ASSUME TypeOK, NEW o \in Readers, Observe(o)
  PROVE  TypeOK'
<1> DEFINE p == reads[o].pr
           got == reads[o].got
           after == [prs EXCEPT ![p] = Recorded(p, got)]
           merges == Merges(p, got)
           told == IF Notable(p, got) THEN Told({p}) ELSE {}
<1>0. BoardTypeOK /\ LanesTypeOK
  BY DEF TypeOK
<1>1. /\ got # NoFact /\ (News(p, got) => prs[p].n < MaxSeen)
      /\ prs' = after /\ facts' = facts \cup told
      /\ bypassed' = bypassed \cup Bypasses(merges, after)
      /\ reads' = [reads EXCEPT ![o] = AtRest]
      /\ UNCHANGED <<github, survey, req, approved, rounds>>
      /\ IF Merged(merges, after) = units THEN UNCHANGED board
         ELSE Settle(Merged(merges, after), asg, TRUE)
  BY DEF Observe
<1>2. p \in PRs /\ got \in Seen
  BY <1>0, <1>1, ReadParts
<1>3. /\ Recorded(p, got) \in PR
      /\ Recorded(p, got).key \in 0..MaxSeen /\ Recorded(p, got).unit = prs[p].unit
  BY <1>0, <1>1, <1>2, RecordedType
<1>4. after \in [PRs -> PR] /\ after[p] = Recorded(p, got)
  BY <1>0, <1>2, <1>3, LanesFacts
<1>5. merges \in SUBSET PRs /\ merges \subseteq {p}
  BY <1>2 DEF Merges
<1>6. prs[p].unit \in {NoUnit} \cup UnitId
  BY <1>0, <1>2, LanesFacts, PRFields
<1>7. told \subseteq Developers \cup {Nobody}
  BY <1>0, <1>2, ToldType
<1>8. reads' \in [Readers -> Read \cup {AtRest}]
  BY <1>0, <1>1, ReadType
<1> HIDE DEF after, merges, told
<1>9. Bypasses(merges, after) \subseteq PRs \X (0..MaxSeen) \X ({NoUnit} \cup UnitId)
  <2>1. \A q \in merges : after[q].key \in 0..MaxSeen /\ after[q].unit \in {NoUnit} \cup UnitId
    BY <1>3, <1>4, <1>5, <1>6
  <2> QED BY <2>1, <1>5, BypassesType
<1>10. LanesTypeOK'
  <2>1. /\ prs' \in [PRs -> PR] /\ facts' \subseteq Developers \cup {Nobody}
        /\ bypassed' \subseteq PRs \X (0..MaxSeen) \X ({NoUnit} \cup UnitId)
    BY <1>0, <1>1, <1>4, <1>7, <1>9, LanesFacts
  <2> QED BY <1>0, <1>1, <1>8, <2>1, LanesFacts, LanesType
<1>11. BoardTypeOK'
  <2>1. Merged(merges, after) \in [UnitId -> Unit]
    BY <1>0, BoardFacts, MergedType
  <2>2. CASE UNCHANGED board
    BY <1>0, <2>2 DEF board, BoardTypeOK
  <2>3. CASE Settle(Merged(merges, after), asg, TRUE)
    BY <1>0, <2>1, <2>3, BoardFacts, SettleType
  <2> QED BY <1>1, <2>2, <2>3
<1> QED BY <1>10, <1>11 DEF TypeOK

LEMMA BoardStays == ASSUME BoardTypeOK, UNCHANGED board PROVE BoardTypeOK'
BY DEF BoardTypeOK, board

LEMMA LanesStay == ASSUME LanesTypeOK, UNCHANGED lanes PROVE LanesTypeOK'
BY DEF LanesTypeOK, lanes

(* A step that changes nothing but the readers and the registrations. *)
LEMMA ReadingType ==
  ASSUME TypeOK, reads' \in [Readers -> Read \cup {AtRest}], prs' \in [PRs -> PR],
         UNCHANGED <<board, github, survey, req, approved, rounds, facts, bypassed>>
  PROVE  TypeOK'
<1>1. BoardTypeOK'
  BY BoardStays DEF TypeOK
<1>2. LanesTypeOK'
  BY LanesFacts, LanesType DEF TypeOK
<1> QED BY <1>1, <1>2 DEF TypeOK

LEMMA PollType == ASSUME TypeOK, NEW p \in PRs, Poll(p) PROVE TypeOK'
<1>1. LanesTypeOK /\ prs \in [PRs -> PR]
  BY LanesFacts DEF TypeOK
<1>2. reads' = [reads EXCEPT !["watcher"] = At(p)] /\ prs' = prs
  BY DEF Poll
<1>3. reads' \in [Readers -> Read \cup {AtRest}]
  BY <1>1, <1>2, AtRead, ReadType DEF Readers
<1> QED BY <1>1, <1>2, <1>3, ReadingType DEF Poll

LEMMA FetchType == ASSUME TypeOK, NEW o \in Readers, Fetch(o) PROVE TypeOK'
<1>1. LanesTypeOK /\ prs \in [PRs -> PR] /\ github \in [PRs -> Fact]
  BY LanesFacts DEF TypeOK
<1>2. reads[o] \in Read /\ reads[o].pr \in PRs
  BY <1>1, ReadParts DEF Fetch
<1>3. github[reads[o].pr] \in Seen
  BY <1>1, <1>2 DEF Seen
<1>4. [reads[o] EXCEPT !.got = github[reads[o].pr]] \in Read
  BY <1>2, <1>3 DEF Read
<1>5. reads' = [reads EXCEPT ![o] = [reads[o] EXCEPT !.got = github[reads[o].pr]]] /\ prs' = prs
  BY <1>1, LanesFacts DEF Fetch
<1>6. reads' \in [Readers -> Read \cup {AtRest}]
  BY <1>1, <1>4, <1>5, ReadType
<1> QED BY <1>1, <1>5, <1>6, ReadingType DEF Fetch

LEMMA SubscribeType ==
  ASSUME TypeOK, NEW p \in PRs, NEW d \in Developers, NEW o \in Readers, Subscribe(p, d, o)
  PROVE  TypeOK'
<1>1. LanesTypeOK /\ prs \in [PRs -> PR] /\ prs[p] \in PR
  BY LanesFacts DEF TypeOK
<1>2. /\ reads' = [reads EXCEPT ![o] = At(p)]
      /\ prs' = [prs EXCEPT ![p] = [prs[p] EXCEPT !.watched = TRUE, !.dev = d]]
  BY <1>1 DEF Subscribe
<1>3. reads' \in [Readers -> Read \cup {AtRest}]
  BY <1>1, <1>2, AtRead, ReadType
<1>4. [prs[p] EXCEPT !.watched = TRUE, !.dev = d] \in PR
  BY <1>1 DEF PR
<1>5. prs' \in [PRs -> PR]
  BY <1>1, <1>2, <1>4
<1> QED BY <1>3, <1>5, ReadingType DEF Subscribe

LEMMA RegisterType ==
  ASSUME TypeOK, NEW p \in PRs, NEW d \in Developers, NEW u \in UnitId, Register(p, d, u)
  PROVE  TypeOK'
<1> DEFINE row == [prs[p] EXCEPT !.home = "here", !.dev = d, !.unit = u, !.live = TRUE, !.watched = TRUE]
<1>1. LanesTypeOK /\ prs \in [PRs -> PR] /\ prs[p] \in PR
  BY LanesFacts DEF TypeOK
<1>2. reads' = [reads EXCEPT !["api"] = At(p)] /\ (prs' = prs \/ prs' = [prs EXCEPT ![p] = row])
  BY <1>1 DEF Register
<1>3. reads' \in [Readers -> Read \cup {AtRest}]
  BY <1>1, <1>2, AtRead, ReadType DEF Readers
<1>4. row \in PR
  BY <1>1 DEF PR
<1> HIDE DEF row
<1>5. prs' \in [PRs -> PR]
  BY <1>1, <1>2, <1>4
<1> QED BY <1>3, <1>5, ReadingType DEF Register

LEMMA AdoptReadType ==
  ASSUME TypeOK, NEW p \in PRs, NEW u \in UnitId, AdoptRead(p, u)
  PROVE  TypeOK'
<1>1. LanesTypeOK /\ prs \in [PRs -> PR] /\ github[p] \in Fact
  BY LanesFacts DEF TypeOK
<1>2. [pr |-> p, got |-> github[p], unit |-> u] \in Read
  BY <1>1 DEF Read, Seen
<1>3. reads' \in [Readers -> Read \cup {AtRest}]
  BY <1>1, <1>2, ReadType DEF AdoptRead, Readers
<1> QED BY <1>1, <1>3, ReadingType DEF AdoptRead

LEMMA MovingType ==
  ASSUME TypeOK, NEW p \in PRs, NEW u \in UnitId, NEW got \in Seen, prs[p].n < MaxSeen
  PROVE  Moving(p, u, got) \in PR
<1> DEFINE pr == [prs[p] EXCEPT !.home = "here", !.dev = units[u].dev, !.unit = u,
                                !.live = TRUE, !.watched = TRUE]
<1>1. prs[p] \in PR /\ MaxSeen \in Nat
  BY LanesFacts, LaneConstants DEF TypeOK
<1>2. units[u].dev \in Developers \cup {Nobody}
  BY BoardFacts DEF TypeOK, Unit
<1>3. pr \in PR /\ pr.n = prs[p].n
  BY <1>1, <1>2 DEF PR
<1>4. pr.n + 1 \in 0..MaxSeen
  BY <1>1, <1>3, PRFields
<1>5. Moving(p, u, got) \in {pr, [pr EXCEPT !.n = pr.n + 1, !.seen = got, !.lane = got, !.key = pr.n + 1]}
  BY DEF Moving
<1> HIDE DEF pr
<1>6. [pr EXCEPT !.n = pr.n + 1, !.seen = got, !.lane = got, !.key = pr.n + 1] \in PR
  BY <1>3, <1>4 DEF PR
<1> QED BY <1>3, <1>5, <1>6

LEMMA AdoptType == ASSUME TypeOK, Adopt PROVE TypeOK'
<1> DEFINE p == reads["api"].pr
           u == reads["api"].unit
           got == reads["api"].got
<1>0. LanesTypeOK /\ BoardTypeOK /\ prs \in [PRs -> PR] /\ "api" \in Readers
  BY LanesFacts DEF TypeOK, Readers
<1>1. u # NoUnit
  BY DEF Adopt
<1>2. p \in PRs /\ got \in Seen /\ u \in UnitId
  BY <1>0, <1>1, LanesFacts DEF AtRest, Read
<1>3. reads' = [reads EXCEPT !["api"] = At(p)] \/ reads' = [reads EXCEPT !["api"] = AtRest]
  BY DEF Adopt
<1>4. reads' \in [Readers -> Read \cup {AtRest}]
  BY <1>0, <1>2, <1>3, AtRead, ReadType
<1>5. prs' = prs \/ (prs[p].n < MaxSeen /\ prs' = [prs EXCEPT ![p] = Moving(p, u, got)])
  BY DEF Adopt
<1>6. prs' \in [PRs -> PR]
  BY <1>0, <1>2, <1>5, MovingType
<1>7. units' = units \/ units' = Moved(units, u, "completed")
  BY DEF Adopt
<1>8. units' \in [UnitId -> Unit]
  BY <1>0, <1>2, <1>7, BoardFacts, MovedType DEF Dispositions, Settled
<1>9. BoardTypeOK'
  BY <1>0, <1>8, BoardFacts, UnitsType DEF Adopt
<1>10. LanesTypeOK'
  BY <1>0, <1>4, <1>6, LanesFacts, LanesType DEF Adopt
<1> QED BY <1>9, <1>10 DEF TypeOK

(***************************************************************************)
(* The review loop.                                                        *)
(***************************************************************************)
LEMMA RequestType ==
  ASSUME NEW n \in 0..MaxRequest, NEW state \in Assignment
  PROVE  [n |-> n, state |-> state] \in Request
BY DEF Request

LEMMA ReqFacts ==
  ASSUME LanesTypeOK, NEW u \in UnitId
  PROVE  /\ req[u] \in Request /\ req[u].n \in 0..MaxRequest /\ req[u].state \in Assignment
         /\ MaxRequest \in Nat
         /\ req[u].n < MaxRequest => req[u].n + 1 \in 0..MaxRequest
<1>1. req[u] \in Request /\ MaxRequest \in Nat
  BY LanesFacts, LaneConstants
<1>2. req[u].n \in 0..MaxRequest /\ req[u].state \in Assignment
  BY <1>1 DEF Request
<1> QED BY <1>1, <1>2

(* A step of the loop: the board keeps all but units, lifecycle; the lanes all
   but requests, approvals and rounds. *)
LEMMA ReviewingType ==
  ASSUME TypeOK, units' \in [UnitId -> Unit], lifecycle' \in Lifecycles,
         req' \in [UnitId -> Request], approved' \in [UnitId -> 0..MaxRequest],
         rounds' \in [UnitId -> Nat],
         UNCHANGED <<owner, gen, eligible, announced, asg>>,
         UNCHANGED <<prs, github, reads, survey, facts, bypassed>>
  PROVE  TypeOK'
<1>1. BoardTypeOK'
  BY BoardFacts, UnitsType DEF TypeOK
<1>2. LanesTypeOK'
  BY LanesFacts, LanesType DEF TypeOK
<1> QED BY <1>1, <1>2 DEF TypeOK

LEMMA RequestReviewType == ASSUME TypeOK, NEW p \in PRs, RequestReview(p) PROVE TypeOK'
<1> DEFINE u == prs[p].unit
<1>0. LanesTypeOK /\ BoardTypeOK
  BY DEF TypeOK
<1>1. u \in UnitId
  BY <1>0, LanesFacts, PRFields DEF RequestReview
<1>2. /\ req[u].n < MaxRequest /\ units' = Moved(units, u, "in_review")
      /\ req' = [req EXCEPT ![u] = [n |-> req[u].n + 1, state |-> "queued"]]
  BY DEF RequestReview
<1>3. [n |-> req[u].n + 1, state |-> "queued"] \in Request
  BY <1>0, <1>1, <1>2, ReqFacts, RequestType DEF Assignment
<1>4. req' \in [UnitId -> Request]
  BY <1>0, <1>2, <1>3, LanesFacts
<1>5. units' \in [UnitId -> Unit]
  BY <1>0, <1>1, <1>2, MovedType, BoardFacts DEF Dispositions, Occupied
<1>6. lifecycle \in Lifecycles /\ approved \in [UnitId -> 0..MaxRequest] /\ rounds \in [UnitId -> Nat]
  BY <1>0, BoardFacts, LanesFacts
<1>7. /\ UNCHANGED <<lifecycle, owner, gen, eligible, announced, asg>>
      /\ UNCHANGED <<prs, github, reads, survey, approved, rounds, facts, bypassed>>
  BY DEF RequestReview
<1> HIDE DEF u
<1> QED BY <1>4, <1>5, <1>6, <1>7, ReviewingType

LEMMA AnsweredType ==
  ASSUME TypeOK, NEW u \in UnitId, NEW from, NEW to \in Assignment, Answer(u, from, to)
  PROVE  TypeOK'
<1>0. LanesTypeOK /\ BoardTypeOK
  BY DEF TypeOK
<1>1. [n |-> req[u].n, state |-> to] \in Request
  BY <1>0, ReqFacts, RequestType
<1>2. req' \in [UnitId -> Request]
  BY <1>0, <1>1, LanesFacts DEF Answer
<1>3. /\ units \in [UnitId -> Unit] /\ lifecycle \in Lifecycles
      /\ approved \in [UnitId -> 0..MaxRequest] /\ rounds \in [UnitId -> Nat]
  BY <1>0, BoardFacts, LanesFacts
<1>4. /\ UNCHANGED <<units, lifecycle, owner, gen, eligible, announced, asg>>
      /\ UNCHANGED <<prs, github, reads, survey, approved, rounds, facts, bypassed>>
  BY DEF Answer, board
<1> QED BY <1>2, <1>3, <1>4, ReviewingType

LEMMA RecordReviewType ==
  ASSUME TypeOK, NEW p \in PRs, NEW verdict, RecordReview(p, verdict)
  PROVE  TypeOK'
<1> DEFINE u == prs[p].unit
<1>0. LanesTypeOK /\ BoardTypeOK
  BY DEF TypeOK
<1>1. u \in UnitId
  BY <1>0, LanesFacts, PRFields DEF RecordReview
<1>2. /\ rounds' = [rounds EXCEPT ![u] = rounds[u] + 1]
      /\ units' = Moved(units, u, IF verdict = "approved" THEN "merge_ready" ELSE "fixing")
      /\ approved' = approved \/ approved' = [approved EXCEPT ![u] = req[u].n]
      /\ lifecycle' = lifecycle \/ lifecycle' = "paused"
  BY DEF RecordReview
<1>3. units' \in [UnitId -> Unit]
  BY <1>0, <1>1, <1>2, MovedType, BoardFacts DEF Dispositions, Occupied
<1>4. rounds' \in [UnitId -> Nat]
  BY <1>0, <1>1, <1>2, LanesFacts
<1>5. approved' \in [UnitId -> 0..MaxRequest]
  BY <1>0, <1>1, <1>2, LanesFacts, ReqFacts
<1>6. lifecycle' \in Lifecycles
  BY <1>0, <1>2, BoardFacts DEF Lifecycles
<1>7. req' \in [UnitId -> Request]
  BY <1>0, LanesFacts DEF RecordReview
<1>8. /\ UNCHANGED <<owner, gen, eligible, announced, asg>>
      /\ UNCHANGED <<prs, github, reads, survey, facts, bypassed>>
  BY DEF RecordReview
<1> HIDE DEF u
<1> QED BY <1>3, <1>4, <1>5, <1>6, <1>7, <1>8, ReviewingType

LEMMA RerouteReviewerType == ASSUME TypeOK, RerouteReviewer PROVE TypeOK'
<1> DEFINE out == {u \in UnitId : units[u].state = "in_review"}
<1>0. LanesTypeOK /\ BoardTypeOK
  BY DEF TypeOK
<1>1. /\ \A u \in out : req[u].n < MaxRequest
      /\ req' = [u \in UnitId |->
                  IF u \in out THEN [n |-> req[u].n + 1, state |-> "queued"] ELSE req[u]]
  BY DEF RerouteReviewer
<1>2. \A u \in out : [n |-> req[u].n + 1, state |-> "queued"] \in Request
  BY <1>0, <1>1, ReqFacts, RequestType DEF Assignment
<1>3. \A u \in UnitId : req[u] \in Request
  BY <1>0, ReqFacts
<1> HIDE DEF out
<1>4. req' \in [UnitId -> Request]
  BY <1>1, <1>2, <1>3
<1>5. /\ units \in [UnitId -> Unit] /\ lifecycle \in Lifecycles
      /\ approved \in [UnitId -> 0..MaxRequest] /\ rounds \in [UnitId -> Nat]
  BY <1>0, BoardFacts, LanesFacts
<1>6. /\ UNCHANGED <<units, lifecycle, owner, gen, eligible, announced, asg>>
      /\ UNCHANGED <<prs, github, reads, survey, approved, rounds, facts, bypassed>>
  BY DEF RerouteReviewer, board
<1> QED BY <1>4, <1>5, <1>6, ReviewingType

(***************************************************************************)
(* Waking, resuming, and what GitHub does.                                 *)
(***************************************************************************)
LEMMA WakeDeveloperType == ASSUME TypeOK, NEW d \in Developers, WakeDeveloper(d) PROVE TypeOK'
<1>0. LanesTypeOK /\ BoardTypeOK
  BY DEF TypeOK
<1>1. BoardTypeOK'
  BY <1>0, DeliveredType, BoardFacts, UnitsType DEF WakeDeveloper
<1>2. LanesTypeOK'
  BY <1>0, LanesFacts, LanesType DEF WakeDeveloper
<1> QED BY <1>1, <1>2 DEF TypeOK

LEMMA SurveyType == ASSUME TypeOK, SurveyPRs PROVE TypeOK'
<1>0. LanesTypeOK /\ BoardTypeOK /\ github \in [PRs -> Fact]
  BY LanesFacts DEF TypeOK
<1>1. [p \in PRs |-> IF prs[p].home = "here" THEN github[p] ELSE NoFact] \in [PRs -> Seen]
  BY <1>0 DEF Seen
<1>2. survey' \in Survey
  BY <1>1 DEF SurveyPRs, Survey
<1>3. LanesTypeOK'
  BY <1>0, <1>2, LanesFacts, LanesType DEF SurveyPRs
<1>4. BoardTypeOK'
  BY <1>0, BoardStays DEF SurveyPRs
<1> QED BY <1>3, <1>4 DEF TypeOK

LEMMA SurveyedType ==
  ASSUME LanesTypeOK, EndSurvey
  PROVE  /\ Surveyed \in [PRs -> PR]
         /\ \A p \in PRs : /\ Surveyed[p].key \in 0..MaxSeen
                           /\ Surveyed[p].unit \in {NoUnit} \cup UnitId
<1>1. \A p \in PRs : survey.got[p] \in Seen
  BY LanesFacts DEF Survey
<1>2. \A p \in PRs : News(p, survey.got[p]) => prs[p].n < MaxSeen
  BY DEF EndSurvey, Fresh
<1>3. \A p \in PRs : Recorded(p, survey.got[p]) \in PR
  BY <1>1, <1>2, RecordedType
<1>4. Surveyed \in [PRs -> PR]
  BY <1>3 DEF Surveyed
<1> QED BY <1>4, PRFields

LEMMA EndSurveyType ==
  ASSUME LanesTypeOK, EndSurvey, NEW P \in SUBSET PRs,
         bypassed' = bypassed \cup Bypasses(P, Surveyed)
  PROVE  LanesTypeOK'
<1>1. /\ Surveyed \in [PRs -> PR]
      /\ \A p \in PRs : Surveyed[p].key \in 0..MaxSeen /\ Surveyed[p].unit \in {NoUnit} \cup UnitId
  BY SurveyedType
<1>2. Bypasses(P, Surveyed) \subseteq PRs \X (0..MaxSeen) \X ({NoUnit} \cup UnitId)
  BY <1>1, BypassesType
<1>3. Told({p \in PRs : Notable(p, survey.got[p])}) \subseteq Developers \cup {Nobody}
  BY ToldType
<1>4. NoSurvey \in Survey
  BY DEF NoSurvey, Survey, Seen
<1>5. /\ survey' = NoSurvey /\ prs' = Surveyed
      /\ facts' = facts \cup Told({p \in PRs : Notable(p, survey.got[p])})
      /\ UNCHANGED <<github, reads, req, approved, rounds>>
  BY DEF EndSurvey
<1>6. /\ facts' \subseteq Developers \cup {Nobody}
      /\ bypassed' \subseteq PRs \X (0..MaxSeen) \X ({NoUnit} \cup UnitId)
  BY <1>2, <1>3, <1>5, LanesFacts
<1> QED BY <1>1, <1>4, <1>5, <1>6, LanesFacts, LanesType

LEMMA ResumingType ==
  ASSUME TypeOK, NEW r \in Reviewers, ResumeSprint(r) \/ ResumeFails(r)
  PROVE  TypeOK'
<1>0. LanesTypeOK /\ BoardTypeOK
  BY DEF TypeOK
<1>1. CASE ResumeSprint(r)
  <2>1. Merged(PRs, Surveyed) \in [UnitId -> Unit]
    BY <1>0, BoardFacts, MergedType
  <2>2. Resume(r, Merged(PRs, Surveyed)) /\ EndSurvey
        /\ bypassed' = bypassed \cup Bypasses(PRs, Surveyed)
    BY <1>1 DEF ResumeSprint
  <2>3. BoardTypeOK'
    BY <1>0, <2>1, <2>2, ArmType
  <2>4. LanesTypeOK'
    BY <1>0, <2>2, EndSurveyType
  <2> QED BY <2>3, <2>4 DEF TypeOK
<1>2. CASE ResumeFails(r)
  <2>1. Merged(Fresh, Surveyed) \in [UnitId -> Unit]
    BY <1>0, BoardFacts, MergedType
  <2>2. ResumeRefused(r, Merged(Fresh, Surveyed)) /\ EndSurvey
        /\ bypassed' = bypassed \cup Bypasses(Fresh, Surveyed)
    BY <1>2 DEF ResumeFails
  <2>3. BoardTypeOK'
    BY <1>0, <2>1, <2>2, RefusedType
  <2>4. Fresh \in SUBSET PRs
    BY DEF Fresh
  <2>5. LanesTypeOK'
    BY <1>0, <2>2, <2>4, EndSurveyType
  <2> QED BY <2>3, <2>5 DEF TypeOK
<1> QED BY <1>1, <1>2

LEMMA ResolveUnitType ==
  ASSUME TypeOK, NEW u \in UnitId, NEW target \in Settled, ResolveUnit(u, target)
  PROVE  TypeOK'
<1>0. LanesTypeOK /\ BoardTypeOK /\ target \in Dispositions
  BY DEF TypeOK, Dispositions
<1>1. BoardTypeOK'
  BY <1>0, RecallType DEF ResolveUnit, Resolve
<1>2. \A p \in PRs : prs[p] \in PR /\ [prs[p] EXCEPT !.live = FALSE] \in PR
  <2>1. \A pr \in PR : [pr EXCEPT !.live = FALSE] \in PR
    BY ZenonT(30) DEF PR
  <2> QED BY <1>0, <2>1, LanesFacts
<1>3. prs' \in [PRs -> PR]
  BY <1>2 DEF ResolveUnit
<1>4. Retired(req[u].state) \in Assignment
  BY <1>0, ReqFacts DEF Retired, Assignment
<1>5. [n |-> req[u].n, state |-> Retired(req[u].state)] \in Request
  BY <1>0, <1>4, ReqFacts, RequestType
<1>6. req' \in [UnitId -> Request]
  BY <1>0, <1>5, LanesFacts DEF ResolveUnit
<1>7. LanesTypeOK'
  BY <1>0, <1>3, <1>6, LanesFacts, LanesType DEF ResolveUnit
<1> QED BY <1>1, <1>7 DEF TypeOK

LEMMA GithubType ==
  ASSUME TypeOK, NEW p \in PRs, NEW from, NEW to \in Fact, Github(p, from, to)
  PROVE  TypeOK'
<1>0. LanesTypeOK /\ BoardTypeOK
  BY DEF TypeOK
<1>1. github' \in [PRs -> Fact]
  BY <1>0, LanesFacts DEF Github
<1>2. LanesTypeOK'
  BY <1>0, <1>1, LanesFacts, LanesType DEF Github
<1>3. BoardTypeOK'
  BY <1>0, BoardStays DEF Github
<1> QED BY <1>2, <1>3 DEF TypeOK

LEMMA RemoteType == ASSUME TypeOK, Remote PROVE TypeOK'
<1>1. PICK p \in PRs :
        \/ Push(p) \/ Reopen(p)
        \/ \E result \in {"green", "red"} : Checked(p, result)
        \/ \E state \in Over : End(p, state)
  BY DEF Remote
<1>2. github[p] \in Fact /\ github[p].head \in 1..MaxHead /\ MaxHead \in Nat
  BY <1>1, LanesFacts, LaneConstants DEF TypeOK, Fact
<1>3. \A state \in PRStates : [state |-> state, head |-> github[p].head] \in Fact
  BY <1>2 DEF Fact
<1>4. github[p].head < MaxHead => [state |-> "pending", head |-> github[p].head + 1] \in Fact
  BY <1>2 DEF Fact, PRStates
<1>5. {"green", "red", "pending"} \cup Over \subseteq PRStates
  BY DEF PRStates, Over
<1> QED BY <1>1, <1>3, <1>4, <1>5, GithubType DEF Push, Reopen, Checked, End

(***************************************************************************)
(* The whole.                                                              *)
(***************************************************************************)
LEMMA InitType == ASSUME Init PROVE TypeOK
<1>1. NoUnitYet \in Unit
  BY DEF NoUnitYet, Unit, Dispositions
<1>2. BoardTypeOK
  BY <1>1 DEF Init, InitBoard, BoardTypeOK, Lifecycles, Assignment
<1>3. MaxHead \in Nat \ {0} /\ MaxSeen \in Nat /\ MaxRequest \in Nat
  BY LaneConstants
<1>4. \A d \in Developers \cup {Nobody}, w \in BOOLEAN, h \in {"none", "aborted"} :
        Unregistered(d, w, h) \in PR
  BY <1>3 DEF Unregistered, PR, Seen
<1>5. prs \in [PRs -> PR]
  BY <1>4 DEF Init
<1>6. [state |-> "pending", head |-> 1] \in Fact
  BY <1>3 DEF Fact, PRStates
<1>7. github \in [PRs -> Fact] /\ reads \in [Readers -> Read \cup {AtRest}]
  BY <1>6 DEF Init
<1>8. survey \in Survey
  BY DEF Init, NoSurvey, Survey, Seen
<1>9. [n |-> 0, state |-> "none"] \in Request
  BY <1>3 DEF Request, Assignment
<1>10. /\ req \in [UnitId -> Request] /\ approved \in [UnitId -> 0..MaxRequest]
       /\ rounds \in [UnitId -> Nat] /\ facts = {} /\ bypassed = {}
  BY <1>3, <1>9 DEF Init
<1>11. LanesTypeOK
  BY <1>5, <1>7, <1>8, <1>10 DEF LanesTypeOK
<1> QED BY <1>2, <1>11 DEF TypeOK

LEMMA BoardOnly == ASSUME TypeOK, BoardTypeOK', UNCHANGED lanes PROVE TypeOK'
BY LanesStay DEF TypeOK

LEMMA NextType == ASSUME TypeOK, [Next]_vars PROVE TypeOK'
<1>0. BoardTypeOK /\ LanesTypeOK
  BY DEF TypeOK
<1>1. CASE Planning /\ UNCHANGED lanes
  <2>1. PICK u \in UnitId : \/ \E plan \in Plans : Create(u, plan) \/ Replan(u, plan)
                           \/ Recall(u, Bound(u)) \/ Cancel(u)
    BY <1>1 DEF Planning
  <2>2. ASSUME Recall(u, Bound(u)) PROVE BoardTypeOK'
    <3>1. "planned" \in Dispositions
      BY DEF Dispositions
    <3> QED BY <1>0, <2>2, <3>1, RecallType DEF Recall
  <2>3. BoardTypeOK'
    BY <1>0, <2>1, <2>2, PlanType, EndType
  <2> QED BY <1>1, <2>3, BoardOnly
<1>2. CASE Working /\ UNCHANGED lanes
  BY <1>0, <1>2, AnswerType, EndType, BoardOnly DEF Working
<1>3. CASE Steering /\ UNCHANGED lanes
  <2>1. ASSUME NEW r \in Reviewers, Arm(r) PROVE BoardTypeOK'
    BY <1>0, <2>1, ArmType, BoardFacts
  <2>2. ASSUME Pause \/ Abort \/ Conclude PROVE BoardTypeOK'
    BY <1>0, <2>2 DEF Pause, Abort, Conclude, Lifecycles, BoardTypeOK
  <2>3. ASSUME NEW d \in Developers, RerouteDeveloper(d) PROVE BoardTypeOK'
    <3>1. asg' \in [UnitId -> Assignment]
      BY <1>0, <2>3 DEF RerouteDeveloper, BoardTypeOK, Assignment
    <3> QED BY <1>0, <2>3, <3>1 DEF RerouteDeveloper, BoardTypeOK
  <2>4. ASSUME NEW r \in Reviewers, Retire(r) PROVE BoardTypeOK'
    BY <1>0, <2>4 DEF Retire, BoardTypeOK
  <2>5. BoardTypeOK'
    BY <1>3, <2>1, <2>2, <2>3, <2>4 DEF Steering
  <2> QED BY <1>3, <2>5, BoardOnly
<1>4. CASE DispatchReady /\ UNCHANGED lanes
  BY <1>0, <1>4, BoardFacts, SettleType, BoardOnly DEF DispatchReady
<1>5. CASE \E d \in Developers : WakeDeveloper(d)
  BY <1>5, WakeDeveloperType
<1>6. CASE Resuming
  BY <1>6, SurveyType, ResumingType, ResolveUnitType DEF Resuming
<1>7. CASE Watching
  BY <1>7, ObserveType, FetchType, PollType, SubscribeType, RegisterType, AdoptReadType,
     AdoptType DEF Watching
<1>8. CASE Reviewing
  <2>1. "queued" \in Assignment /\ "delivered" \in Assignment /\ "accepted" \in Assignment
        /\ "declined" \in Assignment
    BY DEF Assignment
  <2> QED BY <1>8, <2>1, RequestReviewType, RecordReviewType, AnsweredType, RerouteReviewerType
          DEF Reviewing, DeliverRequest, AcceptRequest, DeclineRequest
<1>9. CASE Remote
  BY <1>9, RemoteType
<1>10. CASE UNCHANGED vars
  BY <1>0, <1>10, BoardStays, LanesStay DEF vars, TypeOK
<1> QED BY <1>1, <1>2, <1>3, <1>4, <1>5, <1>6, <1>7, <1>8, <1>9, <1>10 DEF Next

(* Every state of a Sprint's lanes is well typed. *)
THEOREM SprintTypes == Spec => []TypeOK
BY InitType, NextType, PTL DEF Spec

-----------------------------------------------------------------------------
(***************************************************************************)
(* What a step does to the board.                                          *)
(***************************************************************************)
(* `us`: the units once some approved lanes are completed by their merge. *)
Projected(us) ==
  /\ us \in [UnitId -> Unit]
  /\ \A u \in UnitId :
       us[u] = units[u] \/ (units[u].state = "merge_ready"
                            /\ us[u] = [units[u] EXCEPT !.state = "completed"])

Adopted(u) ==
  /\ lifecycle = "paused" /\ units[u].state = "active"
  /\ units' = Moved(units, u, "completed")
  /\ UNCHANGED <<lifecycle, owner, gen, eligible, announced, asg>>

(* A lane goes round the review loop. *)
Reviewed(u, from, to) ==
  /\ lifecycle = "armed" /\ units[u].state \in from
  /\ units' = Moved(units, u, to) /\ lifecycle' \in {"armed", "paused"}
  /\ UNCHANGED <<owner, gen, eligible, announced, asg>>

(* All that leaves the review loop alone. *)
Plain ==
  \/ UNCHANGED board
  \/ \E u \in UnitId, plan \in Plans : Create(u, plan) \/ Replan(u, plan)
  \/ \E u \in UnitId : Recall(u, Bound(u)) \/ Cancel(u) \/ Accept(u) \/ Decline(u) \/ Complete(u)
  \/ Steering \/ DispatchReady
  \/ \E d \in Developers : asg' = Delivered(d)
                            /\ UNCHANGED <<lifecycle, owner, gen, eligible, announced, units>>
  \/ \E us \in [UnitId -> Unit] : Projected(us) /\
       (Settle(us, asg, TRUE) \/ \E r \in Reviewers : Resume(r, us) \/ ResumeRefused(r, us))
  \/ \E u \in UnitId : Adopted(u)

BoardNext ==
  \/ Plain
  \/ \E u \in UnitId, target \in Settled : Resolve(u, target)
  \/ \E u \in UnitId : \/ Reviewed(u, {"active", "fixing", "in_review"}, "in_review")
                       \/ Reviewed(u, {"in_review"}, "merge_ready")
                       \/ Reviewed(u, {"in_review"}, "fixing")

LEMMA MergedProjected ==
  ASSUME BoardTypeOK, NEW P, NEW ps
  PROVE  Merged(P, ps) \in [UnitId -> Unit] /\ Projected(Merged(P, ps))
<1>1. units \in [UnitId -> Unit]
  BY BoardFacts
<1>2. Merged(P, ps) \in [UnitId -> Unit]
  BY <1>1, MergedType
<1> QED BY <1>2 DEF Projected, Merged

Calm == Plain /\ UNCHANGED <<req, approved>>

Named ==
  \/ \E u \in UnitId, target \in Settled : ResolveUnit(u, target)
  \/ \E p \in PRs : \/ RequestReview(p)
                    \/ \E verdict \in {"approved", "changes_requested"} : RecordReview(p, verdict)
  \/ \E u \in UnitId : DeliverRequest(u) \/ AcceptRequest(u) \/ DeclineRequest(u)
  \/ RerouteReviewer

LEMMA LanesCases ==
  ASSUME TypeOK, [Next]_vars
  PROVE  Calm \/ Named
<1>0. BoardTypeOK /\ LanesTypeOK
  BY DEF TypeOK
<1>1. CASE (Planning \/ Working \/ Steering \/ DispatchReady) /\ UNCHANGED lanes
  BY <1>1 DEF Planning, Working, Calm, Plain, lanes
<1>2. CASE \E d \in Developers : WakeDeveloper(d)
  BY <1>2 DEF WakeDeveloper, Calm, Plain
<1>3. CASE Resuming
  <2>1. CASE SurveyPRs
    BY <2>1 DEF SurveyPRs, Calm, Plain
  <2>2. ASSUME NEW r \in Reviewers, ResumeSprint(r) PROVE Calm
    <3>1. PICK us \in [UnitId -> Unit] : Projected(us) /\ Resume(r, us)
      BY <1>0, <2>2, MergedProjected DEF ResumeSprint
    <3> QED BY <3>1, <2>2 DEF Calm, Plain, ResumeSprint, EndSurvey
  <2>3. ASSUME NEW r \in Reviewers, ResumeFails(r) PROVE Calm
    <3>1. PICK us \in [UnitId -> Unit] : Projected(us) /\ ResumeRefused(r, us)
      BY <1>0, <2>3, MergedProjected DEF ResumeFails
    <3> QED BY <3>1, <2>3 DEF Calm, Plain, ResumeFails, EndSurvey
  <2> QED BY <1>3, <2>1, <2>2, <2>3 DEF Resuming, Named
<1>4. CASE Watching
  <2>1. ASSUME NEW o \in Readers, Observe(o) PROVE Calm
    <3>1. \/ UNCHANGED board
          \/ \E us \in [UnitId -> Unit] : Projected(us) /\ Settle(us, asg, TRUE)
      BY <1>0, <2>1, MergedProjected DEF Observe
    <3> QED BY <3>1, <2>1 DEF Calm, Plain, Observe
  <2>2. CASE Adopt
    <3>1. \/ UNCHANGED board
          \/ \E u \in UnitId : Adopted(u)
      <4> DEFINE p == reads["api"].pr
                 u == reads["api"].unit
                 got == reads["api"].got
      <4>1. reads["api"] \in Read \cup {AtRest} /\ u # NoUnit
        BY <1>0, <2>2, LanesFacts DEF Adopt, Readers
      <4>2. u \in UnitId
        BY <4>1 DEF Read, AtRest
      <4>3. /\ UNCHANGED <<lifecycle, owner, gen, eligible, announced, asg>>
            /\ \/ UNCHANGED units
               \/ CanAdopt(p, u, got) /\ units' = Moved(units, u, "completed")
        BY <2>2 DEF Adopt
      <4>4. CanAdopt(p, u, got) => lifecycle = "paused" /\ units[u].state = "active"
        BY DEF CanAdopt
      <4> HIDE DEF p, u, got
      <4> QED BY <4>2, <4>3, <4>4 DEF Adopted, board
    <3> QED BY <3>1, <2>2 DEF Calm, Plain, Adopt
  <2>3. CASE \E o \in Readers : Fetch(o)
    BY <2>3 DEF Fetch, Calm, Plain
  <2>4. CASE \E p \in PRs : Poll(p)
    BY <2>4 DEF Poll, Calm, Plain
  <2>5. CASE \E p \in PRs, d \in Developers, o \in Readers : Subscribe(p, d, o)
    BY <2>5 DEF Subscribe, Calm, Plain
  <2>6. CASE \E p \in PRs, d \in Developers, u \in UnitId : Register(p, d, u)
    BY <2>6 DEF Register, Calm, Plain
  <2>7. CASE \E p \in PRs, u \in UnitId : AdoptRead(p, u)
    BY <2>7 DEF AdoptRead, Calm, Plain
  <2> QED BY <1>4, <2>1, <2>2, <2>3, <2>4, <2>5, <2>6, <2>7 DEF Watching
<1>5. CASE Reviewing
  BY <1>5 DEF Reviewing, Named
<1>6. CASE Remote
  BY <1>6 DEF Remote, Push, Reopen, Checked, End, Github, Calm, Plain
<1>7. CASE UNCHANGED vars
  BY <1>7 DEF vars, lanes, Calm, Plain
<1> QED BY <1>1, <1>2, <1>3, <1>4, <1>5, <1>6, <1>7 DEF Next

LEMMA LanesNext ==
  ASSUME TypeOK, [Next]_vars
  PROVE  BoardNext
<1>0. LanesTypeOK
  BY DEF TypeOK
<1>1. CASE Calm
  BY <1>1 DEF Calm, BoardNext
<1>2. CASE Named
  <2>1. ASSUME NEW p \in PRs, RequestReview(p) PROVE BoardNext
    <3>1. prs[p].unit \in {NoUnit} \cup UnitId
      BY <1>0, LanesFacts, PRFields
    <3>2. prs[p].unit \in UnitId
          /\ Reviewed(prs[p].unit, {"active", "fixing", "in_review"}, "in_review")
      BY <2>1, <3>1 DEF RequestReview, Reviewed
    <3> QED BY <3>2 DEF BoardNext
  <2>2. ASSUME NEW p \in PRs, NEW verdict \in {"approved", "changes_requested"},
               RecordReview(p, verdict)
        PROVE BoardNext
    <3>1. prs[p].unit \in {NoUnit} \cup UnitId
      BY <1>0, LanesFacts, PRFields
    <3>2. prs[p].unit \in UnitId
          /\ (\/ Reviewed(prs[p].unit, {"in_review"}, "merge_ready")
              \/ Reviewed(prs[p].unit, {"in_review"}, "fixing"))
      BY <2>2, <3>1 DEF RecordReview, Reviewed
    <3> QED BY <3>2 DEF BoardNext
  <2>3. CASE \E u \in UnitId : DeliverRequest(u) \/ AcceptRequest(u) \/ DeclineRequest(u)
    BY <2>3 DEF DeliverRequest, AcceptRequest, DeclineRequest, Answer, BoardNext, Plain
  <2>4. CASE RerouteReviewer
    BY <2>4 DEF RerouteReviewer, BoardNext, Plain
  <2>5. ASSUME NEW u \in UnitId, NEW target \in Settled, ResolveUnit(u, target) PROVE BoardNext
    BY <2>5 DEF ResolveUnit, BoardNext
  <2> QED BY <1>2, <2>1, <2>2, <2>3, <2>4, <2>5 DEF Named
<1> QED BY <1>1, <1>2, LanesCases

(***************************************************************************)
(* Release.                                                                *)
(***************************************************************************)
LEMMA ReleaseFacts ==
  ASSUME NEW us \in [UnitId -> Unit], NEW u \in UnitId
  PROVE  /\ Release(us)[u].dev = us[u].dev /\ Release(us)[u].deps = us[u].deps
         /\ u \in Released(us) => us[u].state = "planned" /\ Release(us)[u].state = "ready"
         /\ u \notin Released(us) => Release(us)[u] = us[u]
<1>1. "ready" \in Dispositions
  BY DEF Dispositions, Occupied
<1>2. us[u] \in Unit
  OBVIOUS
<1>3. CASE u \in Released(us)
  <2>1. Release(us)[u] = [us[u] EXCEPT !.state = "ready"]
    BY <1>3 DEF Release
  <2>2. us[u].state = "planned"
    BY <1>3 DEF Released, Ready
  <2> QED BY <1>1, <1>2, <1>3, <2>1, <2>2, UnitState
<1>4. CASE u \notin Released(us)
  <2>1. Release(us)[u] = us[u]
    BY <1>4 DEF Release
  <2> QED BY <1>4, <2>1
<1> QED BY <1>3, <1>4

LEMMA MovedFacts ==
  ASSUME NEW us \in [UnitId -> Unit], NEW u \in UnitId, NEW state \in Dispositions, NEW v \in UnitId
  PROVE  /\ Moved(us, u, state)[v].dev = us[v].dev /\ Moved(us, u, state)[v].deps = us[v].deps
         /\ v = u => Moved(us, u, state)[v].state = state
         /\ v # u => Moved(us, u, state)[v] = us[v]
<1>1. us[u] \in Unit
  OBVIOUS
<1> QED BY <1>1, UnitState DEF Moved

(* The earlier of two units: never both. *)
LEMMA BeforeFacts ==
  ASSUME NEW us \in [UnitId -> Unit], NEW u \in UnitId, NEW v \in UnitId, Before(us, u, v)
  PROVE  ~Before(us, v, u)
<1>1. us[u].wave \in Nat /\ us[v].wave \in Nat
  BY DEF Unit
<1>2. u \in Nat /\ v \in Nat
  BY BoardConstants DEF UnitId
<1> QED BY <1>1, <1>2 DEF Before

(* What is released: work whose dependencies are completed, one unit for a
   Developer, and none for a Developer who has one. *)
LEMMA ReleasedFacts ==
  ASSUME NEW us \in [UnitId -> Unit], NEW u \in Released(us)
  PROVE  /\ u \in UnitId
         /\ \A v \in us[u].deps : us[v].state = "completed"
         /\ \A v \in UnitId \ {u} : us[v].dev = us[u].dev =>
              us[v].state \notin Occupied /\ v \notin Released(us)
<1>1. u \in UnitId /\ Ready(us, u) /\ Free(us, us[u].dev)
  BY DEF Released
<1>2. ASSUME NEW v \in UnitId \ {u}, us[v].dev = us[u].dev, v \in Released(us) PROVE FALSE
  <2>1. Ready(us, v) /\ Before(us, v, u) /\ Before(us, u, v)
    BY <1>1, <1>2 DEF Released
  <2> QED BY <2>1, <1>1, BeforeFacts
<1> QED BY <1>1, <1>2 DEF Ready, Free

(***************************************************************************)
(* The refinement of WorkSchedule.                                         *)
(***************************************************************************)
LEMMA StageFacts ==
  ASSUME NEW state \in Dispositions
  PROVE  /\ StageOf(state) \in Schedule!Stages
         /\ state = "absent" => StageOf(state) = "none"
         /\ state = "planned" <=> StageOf(state) = "waiting"
         /\ state \in Occupied <=> StageOf(state) = "out"
         /\ state = "completed" <=> StageOf(state) = "done"
         /\ state = "cancelled" => StageOf(state) = "dropped"
BY DEF StageOf, Dispositions, Occupied, Settled, Schedule!Stages

(* The parts of the schedule, in the terms of the board. *)
StageFn(us) == [u \in UnitId |-> StageOf(us[u].state)]
WhoFn(us) == [u \in UnitId |-> us[u].dev]
NeedsFn(us) == [u \in UnitId |-> us[u].deps]

LEMMA StageFnFacts ==
  ASSUME NEW us \in [UnitId -> Unit], NEW u \in UnitId
  PROVE  /\ us[u].state \in Dispositions /\ us[u].dev \in Developers \cup {Nobody}
         /\ us[u].deps \in SUBSET UnitId
         /\ StageFn(us)[u] = StageOf(us[u].state)
         /\ WhoFn(us)[u] = us[u].dev /\ NeedsFn(us)[u] = us[u].deps
         /\ StageFn(us)[u] \in Schedule!Stages
<1>1. us[u] \in Unit
  OBVIOUS
<1>2. us[u].state \in Dispositions /\ us[u].dev \in Developers \cup {Nobody}
      /\ us[u].deps \in SUBSET UnitId
  BY <1>1 DEF Unit
<1> QED BY <1>2, StageFacts DEF StageFn, WhoFn, NeedsFn

(* A step that finishes units that are out and then releases is a turn. *)
LEMMA TurnStep ==
  ASSUME BoardTypeOK, NEW us \in [UnitId -> Unit],
         \A u \in UnitId : us[u].dev = units[u].dev /\ us[u].deps = units[u].deps,
         \A u \in UnitId : \/ StageOf(us[u].state) = StageOf(units[u].state)
                           \/ units[u].state \in Occupied /\ us[u].state = "completed",
         units' = us \/ (units' = Release(us) /\ lifecycle' = "armed")
  PROVE  Schedule!Turn
<1>0. units \in [UnitId -> Unit] /\ units' \in [UnitId -> Unit]
  BY BoardFacts, ReleaseType
<1>1. \A u \in UnitId : units'[u].dev = units[u].dev /\ units'[u].deps = units[u].deps
  BY ReleaseFacts
<1>2. WhoFn(units)' = WhoFn(units) /\ NeedsFn(units)' = NeedsFn(units)
  BY <1>1 DEF WhoFn, NeedsFn
<1>3. StageFn(units)' \in [UnitId -> Schedule!Stages]
  BY <1>0, StageFnFacts DEF StageFn
<1>4. ASSUME NEW u \in UnitId
      PROVE  \/ StageFn(units)'[u] = StageFn(units)[u]
             \/ StageFn(units)[u] = "out" /\ StageFn(units)'[u] = "done"
             \/ /\ StageFn(units)[u] = "waiting" /\ StageFn(units)'[u] = "out"
                /\ lifecycle' = "armed"
                /\ \A v \in NeedsFn(units)[u] : StageFn(units)'[v] = "done"
                /\ \A v \in UnitId \ {u} : WhoFn(units)[v] = WhoFn(units)[u] =>
                     StageFn(units)'[v] # "out"
  <2>0. /\ StageFn(units)[u] = StageOf(units[u].state) /\ StageFn(units)'[u] = StageOf(units'[u].state)
        /\ units[u].state \in Dispositions /\ units'[u].state \in Dispositions
        /\ us[u].state \in Dispositions
    BY <1>0, StageFnFacts DEF StageFn
  <2>1. CASE units'[u] = us[u]
    BY <2>0, <2>1, StageFacts
  <2>2. CASE units'[u] # us[u]
    <3>1. units' = Release(us) /\ lifecycle' = "armed" /\ u \in Released(us)
      BY <2>2, ReleaseFacts
    <3>2. us[u].state = "planned" /\ units'[u].state = "ready"
      BY <3>1, ReleaseFacts
    <3>3. StageFn(units)[u] = "waiting" /\ StageFn(units)'[u] = "out"
      BY <2>0, <3>2, StageFacts DEF Occupied
    <3>4. ASSUME NEW v \in NeedsFn(units)[u] PROVE StageFn(units)'[v] = "done"
      <4>1. v \in UnitId /\ v \in us[u].deps
        BY <1>0, StageFnFacts, <3>4
      <4>2. us[v].state = "completed"
        BY <3>1, <4>1, ReleasedFacts
      <4>3. units'[v] = us[v]
        BY <3>1, <4>1, <4>2, ReleaseFacts
      <4> QED BY <4>1, <4>2, <4>3, StageFacts DEF StageFn, Dispositions, Settled
    <3>5. ASSUME NEW v \in UnitId \ {u}, WhoFn(units)[v] = WhoFn(units)[u]
          PROVE StageFn(units)'[v] # "out"
      <4>1. us[v].dev = us[u].dev
        BY <1>0, StageFnFacts, <3>5
      <4>2. us[v].state \notin Occupied /\ v \notin Released(us)
        BY <3>1, <4>1, ReleasedFacts
      <4>3. units'[v] = us[v] /\ us[v].state \in Dispositions
        BY <3>1, <4>2, ReleaseFacts, StageFnFacts
      <4> QED BY <4>2, <4>3, StageFacts DEF StageFn
    <3> QED BY <3>1, <3>3, <3>4, <3>5
  <2> QED BY <2>1, <2>2
<1> QED BY <1>2, <1>3, <1>4
     DEF Schedule!Turn, Schedule!Finishes, Schedule!GoesOut, Schedule!Is, StageFn, WhoFn, NeedsFn

(* A step that moves one unit changes one place of the schedule. *)
LEMMA MovedStages ==
  ASSUME NEW us \in [UnitId -> Unit], NEW u \in UnitId, NEW state \in Dispositions
  PROVE  /\ StageFn(Moved(us, u, state)) = [StageFn(us) EXCEPT ![u] = StageOf(state)]
         /\ WhoFn(Moved(us, u, state)) = WhoFn(us)
         /\ NeedsFn(Moved(us, u, state)) = NeedsFn(us)
<1>1. \A v \in UnitId : StageOf(Moved(us, u, state)[v].state)
                          = IF v = u THEN StageOf(state) ELSE StageOf(us[v].state)
  BY MovedFacts
<1>2. \A v \in UnitId : /\ Moved(us, u, state)[v].dev = us[v].dev
                        /\ Moved(us, u, state)[v].deps = us[v].deps
  BY MovedFacts
<1> QED BY <1>1, <1>2 DEF StageFn, WhoFn, NeedsFn

(* Units that stay where they are, or advance: a turn that releases nothing. *)
LEMMA StillTurn ==
  ASSUME BoardTypeOK, UNCHANGED units
  PROVE  Schedule!Turn
BY BoardFacts, TurnStep

LEMMA SettleTurn ==
  ASSUME BoardTypeOK, NEW us \in [UnitId -> Unit], NEW as, NEW release, Settle(us, as, release),
         \A u \in UnitId : us[u].dev = units[u].dev /\ us[u].deps = units[u].deps,
         \A u \in UnitId : \/ StageOf(us[u].state) = StageOf(units[u].state)
                           \/ units[u].state \in Occupied /\ us[u].state = "completed"
  PROVE  Schedule!Turn
<1>1. units' = us \/ (units' = Release(us) /\ lifecycle' = "armed")
  BY DEF Settle
<1> QED BY <1>1, TurnStep

LEMMA ProjectedFacts ==
  ASSUME BoardTypeOK, NEW us \in [UnitId -> Unit], Projected(us), NEW u \in UnitId
  PROVE  /\ us[u].dev = units[u].dev /\ us[u].deps = units[u].deps
         /\ \/ us[u] = units[u]
            \/ units[u].state = "merge_ready" /\ us[u].state = "completed"
<1>1. units[u] \in Unit
  BY BoardFacts
<1>2. "completed" \in Dispositions
  BY DEF Dispositions, Settled
<1>3. CASE us[u] = units[u]
  BY <1>3
<1>4. CASE units[u].state = "merge_ready" /\ us[u] = [units[u] EXCEPT !.state = "completed"]
  BY <1>1, <1>2, <1>4, UnitState
<1> QED BY <1>3, <1>4 DEF Projected

LEMMA ProjectedTurn ==
  ASSUME BoardTypeOK, NEW us \in [UnitId -> Unit], Projected(us), NEW r \in Reviewers,
         Resume(r, us) \/ ResumeRefused(r, us)
  PROVE  Schedule!Turn
<1>1. \A u \in UnitId :
        /\ us[u].dev = units[u].dev /\ us[u].deps = units[u].deps
        /\ \/ StageOf(us[u].state) = StageOf(units[u].state)
           \/ units[u].state \in Occupied /\ us[u].state = "completed"
  BY ProjectedFacts DEF Occupied
<1>2. units' = us \/ (units' = Release(us) /\ lifecycle' = "armed")
  BY DEF Resume, ResumeRefused
<1> QED BY <1>1, <1>2, TurnStep

LEMMA MovedTurn ==
  ASSUME BoardTypeOK, NEW u \in UnitId, NEW state \in Dispositions, units' = Moved(units, u, state),
         StageOf(state) = StageOf(units[u].state)
         \/ (units[u].state \in Occupied /\ state = "completed")
  PROVE  Schedule!Turn
<1>1. Moved(units, u, state) \in [UnitId -> Unit]
  BY BoardFacts, MovedType
<1>2. \A v \in UnitId : /\ Moved(units, u, state)[v].dev = units[v].dev
                        /\ Moved(units, u, state)[v].deps = units[v].deps
                        /\ v = u => Moved(units, u, state)[v].state = state
                        /\ v # u => Moved(units, u, state)[v].state = units[v].state
  BY BoardFacts, MovedFacts
<1> QED BY <1>1, <1>2, TurnStep

(* The plan of a unit that is new, or in the plan. *)
LEMMA PlanStep ==
  ASSUME BoardTypeOK, NEW u \in UnitId, NEW plan \in Plans, Create(u, plan) \/ Replan(u, plan)
  PROVE  Schedule!Plan(u)
<1>1. units[u].state \in {"absent", "planned"}
  BY DEF Create, Replan, Created, UnitId
<1>2. units' = [units EXCEPT ![u] = Planned(plan, "planned")] /\ lifecycle' = lifecycle
  BY DEF Create, Replan
<1>3. plan.dev \in Developers \cup {Nobody} /\ plan.deps \in SUBSET UnitId
  BY BoardConstants DEF Plan
<1>4. units \in [UnitId -> Unit]
  BY BoardFacts
<1>5. /\ StageFn(units)' = [StageFn(units) EXCEPT ![u] = "waiting"]
      /\ WhoFn(units)' = [WhoFn(units) EXCEPT ![u] = plan.dev]
      /\ NeedsFn(units)' = [NeedsFn(units) EXCEPT ![u] = plan.deps]
  <2>1. StageOf("planned") = "waiting"
    BY StageFacts DEF Dispositions
  <2>2. \A v \in UnitId : units'[v] = IF v = u THEN Planned(plan, "planned") ELSE units[v]
    BY <1>2, <1>4
  <2>3. /\ Planned(plan, "planned").state = "planned" /\ Planned(plan, "planned").dev = plan.dev
        /\ Planned(plan, "planned").deps = plan.deps
    BY DEF Planned
  <2> QED BY <2>1, <2>2, <2>3 DEF StageFn, WhoFn, NeedsFn
<1>6. StageFn(units)[u] \in {"none", "waiting"}
  BY <1>1, <1>4, StageFnFacts, StageFacts
<1> QED BY <1>2, <1>3, <1>5, <1>6 DEF Schedule!Plan, StageFn, WhoFn, NeedsFn

LEMMA ReturnStep ==
  ASSUME BoardTypeOK, NEW u \in UnitId, units[u].state \in Occupied,
         units' = Moved(units, u, "planned"), lifecycle' = lifecycle
  PROVE  Schedule!Return(u)
<1>1. "planned" \in Dispositions /\ units \in [UnitId -> Unit]
  BY BoardFacts DEF Dispositions
<1>2. StageFn(units)[u] = "out" /\ StageOf("planned") = "waiting"
  BY <1>1, StageFnFacts, StageFacts
<1>3. /\ StageFn(units)' = [StageFn(units) EXCEPT ![u] = "waiting"]
      /\ WhoFn(units)' = WhoFn(units) /\ NeedsFn(units)' = NeedsFn(units)
  <2>1. /\ StageFn(Moved(units, u, "planned"))
             = [StageFn(units) EXCEPT ![u] = StageOf("planned")]
        /\ WhoFn(Moved(units, u, "planned")) = WhoFn(units)
        /\ NeedsFn(Moved(units, u, "planned")) = NeedsFn(units)
    BY <1>1, MovedStages
  <2>2. units' = Moved(units, u, "planned")
    OBVIOUS
  <2> QED BY ONLY <1>2, <2>1, <2>2 DEF StageFn, WhoFn, NeedsFn
<1> QED BY <1>2, <1>3 DEF Schedule!Return, Schedule!Is, StageFn, WhoFn, NeedsFn

(* Ends by the Planner: a unit that is still in the plan, or any that is not
   settled while the Sprint is paused. *)
LEMMA EndStep ==
  ASSUME BoardTypeOK, NEW u \in UnitId, NEW state \in Settled, units' = Moved(units, u, state),
         \/ units[u].state = "planned" /\ state = "cancelled"
            /\ (lifecycle' = "armed" => lifecycle = "armed")
         \/ units[u].state \in {"planned"} \cup Occupied /\ lifecycle = "paused"
            /\ lifecycle' = "paused"
  PROVE  Schedule!Drop(u) \/ Schedule!Declare(u)
<1>1. state \in Dispositions /\ units \in [UnitId -> Unit]
  BY BoardFacts DEF Dispositions
<1>2. /\ StageFn(units)[u] \in {"waiting", "out"}
      /\ units[u].state = "planned" => StageFn(units)[u] = "waiting"
      /\ state = "cancelled" => StageOf(state) = "dropped"
      /\ state = "completed" => StageOf(state) = "done"
  BY <1>1, StageFnFacts, StageFacts
<1>3. /\ StageFn(units)' = [StageFn(units) EXCEPT ![u] = StageOf(state)]
      /\ WhoFn(units)' = WhoFn(units) /\ NeedsFn(units)' = NeedsFn(units)
  <2>1. /\ StageFn(Moved(units, u, state)) = [StageFn(units) EXCEPT ![u] = StageOf(state)]
        /\ WhoFn(Moved(units, u, state)) = WhoFn(units)
        /\ NeedsFn(Moved(units, u, state)) = NeedsFn(units)
    BY <1>1, MovedStages
  <2>2. units' = Moved(units, u, state)
    OBVIOUS
  <2> QED BY ONLY <2>1, <2>2 DEF StageFn, WhoFn, NeedsFn
<1>4. CASE state = "cancelled"
  BY <1>2, <1>3, <1>4 DEF Schedule!Drop, Schedule!Is, StageFn, WhoFn, NeedsFn
<1>5. CASE state = "completed"
  BY <1>2, <1>3, <1>5 DEF Schedule!Declare, StageFn, WhoFn, NeedsFn
<1> QED BY <1>4, <1>5 DEF Settled

LEMMA BoardSimulates ==
  ASSUME BoardTypeOK, BoardNext
  PROVE  Schedule!Next
<1>0. /\ {"ready", "active", "in_review", "fixing", "merge_ready"} = Occupied
      /\ {"absent", "planned", "completed", "cancelled"} \cup Occupied = Dispositions
      /\ \A state \in Occupied : StageOf(state) = "out"
  BY StageFacts DEF Occupied, Dispositions, Settled
<1>1. CASE UNCHANGED units
  BY <1>1, StillTurn DEF Schedule!Next
<1>2. ASSUME NEW u \in UnitId, NEW plan \in Plans, Create(u, plan) \/ Replan(u, plan)
      PROVE  Schedule!Next
  BY <1>2, PlanStep DEF Schedule!Next
<1>3. ASSUME NEW u \in UnitId, Recall(u, Bound(u)) PROVE Schedule!Next
  BY <1>3, ReturnStep DEF Recall, Schedule!Next
<1>4. ASSUME NEW u \in UnitId, Cancel(u) PROVE Schedule!Next
  <2>1. /\ units[u].state = "planned" /\ units' = Moved(units, u, "cancelled")
        /\ lifecycle' = "armed" => lifecycle = "armed"
    BY <1>4 DEF Cancel, Settle
  <2>2. "cancelled" \in Settled
    BY DEF Settled
  <2> QED BY <2>1, <2>2, EndStep DEF Schedule!Next
<1>5. ASSUME NEW u \in UnitId, Accept(u) PROVE Schedule!Next
  <2>1. UNCHANGED units \/ (units[u].state = "ready" /\ units' = Moved(units, u, "active"))
    BY <1>5 DEF Accept
  <2>2. StageOf("active") = StageOf("ready")
    BY <1>0
  <2> QED BY <1>0, <2>1, <2>2, StillTurn, MovedTurn DEF Schedule!Next
<1>6. ASSUME NEW u \in UnitId, Decline(u) PROVE Schedule!Next
  <2>1. UNCHANGED units \/ (units[u].state = "ready" /\ units' = Moved(units, u, "planned")
                            /\ lifecycle' = lifecycle)
    BY <1>6 DEF Decline
  <2> QED BY <1>0, <2>1, StillTurn, ReturnStep DEF Schedule!Next
<1>7. ASSUME NEW u \in UnitId, Complete(u) PROVE Schedule!Next
  <2>1. units[u].state = "active" /\ Settle(Moved(units, u, "completed"), asg, TRUE)
    BY <1>7 DEF Complete
  <2>2. Moved(units, u, "completed") \in [UnitId -> Unit]
    BY <1>0, BoardFacts, MovedType
  <2>3. \A v \in UnitId : /\ Moved(units, u, "completed")[v].dev = units[v].dev
                          /\ Moved(units, u, "completed")[v].deps = units[v].deps
                          /\ v = u => Moved(units, u, "completed")[v].state = "completed"
                          /\ v # u => Moved(units, u, "completed")[v].state = units[v].state
    BY <1>0, BoardFacts, MovedFacts
  <2>4. Schedule!Turn
    BY <1>0, <2>1, <2>2, <2>3, SettleTurn
  <2> QED BY <2>4 DEF Schedule!Next
<1>8. CASE Steering
  <2>1. ASSUME NEW r \in Reviewers, Arm(r) PROVE Schedule!Turn
    <3>1. units' = Release(units) /\ lifecycle' = "armed"
      BY <2>1 DEF Arm
    <3> QED BY <3>1, BoardFacts, TurnStep
  <2>2. ASSUME UNCHANGED units PROVE Schedule!Turn
    BY <2>2, StillTurn
  <2> QED BY <1>8, <2>1, <2>2
          DEF Steering, Pause, Abort, Conclude, RerouteDeveloper, Retire, Schedule!Next
<1>9. CASE DispatchReady
  BY <1>9, BoardFacts, SettleTurn DEF DispatchReady, Schedule!Next
<1>10. ASSUME NEW us \in [UnitId -> Unit], Projected(us),
              Settle(us, asg, TRUE) \/ \E r \in Reviewers : Resume(r, us) \/ ResumeRefused(r, us)
       PROVE  Schedule!Next
  <2>1. CASE Settle(us, asg, TRUE)
    <3>1. \A u \in UnitId : /\ us[u].dev = units[u].dev /\ us[u].deps = units[u].deps
                            /\ \/ StageOf(us[u].state) = StageOf(units[u].state)
                               \/ units[u].state \in Occupied /\ us[u].state = "completed"
      BY <1>10, ProjectedFacts DEF Occupied
    <3>2. Schedule!Turn
      BY <2>1, <3>1, SettleTurn
    <3> QED BY <3>2 DEF Schedule!Next
  <2>2. ASSUME NEW r \in Reviewers, Resume(r, us) \/ ResumeRefused(r, us) PROVE Schedule!Next
    BY <1>10, <2>2, ProjectedTurn DEF Schedule!Next
  <2> QED BY <1>10, <2>1, <2>2
<1>11. ASSUME NEW u \in UnitId, NEW target \in Settled, Resolve(u, target) PROVE Schedule!Next
  BY <1>11, EndStep DEF Resolve, Schedule!Next
<1>12. ASSUME NEW u \in UnitId, Adopted(u) PROVE Schedule!Next
  BY <1>0, <1>12, MovedTurn DEF Adopted, Schedule!Next
<1>13. ASSUME NEW u \in UnitId, NEW to \in Occupied, NEW from \in SUBSET Occupied,
              Reviewed(u, from, to)
       PROVE  Schedule!Next
  BY <1>0, <1>13, MovedTurn DEF Reviewed, Schedule!Next
<1>14. ASSUME NEW u \in UnitId,
              \/ Reviewed(u, {"active", "fixing", "in_review"}, "in_review")
              \/ Reviewed(u, {"in_review"}, "merge_ready")
              \/ Reviewed(u, {"in_review"}, "fixing")
       PROVE  Schedule!Next
  <2>1. /\ {"active", "fixing", "in_review"} \in SUBSET Occupied /\ {"in_review"} \in SUBSET Occupied
        /\ "in_review" \in Occupied /\ "merge_ready" \in Occupied /\ "fixing" \in Occupied
    BY DEF Occupied
  <2> QED BY <1>13, <1>14, <2>1
<1>15. ASSUME NEW d \in Developers,
              UNCHANGED <<lifecycle, owner, gen, eligible, announced, units>>
       PROVE  Schedule!Next
  BY <1>1, <1>15
<1>16. CASE UNCHANGED board
  BY <1>1, <1>16 DEF board
<1> QED BY <1>2, <1>3, <1>4, <1>5, <1>6, <1>7, <1>8, <1>9, <1>10, <1>11, <1>12, <1>14, <1>15, <1>16
        DEF BoardNext, Plain

LEMMA BoardBegins == ASSUME Init PROVE Schedule!Init
<1>1. /\ units = [u \in UnitId |-> NoUnitYet] /\ lifecycle = "prepared"
  BY DEF Init, InitBoard
<1>2. StageOf("absent") = "none"
  BY StageFacts DEF Dispositions
<1>3. NoUnitYet.state = "absent" /\ NoUnitYet.dev = Nobody /\ NoUnitYet.deps = {}
  BY DEF NoUnitYet
<1> QED BY <1>1, <1>2, <1>3 DEF Schedule!Init

(* The board of a Sprint's lanes implements the schedule: whatever the Planner,
   the Developers, the Reviewers, the watcher and a resume do, units go out one
   to a Developer, after what they need, while the Sprint is armed. *)
THEOREM BoardImplementsSchedule == Spec => Scheduled
<1>1. Init => Schedule!Init
  BY BoardBegins
<1>2. TypeOK /\ [Next]_vars => [Schedule!Next]_Schedule!vars
  BY LanesNext, BoardSimulates DEF TypeOK
<1> QED BY <1>1, <1>2, SprintTypes, PTL DEF Spec, Scheduled, Schedule!Spec

(***************************************************************************)
(* What the schedule promises, read on the board.                          *)
(***************************************************************************)
Kept == INSTANCE ScheduleProofs WITH
  Items <- UnitId, People <- Developers \cup {Nobody},
  stage <- [u \in UnitId |-> StageOf(units[u].state)],
  who <- [u \in UnitId |-> units[u].dev],
  needs <- [u \in UnitId |-> units[u].deps],
  running <- lifecycle = "armed"

LEMMA PromiseRead ==
  ASSUME BoardTypeOK
  PROVE  Kept!OneEach /\ Kept!NeedsFirst <=> OneLanePerDeveloper /\ UpstreamsDone
<1>1. \A u \in UnitId : /\ units[u].state \in Dispositions /\ units[u].deps \subseteq UnitId
                        /\ units[u].state \in Occupied <=> StageOf(units[u].state) = "out"
                        /\ units[u].state = "completed" <=> StageOf(units[u].state) = "done"
  BY BoardFacts, StageFnFacts, StageFacts
<1>2. Kept!OneEach <=> OneLanePerDeveloper
  BY <1>1 DEF Kept!OneEach, Kept!Is, OneLanePerDeveloper
<1>3. Kept!NeedsFirst <=> UpstreamsDone
  BY <1>1 DEF Kept!NeedsFirst, Kept!Is, UpstreamsDone
<1> QED BY <1>2, <1>3

(* A Developer has one lane at a time, and a unit is out only while everything
   it depends on is completed, in every behaviour of the lanes. *)
THEOREM LanesAreExclusive == Spec => [](OneLanePerDeveloper /\ UpstreamsDone)
<1>1. Spec => Kept!Spec
  <2>1. Schedule!Init => Kept!Init
    BY DEF Schedule!Init, Kept!Init
  <2>2. [Schedule!Next]_Schedule!vars => [Kept!Next]_Kept!vars
    BY DEF Schedule!Next, Schedule!vars, Schedule!Stages,
           Schedule!Turn, Schedule!Plan, Schedule!Return, Schedule!Drop, Schedule!Declare,
           Schedule!Is, Schedule!Finishes, Schedule!GoesOut,
           Kept!Next, Kept!vars, Kept!Stages,
           Kept!Turn, Kept!Plan, Kept!Return, Kept!Drop, Kept!Declare,
           Kept!Is, Kept!Finishes, Kept!GoesOut
  <2> QED BY <2>1, <2>2, BoardImplementsSchedule, PTL DEF Scheduled, Schedule!Spec, Kept!Spec
<1>2. Spec => [](Kept!TypeOK /\ Kept!Promise)
  BY <1>1, Kept!PromiseKept, PTL
<1>3. TypeOK /\ Kept!Promise => OneLanePerDeveloper /\ UpstreamsDone
  BY PromiseRead DEF TypeOK, Kept!Promise
<1> QED BY <1>2, <1>3, SprintTypes, PTL

(***************************************************************************)
(* What a step does to one unit and its assignment.                        *)
(***************************************************************************)
Pending == {"queued", "delivered"}

UnitStep(v) ==
  \/ /\ units'[v] = units[v]
     /\ \/ asg'[v] = asg[v] \/ units[v].state \in {"active", "fixing"}
        \/ asg[v] = "queued" /\ asg'[v] = "delivered"
        \/ units[v].state # "ready" /\ asg'[v] \notin Pending
  \/ /\ units[v].state \in {"absent", "planned"} /\ units'[v].state = "planned"
     /\ asg'[v] = asg[v] /\ lifecycle \notin {"completed"}
  \/ units[v].state = "planned" /\ units'[v].state = "planned" /\ asg'[v] = asg[v]
  \/ units[v].state = "planned" /\ units'[v].state = "ready" /\ asg'[v] = "queued"
  \/ units[v].state \in Occupied /\ units'[v].state = "planned" /\ asg'[v] \notin Pending
  \/ units[v].state \in {"planned"} \cup Occupied /\ units'[v].state \in Settled
  \/ units[v].state \in Occupied /\ units'[v].state \in Occupied \ {"ready"}

LEMMA OutcomeStep ==
  ASSUME NEW us \in [UnitId -> Unit], NEW as, NEW v \in UnitId,
         \/ units' = us /\ asg' = as
         \/ units' = Release(us) /\ asg' = Assign(us, as),
         as \in [UnitId -> Assignment]
  PROVE  \/ units'[v] = us[v] /\ asg'[v] = as[v]
         \/ us[v].state = "planned" /\ units'[v].state = "ready" /\ asg'[v] = "queued"
<1>1. CASE units' = us /\ asg' = as
  BY <1>1
<1>2. CASE units' = Release(us) /\ asg' = Assign(us, as)
  <2>1. asg'[v] = IF v \in Released(us) THEN "queued" ELSE as[v]
    BY <1>2 DEF Assign
  <2> QED BY <1>2, <2>1, ReleaseFacts
<1> QED BY <1>1, <1>2

LEMMA OneUnitStep ==
  ASSUME BoardTypeOK, BoardNext, NEW v \in UnitId
  PROVE  UnitStep(v)
<1>0. /\ Occupied = {"ready", "active", "in_review", "fixing", "merge_ready"}
      /\ Settled = {"completed", "cancelled"} /\ Pending = {"queued", "delivered"}
      /\ Dispositions = {"absent", "planned"} \cup Occupied \cup Settled
      /\ units \in [UnitId -> Unit] /\ asg \in [UnitId -> Assignment]
      /\ asg[v] \in Assignment
  BY BoardFacts DEF Occupied, Settled, Dispositions, Pending
<1>1. ASSUME NEW u \in UnitId, NEW plan \in Plans, Create(u, plan) \/ Replan(u, plan)
      PROVE  UnitStep(v)
  <2>1. /\ units' = [units EXCEPT ![u] = Planned(plan, "planned")] /\ asg' = asg
        /\ \/ units[u].state = "planned"
           \/ units[u].state = "absent" /\ lifecycle # "completed"
    BY <1>1 DEF Create, Replan, Created, UnitId
  <2>2. Planned(plan, "planned").state = "planned"
    BY DEF Planned
  <2> QED BY <1>0, <2>1, <2>2 DEF UnitStep
<1>2. ASSUME NEW u \in UnitId, NEW state \in Dispositions, units' = Moved(units, u, state)
      PROVE  (v = u => units'[v].state = state) /\ (v # u => units'[v] = units[v])
  BY <1>0, <1>2, MovedFacts
<1>3. ASSUME NEW u \in UnitId, Recall(u, Bound(u)) PROVE UnitStep(v)
  BY <1>0, <1>2, <1>3 DEF Recall, Retired, UnitStep
<1>4. ASSUME NEW u \in UnitId, NEW target \in Settled, Resolve(u, target) PROVE UnitStep(v)
  <2>1. target \in Dispositions
    BY <1>0
  <2>2. units' = Moved(units, u, target) /\ units[u].state \in {"planned"} \cup Occupied
        /\ asg' = [asg EXCEPT ![u] = Retired(@)]
    BY <1>4 DEF Resolve
  <2> QED BY <1>0, <1>2, <2>1, <2>2 DEF UnitStep
<1>5. ASSUME NEW u \in UnitId, Accept(u) \/ Decline(u) PROVE UnitStep(v)
  <2>1. \/ /\ UNCHANGED units /\ asg' = [asg EXCEPT ![u] = asg'[u]]
           /\ units[u].state # "ready" /\ asg'[u] \notin Pending
        \/ /\ units[u].state = "ready" /\ asg' = [asg EXCEPT ![u] = asg'[u]]
           /\ \/ units' = Moved(units, u, "active")
              \/ units' = Moved(units, u, "planned") /\ asg'[u] = "declined"
    BY <1>0, <1>5 DEF Accept, Decline
  <2> QED BY <1>0, <1>2, <2>1 DEF UnitStep
<1>6. ASSUME NEW u \in UnitId, Complete(u) \/ Cancel(u) PROVE UnitStep(v)
  <2>1. PICK state \in Settled :
          /\ units[u].state \in {"planned"} \cup Occupied
          /\ \E release : Settle(Moved(units, u, state), asg, release)
    BY <1>0, <1>6 DEF Complete, Cancel
  <2> DEFINE us == Moved(units, u, state)
  <2>2. us \in [UnitId -> Unit]
    BY <1>0, MovedType
  <2>3. (v = u => us[v].state = state) /\ (v # u => us[v] = units[v])
    BY <1>0, MovedFacts
  <2>4. \/ units' = us /\ asg' = asg
        \/ units' = Release(us) /\ asg' = Assign(us, asg)
    BY <2>1 DEF Settle
  <2> HIDE DEF us
  <2>5. \/ units'[v] = us[v] /\ asg'[v] = asg[v]
        \/ us[v].state = "planned" /\ units'[v].state = "ready" /\ asg'[v] = "queued"
    BY <1>0, <2>2, <2>4, OutcomeStep
  <2> QED BY <1>0, <2>1, <2>3, <2>5 DEF UnitStep
<1>7. ASSUME NEW us \in [UnitId -> Unit], Projected(us),
             \/ units' = us /\ asg' = asg
             \/ units' = Release(us) /\ asg' = Assign(us, asg)
      PROVE  UnitStep(v)
  <2>1. \/ units'[v] = us[v] /\ asg'[v] = asg[v]
        \/ us[v].state = "planned" /\ units'[v].state = "ready" /\ asg'[v] = "queued"
    BY <1>0, <1>7, OutcomeStep
  <2>2. \/ us[v] = units[v]
        \/ units[v].state = "merge_ready" /\ us[v].state = "completed"
    BY <1>7, ProjectedFacts
  <2> QED BY <1>0, <2>1, <2>2 DEF UnitStep
<1>8. Projected(units)
  BY <1>0 DEF Projected
<1>9. CASE Steering \/ DispatchReady
  <2>1. ASSUME NEW r \in Reviewers, Arm(r) PROVE UnitStep(v)
    BY <1>0, <1>7, <1>8, <2>1 DEF Arm
  <2>2. ASSUME DispatchReady PROVE UnitStep(v)
    BY <1>0, <1>7, <1>8, <2>2 DEF DispatchReady, Settle
  <2>3. ASSUME Pause \/ Abort \/ Conclude \/ \E r \in Reviewers : Retire(r) PROVE UnitStep(v)
    BY <2>3 DEF Pause, Abort, Conclude, Retire, UnitStep
  <2>4. ASSUME NEW d \in Developers, RerouteDeveloper(d) PROVE UnitStep(v)
    BY <1>0, <2>4 DEF RerouteDeveloper, UnitStep
  <2> QED BY <1>9, <2>1, <2>2, <2>3, <2>4 DEF Steering
<1>10. ASSUME NEW us \in [UnitId -> Unit], Projected(us),
              Settle(us, asg, TRUE) \/ \E r \in Reviewers : Resume(r, us) \/ ResumeRefused(r, us)
       PROVE  UnitStep(v)
  <2>1. \/ units' = us /\ asg' = asg
        \/ units' = Release(us) /\ asg' = Assign(us, asg)
    BY <1>10 DEF Settle, Resume, ResumeRefused
  <2> QED BY <1>7, <1>10, <2>1
<1>11. ASSUME NEW u \in UnitId, Adopted(u) PROVE UnitStep(v)
  BY <1>0, <1>2, <1>11 DEF Adopted, UnitStep
<1>12. ASSUME NEW u \in UnitId, NEW from \in SUBSET Occupied, NEW to \in Occupied \ {"ready"},
              Reviewed(u, from, to)
       PROVE  UnitStep(v)
  <2>1. units[u].state \in Occupied /\ units' = Moved(units, u, to) /\ asg' = asg
    BY <1>12 DEF Reviewed
  <2> QED BY <1>0, <1>2, <2>1 DEF UnitStep
<1>13. ASSUME NEW u \in UnitId,
              \/ Reviewed(u, {"active", "fixing", "in_review"}, "in_review")
              \/ Reviewed(u, {"in_review"}, "merge_ready")
              \/ Reviewed(u, {"in_review"}, "fixing")
       PROVE  UnitStep(v)
  BY <1>0, <1>12, <1>13
<1>14. ASSUME NEW d \in Developers, asg' = Delivered(d), UNCHANGED units
       PROVE  UnitStep(v)
  BY <1>14 DEF Delivered, UnitStep
<1>15. CASE UNCHANGED board
  BY <1>15 DEF board, UnitStep
<1> QED BY <1>1, <1>3, <1>4, <1>5, <1>6, <1>9, <1>10, <1>11, <1>13, <1>14, <1>15 DEF BoardNext, Plain

LEMMA EveryUnitSteps == ASSUME TypeOK, [Next]_vars, NEW v \in UnitId PROVE UnitStep(v)
BY LanesNext, OneUnitStep DEF TypeOK

(* What is completed or cancelled stays so through every later step. *)
THEOREM SettledForGood == Spec => SettledUnitsStay
<1>1. TypeOK /\ [Next]_vars =>
        [\A u \in UnitId : units[u].state \in Settled => units'[u] = units[u]]_vars
  BY EveryUnitSteps DEF UnitStep, Settled, Occupied
<1> QED BY <1>1, SprintTypes, PTL DEF Spec, SettledUnitsStay

(* No lane is stranded by an assignment that is missing or left over: the
   invariant also speaks of the units that are not created yet. *)
Offers ==
  \A u \in UnitId :
    /\ units[u].state = "ready" => asg[u] \in Pending
    /\ units[u].state \in {"absent", "planned"} => asg[u] \notin Pending

(* A ready unit has an assignment its Developer will get or has got, and a unit
   in the plan has none that could still be accepted. *)
THEOREM OffersMatchLanes == Spec => []OfferMatchesLane
<1>1. Init => Offers
  BY DEF Init, InitBoard, Offers, NoUnitYet, Pending
<1>2. ASSUME TypeOK, Offers, [Next]_vars PROVE Offers'
  <2> SUFFICES ASSUME NEW u \in UnitId
               PROVE  /\ units'[u].state = "ready" => asg'[u] \in Pending
                      /\ units'[u].state \in {"absent", "planned"} => asg'[u] \notin Pending
    BY DEF Offers
  <2>1. UnitStep(u)
    BY <1>2, EveryUnitSteps
  <2> QED BY <1>2, <2>1 DEF UnitStep, Offers, Pending, Occupied, Settled
<1>3. Offers => OfferMatchesLane
  BY DEF Offers, OfferMatchesLane, Pending
<1> QED BY <1>1, <1>2, <1>3, SprintTypes, PTL DEF Spec

(***************************************************************************)
(* The end of a Sprint.                                                    *)
(***************************************************************************)
LEMMA CompletedStep ==
  ASSUME BoardTypeOK, BoardNext, lifecycle' = "completed"
  PROVE  lifecycle = "completed" \/ (AllSettled(units) /\ UNCHANGED units)
<1>1. ASSUME NEW us, NEW as, NEW release, Settle(us, as, release) PROVE lifecycle = "completed"
  BY <1>1 DEF Settle
<1>2. CASE Steering
  BY <1>2 DEF Steering, Arm, Pause, Abort, Conclude, RerouteDeveloper, Retire
<1> QED BY <1>1, <1>2
        DEF BoardNext, Plain, board, Create, Replan, Recall, Cancel, Accept, Decline, Complete,
            DispatchReady, Resume, ResumeRefused, Resolve, Adopted, Reviewed

(* A completed Sprint left no unit behind, also not one planned meanwhile. *)
THEOREM CompletionIsFinal == Spec => []CompletedIsSettled
<1>1. Init => CompletedIsSettled
  BY DEF Init, InitBoard, CompletedIsSettled
<1>2. ASSUME TypeOK, CompletedIsSettled, [Next]_vars PROVE CompletedIsSettled'
  <2> SUFFICES ASSUME lifecycle' = "completed" PROVE AllSettled(units)'
    BY DEF CompletedIsSettled
  <2>1. AllSettled(units) /\ (UNCHANGED units \/ lifecycle = "completed")
    BY <1>2, LanesNext, CompletedStep DEF CompletedIsSettled, TypeOK
  <2>2. ASSUME lifecycle = "completed", NEW u \in UnitId PROVE units'[u] = units[u]
    <3>1. units[u].state = "absent" \/ units[u].state \in Settled
      BY <2>1 DEF AllSettled, Created
    <3>2. UnitStep(u)
      BY <1>2, EveryUnitSteps
    <3> QED BY <2>2, <3>1, <3>2 DEF UnitStep, Settled, Occupied
  <2>3. units \in [UnitId -> Unit] /\ units' \in [UnitId -> Unit]
    BY <1>2, NextType, BoardFacts DEF TypeOK, BoardTypeOK
  <2>4. units' = units
    BY <2>1, <2>2, <2>3
  <2> QED BY <2>1, <2>4 DEF AllSettled, Created
<1> QED BY <1>1, <1>2, SprintTypes, PTL DEF Spec

LEMMA ReleaseSettled ==
  ASSUME NEW us \in [UnitId -> Unit]
  PROVE  /\ Created(Release(us)) = Created(us)
         /\ AllSettled(Release(us)) <=> AllSettled(us)
<1>1. \A u \in UnitId : \/ Release(us)[u] = us[u]
                        \/ us[u].state = "planned" /\ Release(us)[u].state = "ready"
  BY ReleaseFacts
<1>2. Created(Release(us)) = Created(us)
  BY <1>1 DEF Created
<1>3. \A u \in UnitId : Release(us)[u].state \in Settled <=> us[u].state \in Settled
  BY <1>1 DEF Settled
<1> QED BY <1>2, <1>3 DEF AllSettled, Created

(* A unit that is not settled: no end is announced. *)
LEMMA NotSettled ==
  ASSUME NEW us, NEW u \in UnitId, us[u].state \notin {"absent"} \cup Settled
  PROVE  ~AllSettled(us)
BY DEF AllSettled, Created

LEMMA AnnouncedStep ==
  ASSUME BoardTypeOK, TerminalIsAnnounced, BoardNext
  PROVE  TerminalIsAnnounced'
<1>0. /\ Occupied = {"ready", "active", "in_review", "fixing", "merge_ready"}
      /\ Settled = {"completed", "cancelled"}
      /\ Dispositions = {"absent", "planned"} \cup Occupied \cup Settled
      /\ units \in [UnitId -> Unit]
  BY BoardFacts DEF Occupied, Settled, Dispositions
<1>1. ASSUME UNCHANGED <<units, owner, gen, announced>>, lifecycle' = "armed" => lifecycle = "armed"
      PROVE  TerminalIsAnnounced'
  BY <1>1 DEF TerminalIsAnnounced, Notice, AllSettled, Created
<1>2. ASSUME NEW u \in UnitId, units'[u].state \notin {"absent"} \cup Settled
      PROVE  TerminalIsAnnounced'
  BY <1>2, NotSettled DEF TerminalIsAnnounced, AllSettled, Created
<1>3. ASSUME lifecycle' # "armed" PROVE TerminalIsAnnounced'
  BY <1>3 DEF TerminalIsAnnounced
<1>4. ASSUME NEW us \in [UnitId -> Unit], NEW as, NEW release, Settle(us, as, release)
      PROVE  TerminalIsAnnounced'
  <2>1. CASE lifecycle' # "armed"
    BY <1>3, <2>1
  <2>2. CASE lifecycle' = "armed"
    <3>1. /\ announced' = announced \cup (IF lifecycle = "armed" /\ AllSettled(us)
                                            THEN {Notice(us)} ELSE {})
          /\ UNCHANGED <<lifecycle, owner, gen>>
      BY <1>4, <2>2 DEF Settle
    <3>2. units' = us \/ units' = Release(us)
      BY <1>4 DEF Settle
    <3>3. Created(units)' = Created(us) /\ (AllSettled(units)' <=> AllSettled(us))
      BY <3>2, ReleaseSettled DEF AllSettled, Created
    <3> QED BY <2>2, <3>1, <3>3 DEF TerminalIsAnnounced, Notice
  <2> QED BY <2>1, <2>2
<1>5. ASSUME NEW us \in [UnitId -> Unit], NEW r, lifecycle' = "armed", owner' = r,
             units' = Release(us),
             announced' = announced \cup
               (IF AllSettled(us) THEN {<<Cardinality(Created(us)), r, gen'>>} ELSE {})
      PROVE  TerminalIsAnnounced'
  <2>1. Created(units)' = Created(us) /\ (AllSettled(units)' <=> AllSettled(us))
    BY <1>5, ReleaseSettled DEF AllSettled, Created
  <2> QED BY <1>5, <2>1 DEF TerminalIsAnnounced, Notice
<1>6. ASSUME NEW u \in UnitId, NEW state \in {"planned"} \cup Occupied, units' = Moved(units, u, state)
      PROVE  TerminalIsAnnounced'
  <2>1. units'[u].state = state
    BY <1>0, <1>6, MovedFacts
  <2> QED BY <1>0, <1>2, <2>1
<1>7. ASSUME NEW u \in UnitId, NEW plan \in Plans, Create(u, plan) \/ Replan(u, plan)
      PROVE  TerminalIsAnnounced'
  <2>1. units'[u].state = "planned"
    BY <1>0, <1>7 DEF Create, Replan, Planned
  <2> QED BY <1>0, <1>2, <2>1
<1>8. ASSUME NEW u \in UnitId,
             Recall(u, Bound(u)) \/ Cancel(u) \/ Accept(u) \/ Decline(u) \/ Complete(u)
      PROVE  TerminalIsAnnounced'
  <2>1. CASE Recall(u, Bound(u))
    BY <2>1, <1>0, <1>6 DEF Recall
  <2>2. CASE Cancel(u) \/ Complete(u)
    <3>1. Moved(units, u, "cancelled") \in [UnitId -> Unit] /\ Moved(units, u, "completed") \in [UnitId -> Unit]
      BY <1>0, MovedType
    <3> QED BY <1>4, <2>2, <3>1 DEF Cancel, Complete
  <2>3. CASE Accept(u)
    BY <2>3, <1>0, <1>1, <1>6 DEF Accept
  <2>4. CASE Decline(u)
    BY <2>4, <1>0, <1>1, <1>6 DEF Decline
  <2> QED BY <1>8, <2>1, <2>2, <2>3, <2>4
<1>9. CASE Steering
  <2>1. ASSUME NEW r \in Reviewers, Arm(r) PROVE TerminalIsAnnounced'
    BY <1>0, <1>5, <2>1 DEF Arm
  <2>2. ASSUME Pause \/ Abort \/ Conclude \/ (\E d \in Developers : RerouteDeveloper(d))
               \/ \E r \in Reviewers : Retire(r)
        PROVE  TerminalIsAnnounced'
    BY <1>1, <2>2 DEF Pause, Abort, Conclude, RerouteDeveloper, Retire
  <2> QED BY <1>9, <2>1, <2>2 DEF Steering
<1>10. CASE DispatchReady
  BY <1>0, <1>4, <1>10 DEF DispatchReady
<1>11. ASSUME NEW us \in [UnitId -> Unit], Projected(us),
              Settle(us, asg, TRUE) \/ \E r \in Reviewers : Resume(r, us) \/ ResumeRefused(r, us)
       PROVE  TerminalIsAnnounced'
  <2>1. ASSUME NEW r \in Reviewers, Resume(r, us) PROVE TerminalIsAnnounced'
    BY <1>5, <2>1 DEF Resume
  <2>2. ASSUME NEW r \in Reviewers, ResumeRefused(r, us) PROVE TerminalIsAnnounced'
    BY <1>3, <2>2 DEF ResumeRefused
  <2> QED BY <1>4, <1>11, <2>1, <2>2
<1>12. ASSUME NEW u \in UnitId, (\E target \in Settled : Resolve(u, target)) \/ Adopted(u)
       PROVE  TerminalIsAnnounced'
  BY <1>3, <1>12 DEF Resolve, Adopted
<1>13. ASSUME NEW u \in UnitId,
              \/ Reviewed(u, {"active", "fixing", "in_review"}, "in_review")
              \/ Reviewed(u, {"in_review"}, "merge_ready")
              \/ Reviewed(u, {"in_review"}, "fixing")
       PROVE  TerminalIsAnnounced'
  BY <1>0, <1>6, <1>13 DEF Reviewed
<1>14. CASE UNCHANGED <<lifecycle, owner, gen, eligible, announced, units>>
  BY <1>1, <1>14
<1>15. CASE UNCHANGED board
  BY <1>1, <1>15 DEF board
<1> QED BY <1>7, <1>8, <1>9, <1>10, <1>11, <1>12, <1>13, <1>14, <1>15 DEF BoardNext, Plain

(* Whoever moved the last unit to an end, the conformance owner of an armed
   Sprint has been told. *)
THEOREM EndsAreAnnounced == Spec => []TerminalIsAnnounced
<1>1. Init => TerminalIsAnnounced
  BY DEF Init, InitBoard, TerminalIsAnnounced
<1>2. TypeOK /\ TerminalIsAnnounced /\ [Next]_vars => TerminalIsAnnounced'
  BY LanesNext, AnnouncedStep DEF TypeOK
<1> QED BY <1>1, <1>2, SprintTypes, PTL DEF Spec

(***************************************************************************)
(* The review loop.                                                        *)
(***************************************************************************)
Reviewable == {"in_review", "fixing", "merge_ready"}

Ours(p) == prs[p].home = "here"

(* A PR of this Sprint names a unit, which is settled once the link is
   superseded; a lane that went to review has a PR. *)
Linked ==
  /\ \A p \in PRs : Ours(p) =>
       prs[p].unit \in UnitId /\ (prs[p].live \/ units[prs[p].unit].state \in Settled)
  /\ \A u \in UnitId : units[u].state \in Reviewable => \E p \in PRs : Ours(p) /\ prs[p].unit = u

LoopInv == Linked /\ OneOpenRequest /\ ApprovalAnswersNewestRequest

LEMMA LinkedBound ==
  ASSUME Linked, LanesTypeOK, NEW u \in UnitId, units[u].state \in Reviewable
  PROVE  Bound(u)
<1>1. PICK p \in PRs : Ours(p) /\ prs[p].unit = u
  BY DEF Linked
<1>2. prs[p].live \in BOOLEAN
  BY LanesFacts, PRFields
<1>3. prs[p].live
  BY <1>1, <1>2 DEF Linked, Reviewable, Settled
<1> QED BY <1>1, <1>3 DEF Bound, Ours

(* What a step does to the registrations. *)
LinkStep(p) ==
  \/ prs'[p].home = prs[p].home /\ prs'[p].unit = prs[p].unit /\ prs'[p].live = prs[p].live
  \/ ~Ours(p) /\ prs'[p].unit \in UnitId /\ prs'[p].live
  \/ /\ prs'[p].home = prs[p].home /\ prs'[p].unit = prs[p].unit
     /\ units'[prs[p].unit].state \in Settled

LEMMA LinksStep ==
  ASSUME TypeOK, Linked, [Next]_vars, NEW p \in PRs
  PROVE  LinkStep(p)
<1>0. BoardTypeOK /\ LanesTypeOK /\ prs \in [PRs -> PR] /\ prs[p] \in PR
  BY LanesFacts DEF TypeOK
<1>1. CASE UNCHANGED prs
  BY <1>1 DEF LinkStep
<1>2. ASSUME NEW got, prs'[p] = Recorded(p, got) PROVE LinkStep(p)
  <2>1. CASE News(p, got)
    <3> DEFINE lane == IF prs[p].home = "none" THEN prs[p].lane ELSE got
               key == IF prs[p].home = "none" THEN prs[p].key ELSE prs[p].n + 1
               n == prs[p].n + 1
    <3>1. prs'[p] = [prs[p] EXCEPT !.n = n, !.seen = got, !.lane = lane, !.key = key]
      BY <1>2, <2>1 DEF Recorded
    <3> HIDE DEF lane, key, n
    <3> QED BY <1>0, <3>1 DEF LinkStep, PR
  <2>2. CASE ~News(p, got)
    BY <1>2, <2>2 DEF Recorded, LinkStep
  <2> QED BY <2>1, <2>2
<1>3. ASSUME NEW o \in Readers, Observe(o) PROVE LinkStep(p)
  <2>1. prs'[p] = prs[p] \/ prs'[p] = Recorded(p, reads[o].got)
    BY <1>0, <1>3 DEF Observe
  <2> QED BY <1>2, <2>1 DEF LinkStep
<1>4. ASSUME EndSurvey PROVE LinkStep(p)
  <2>1. prs'[p] = Recorded(p, survey.got[p])
    BY <1>4 DEF EndSurvey, Surveyed
  <2> QED BY <1>2, <2>1
<1>5. ASSUME NEW u \in UnitId, NEW target \in Settled, ResolveUnit(u, target) PROVE LinkStep(p)
  <2>1. units'[u].state = target
    <3>1. units' = Moved(units, u, target) /\ target \in Dispositions
      BY <1>5 DEF ResolveUnit, Resolve, Dispositions
    <3> QED BY <1>0, <3>1, BoardFacts, MovedFacts
  <2>2. prs'[p] = IF prs[p].home = "here" /\ prs[p].unit = u
                    THEN [prs[p] EXCEPT !.live = FALSE] ELSE prs[p]
    BY <1>5 DEF ResolveUnit
  <2> QED BY <1>0, <2>1, <2>2 DEF LinkStep, PR
<1>6. ASSUME NEW q \in PRs, NEW d \in Developers, NEW o \in Readers, Subscribe(q, d, o)
      PROVE  LinkStep(p)
  <2>1. prs'[p] = prs[p] \/ prs'[p] = [[prs[p] EXCEPT !.watched = TRUE] EXCEPT !.dev = d]
    BY <1>0, <1>6 DEF Subscribe
  <2> QED BY <1>0, <2>1 DEF LinkStep, PR
<1>7. ASSUME NEW q \in PRs, NEW d \in Developers, NEW u \in UnitId, Register(q, d, u)
      PROVE  LinkStep(p)
  <2> DEFINE row == [prs[q] EXCEPT !.home = "here", !.dev = d, !.unit = u, !.live = TRUE,
                                   !.watched = TRUE]
  <2>0. prs[q] \in PR
    BY <1>0
  <2>1. UNCHANGED prs \/ (prs[q].home = "none" /\ prs' = [prs EXCEPT ![q] = row])
    BY <1>0, <2>0, <1>7 DEF Register
  <2>2. row.unit = u
    BY <2>0 DEF PR
  <2>3. row.live = TRUE
    BY <2>0, ZenonT(30) DEF PR
  <2> HIDE DEF row
  <2> QED BY <1>0, <2>1, <2>2, <2>3 DEF LinkStep, Ours
<1>8. ASSUME Adopt PROVE LinkStep(p)
  <2> DEFINE q == reads["api"].pr
             u == reads["api"].unit
             got == reads["api"].got
  <2>1. reads["api"] \in Read \cup {AtRest} /\ u # NoUnit
    BY <1>0, <1>8, LanesFacts DEF Adopt, Readers
  <2>2. u \in UnitId /\ q \in PRs
    BY <2>1 DEF Read, AtRest
  <2>3. \/ UNCHANGED prs
        \/ CanAdopt(q, u, got) /\ prs' = [prs EXCEPT ![q] = Moving(q, u, got)]
    BY <1>8 DEF Adopt
  <2>4. CanAdopt(q, u, got) => prs[q].home = "aborted"
    BY DEF CanAdopt
  <2> HIDE DEF q, u, got
  <2>5. Moving(q, u, got).unit = u /\ Moving(q, u, got).live
    <3>1. prs[q] \in PR
      BY <1>0, <2>2
    <3> QED BY <3>1 DEF Moving, PR
  <2> QED BY <1>0, <2>2, <2>3, <2>4, <2>5 DEF LinkStep, Ours
<1>9. \/ UNCHANGED prs
      \/ \E o \in Readers : Observe(o)
      \/ EndSurvey \/ Adopt
      \/ \E u \in UnitId, target \in Settled : ResolveUnit(u, target)
      \/ \E q \in PRs, d \in Developers, o \in Readers : Subscribe(q, d, o)
      \/ \E q \in PRs, d \in Developers, u \in UnitId : Register(q, d, u)
  <2>1. CASE Resuming
    BY <2>1 DEF Resuming, SurveyPRs, ResumeSprint, ResumeFails
  <2>2. CASE Watching
    BY <2>2 DEF Watching, Fetch, Poll, AdoptRead
  <2>3. CASE Reviewing
    BY <2>3 DEF Reviewing, RequestReview, RecordReview, DeliverRequest, AcceptRequest,
         DeclineRequest, Answer, RerouteReviewer
  <2>4. CASE Remote
    BY <2>4 DEF Remote, Push, Reopen, Checked, End, Github
  <2> QED BY <2>1, <2>2, <2>3, <2>4 DEF Next, vars, lanes, WakeDeveloper
<1> QED BY <1>1, <1>3, <1>4, <1>5, <1>6, <1>7, <1>8, <1>9

(* What a step that leaves the review loop alone does to a lane. *)
PlainStep(v) ==
  \/ units'[v].state = units[v].state
  \/ /\ units[v].state \notin {"in_review", "merge_ready"}
     /\ units'[v].state \notin Reviewable
  \/ units[v].state = "merge_ready" /\ units'[v].state = "completed"
  \/ ~Bound(v) /\ units'[v].state = "planned"

LEMMA PlainSteps ==
  ASSUME BoardTypeOK, Plain, NEW v \in UnitId
  PROVE  PlainStep(v)
<1>0. /\ Occupied = {"ready", "active", "in_review", "fixing", "merge_ready"}
      /\ Settled = {"completed", "cancelled"}
      /\ Dispositions = {"absent", "planned"} \cup Occupied \cup Settled
      /\ Reviewable = {"in_review", "fixing", "merge_ready"}
      /\ units \in [UnitId -> Unit] /\ asg \in [UnitId -> Assignment]
  BY BoardFacts DEF Occupied, Settled, Dispositions, Reviewable
<1>1. ASSUME NEW us \in [UnitId -> Unit],
             us[v].state = units[v].state \/ (units[v].state \notin {"in_review", "merge_ready"}
                                              /\ us[v].state \in {"planned"} \cup Settled)
             \/ (units[v].state = "merge_ready" /\ us[v].state = "completed"),
             units' = us \/ units' = Release(us)
      PROVE  PlainStep(v)
  <2>1. \/ units'[v].state = us[v].state
        \/ us[v].state = "planned" /\ units'[v].state = "ready"
    BY <1>1, ReleaseFacts
  <2> QED BY <1>0, <1>1, <2>1 DEF PlainStep
<1>2. ASSUME NEW u \in UnitId, NEW state \in Dispositions, units' = Moved(units, u, state)
      PROVE  (v = u => units'[v].state = state) /\ (v # u => units'[v] = units[v])
  BY <1>0, <1>2, MovedFacts
<1>3. ASSUME UNCHANGED units PROVE PlainStep(v)
  BY <1>3 DEF PlainStep
<1>4. ASSUME NEW u \in UnitId, NEW plan \in Plans, Create(u, plan) \/ Replan(u, plan)
      PROVE  PlainStep(v)
  <2>1. /\ units' = [units EXCEPT ![u] = Planned(plan, "planned")]
        /\ units[u].state \in {"absent", "planned"}
    BY <1>4 DEF Create, Replan, Created, UnitId
  <2>2. Planned(plan, "planned").state = "planned"
    BY DEF Planned
  <2> QED BY <1>0, <2>1, <2>2 DEF PlainStep
<1>5. ASSUME NEW u \in UnitId, Recall(u, Bound(u)) PROVE PlainStep(v)
  BY <1>0, <1>2, <1>5 DEF Recall, PlainStep
<1>6. ASSUME NEW u \in UnitId, Accept(u) \/ Decline(u) PROVE PlainStep(v)
  <2>1. \/ UNCHANGED units
        \/ units[u].state = "ready" /\ (units' = Moved(units, u, "active")
                                        \/ units' = Moved(units, u, "planned"))
    BY <1>6 DEF Accept, Decline
  <2> QED BY <1>0, <1>2, <2>1 DEF PlainStep
<1>7. ASSUME NEW u \in UnitId, Complete(u) \/ Cancel(u) PROVE PlainStep(v)
  <2>1. PICK state \in Settled :
          /\ units[u].state \in {"planned", "active"}
          /\ \E release : Settle(Moved(units, u, state), asg, release)
    BY <1>0, <1>7 DEF Complete, Cancel
  <2> DEFINE us == Moved(units, u, state)
  <2>2. us \in [UnitId -> Unit]
    BY <1>0, MovedType
  <2>3. (v = u => us[v].state = state) /\ (v # u => us[v] = units[v])
    BY <1>0, MovedFacts
  <2>4. units' = us \/ units' = Release(us)
    BY <2>1 DEF Settle
  <2> HIDE DEF us
  <2> QED BY <1>0, <1>1, <2>1, <2>2, <2>3, <2>4
<1>8. CASE Steering \/ DispatchReady
  <2>1. UNCHANGED units \/ units' = Release(units)
    BY <1>8 DEF Steering, Arm, Pause, Abort, Conclude, Retire, RerouteDeveloper,
         DispatchReady, Settle
  <2> QED BY <1>0, <1>1, <1>3, <2>1
<1>9. ASSUME NEW us \in [UnitId -> Unit], Projected(us),
             Settle(us, asg, TRUE) \/ \E r \in Reviewers : Resume(r, us) \/ ResumeRefused(r, us)
      PROVE  PlainStep(v)
  <2>1. units' = us \/ units' = Release(us)
    BY <1>9 DEF Settle, Resume, ResumeRefused
  <2>2. us[v] = units[v] \/ (units[v].state = "merge_ready" /\ us[v].state = "completed")
    BY <1>9, ProjectedFacts
  <2> QED BY <1>1, <2>1, <2>2
<1>10. ASSUME NEW u \in UnitId, Adopted(u) PROVE PlainStep(v)
  BY <1>0, <1>2, <1>10 DEF Adopted, PlainStep
<1> QED BY <1>3, <1>4, <1>5, <1>6, <1>7, <1>8, <1>9, <1>10 DEF Plain, board

(* Lanes in review come from lanes with a PR. *)
LEMMA ReviewableStep ==
  ASSUME TypeOK, [Next]_vars, NEW v \in UnitId, units'[v].state \in Reviewable
  PROVE  \/ units[v].state \in Reviewable
         \/ \E p \in PRs : Ours(p) /\ prs[p].unit = v /\ UNCHANGED prs
<1>0. BoardTypeOK /\ LanesTypeOK /\ units \in [UnitId -> Unit]
  BY BoardFacts DEF TypeOK
<1>1. CASE Calm
  BY <1>0, <1>1, PlainSteps DEF Calm, PlainStep, Reviewable
<1>2. ASSUME NEW u \in UnitId, NEW target \in Settled, ResolveUnit(u, target)
      PROVE  units[v].state \in Reviewable
  <2>1. units' = Moved(units, u, target) /\ target \in Dispositions /\ target \notin Reviewable
    BY <1>2 DEF ResolveUnit, Resolve, Dispositions, Settled, Reviewable
  <2> QED BY <1>0, <2>1, MovedFacts
<1>3. ASSUME NEW p \in PRs, RequestReview(p)
      PROVE  units[v].state \in Reviewable \/ (Ours(p) /\ prs[p].unit = v /\ UNCHANGED prs)
  <2>1. /\ prs[p].unit \in UnitId /\ Ours(p) /\ UNCHANGED prs
        /\ units' = Moved(units, prs[p].unit, "in_review")
    BY <1>0, <1>3, LanesFacts, PRFields DEF RequestReview, Lane, Ours
  <2> QED BY <1>0, <2>1, MovedFacts DEF Dispositions, Occupied
<1>4. ASSUME NEW p \in PRs, NEW verdict, RecordReview(p, verdict)
      PROVE  units[v].state \in Reviewable \/ (Ours(p) /\ prs[p].unit = v /\ UNCHANGED prs)
  <2>1. /\ prs[p].unit \in UnitId /\ Ours(p) /\ UNCHANGED prs
        /\ \/ units' = Moved(units, prs[p].unit, "merge_ready")
           \/ units' = Moved(units, prs[p].unit, "fixing")
    BY <1>0, <1>4, LanesFacts, PRFields DEF RecordReview, Lane, Ours
  <2> QED BY <1>0, <2>1, MovedFacts DEF Dispositions, Occupied
<1>5. ASSUME NEW u \in UnitId, DeliverRequest(u) \/ AcceptRequest(u) \/ DeclineRequest(u)
      PROVE  UNCHANGED units
  BY <1>5 DEF DeliverRequest, AcceptRequest, DeclineRequest, Answer, board
<1>6. CASE RerouteReviewer
  BY <1>6 DEF RerouteReviewer, board
<1> QED BY <1>1, <1>2, <1>3, <1>4, <1>5, <1>6, LanesCases DEF Named

LEMMA LinkedStep ==
  ASSUME TypeOK, Linked, [Next]_vars
  PROVE  Linked'
<1>1. ASSUME NEW p \in PRs, Ours(p)'
      PROVE  /\ prs'[p].unit \in UnitId
             /\ prs'[p].live \/ units'[prs'[p].unit].state \in Settled
  <2>1. LinkStep(p)
    BY LinksStep
  <2>2. \A u \in UnitId : units[u].state \in Settled => units'[u] = units[u]
    BY EveryUnitSteps DEF UnitStep, Settled, Occupied
  <2> QED BY <1>1, <2>1, <2>2 DEF LinkStep, Linked, Ours
<1>2. ASSUME NEW u \in UnitId, units'[u].state \in Reviewable
      PROVE  \E p \in PRs : Ours(p)' /\ prs'[p].unit = u
  <2>1. \E p \in PRs : Ours(p) /\ prs[p].unit = u
    BY <1>2, ReviewableStep DEF Linked
  <2>2. PICK p \in PRs : Ours(p) /\ prs[p].unit = u
    BY <2>1
  <2>3. LinkStep(p)
    BY LinksStep
  <2> QED BY <2>2, <2>3 DEF LinkStep, Ours
<1> QED BY <1>1, <1>2 DEF Linked

LEMMA LoopStep ==
  ASSUME TypeOK, LoopInv, [Next]_vars
  PROVE  OneOpenRequest' /\ ApprovalAnswersNewestRequest'
<1>0. /\ BoardTypeOK /\ LanesTypeOK /\ units \in [UnitId -> Unit]
      /\ req \in [UnitId -> Request] /\ approved \in [UnitId -> 0..MaxRequest]
      /\ \A u \in UnitId : units[u].state = "in_review" => Bound(u)
  BY BoardFacts, LanesFacts, LinkedBound DEF TypeOK, LoopInv, Reviewable
<1> SUFFICES ASSUME NEW v \in UnitId
             PROVE  /\ req'[v].state \in {"queued", "delivered"} => units'[v].state = "in_review"
                    /\ units'[v].state = "merge_ready" =>
                         approved'[v] = req'[v].n /\ req'[v].state = "accepted"
  BY DEF OneOpenRequest, ApprovalAnswersNewestRequest
<1>1. /\ req[v].state \in {"queued", "delivered"} => units[v].state = "in_review"
      /\ units[v].state = "merge_ready" => approved[v] = req[v].n /\ req[v].state = "accepted"
  BY DEF LoopInv, OneOpenRequest, ApprovalAnswersNewestRequest
<1>2. CASE Calm
  <2>1. PlainStep(v) /\ UNCHANGED <<req, approved>>
    BY <1>0, <1>2, PlainSteps DEF Calm
  <2> QED BY <1>0, <1>1, <2>1 DEF PlainStep, Reviewable
<1>3. ASSUME NEW u \in UnitId, NEW state \in Dispositions, units' = Moved(units, u, state)
      PROVE  (v = u => units'[v].state = state) /\ (v # u => units'[v] = units[v])
  BY <1>0, <1>3, MovedFacts
<1>4. "in_review" \in Dispositions /\ "merge_ready" \in Dispositions /\ "fixing" \in Dispositions
      /\ Settled \subseteq Dispositions
  BY DEF Dispositions, Occupied
<1>5. CASE \E u \in UnitId, target \in Settled : ResolveUnit(u, target)
  <2>1. PICK u \in UnitId, target \in Settled : ResolveUnit(u, target)
    BY <1>5
  <2>2. /\ units' = Moved(units, u, target) /\ approved' = approved
        /\ req' = [req EXCEPT ![u] = [n |-> req[u].n, state |-> Retired(req[u].state)]]
    BY <2>1 DEF ResolveUnit, Resolve
  <2>3. v = u => req'[v].state \notin {"queued", "delivered"}
    BY <1>0, <2>2 DEF Retired
  <2>4. v # u => req'[v] = req[v]
    BY <1>0, <2>2
  <2> QED BY <1>1, <1>3, <1>4, <2>2, <2>3, <2>4 DEF Settled
<1>6. CASE \E p \in PRs : RequestReview(p)
  <2>1. PICK p \in PRs : RequestReview(p)
    BY <1>6
  <2>2. /\ prs[p].unit \in UnitId /\ units' = Moved(units, prs[p].unit, "in_review")
        /\ approved' = approved
        /\ req' = [req EXCEPT ![prs[p].unit] = [n |-> req[prs[p].unit].n + 1, state |-> "queued"]]
    BY <1>0, <2>1, LanesFacts, PRFields DEF RequestReview
  <2> QED BY <1>0, <1>1, <1>3, <1>4, <2>2
<1>7. CASE \E p \in PRs, verdict \in {"approved", "changes_requested"} : RecordReview(p, verdict)
  <2>1. PICK p \in PRs, verdict \in {"approved", "changes_requested"} : RecordReview(p, verdict)
    BY <1>7
  <2> DEFINE u == prs[p].unit
  <2>2. /\ u \in UnitId /\ req' = req /\ req[u].state = "accepted"
        /\ \/ units' = Moved(units, u, "fixing") /\ approved' = approved
           \/ units' = Moved(units, u, "merge_ready") /\ approved' = [approved EXCEPT ![u] = req[u].n]
    BY <1>0, <2>1, LanesFacts, PRFields DEF RecordReview
  <2> HIDE DEF u
  <2> QED BY <1>0, <1>1, <1>3, <1>4, <2>2
<1>8. CASE \E u \in UnitId : DeliverRequest(u) \/ AcceptRequest(u) \/ DeclineRequest(u)
  <2>1. PICK u \in UnitId : DeliverRequest(u) \/ AcceptRequest(u) \/ DeclineRequest(u)
    BY <1>8
  <2>2. /\ req[u].state \in {"queued", "delivered"} /\ units' = units /\ approved' = approved
        /\ \E to \in Assignment : req' = [req EXCEPT ![u] = [n |-> req[u].n, state |-> to]]
    BY <2>1 DEF DeliverRequest, AcceptRequest, DeclineRequest, Answer, board, Assignment
  <2>3. units[u].state = "in_review"
    BY <2>2 DEF LoopInv, OneOpenRequest
  <2> QED BY <1>0, <1>1, <2>2, <2>3
<1>9. CASE RerouteReviewer
  <2>1. /\ units' = units /\ approved' = approved
        /\ req'[v] = IF units[v].state = "in_review" THEN [n |-> req[v].n + 1, state |-> "queued"]
                     ELSE req[v]
    BY <1>9 DEF RerouteReviewer, board
  <2> QED BY <1>1, <2>1
<1> QED BY <1>2, <1>5, <1>6, <1>7, <1>8, <1>9, LanesCases DEF Named

LEMMA LoopBegins == ASSUME Init PROVE LoopInv
<1>1. ASSUME NEW p \in PRs PROVE ~Ours(p)
  BY DEF Init, Unregistered, Ours
<1>2. \A u \in UnitId : units[u].state = "absent" /\ req[u].state = "none"
  BY DEF Init, InitBoard, NoUnitYet
<1> QED BY <1>1, <1>2
        DEF LoopInv, Linked, OneOpenRequest, ApprovalAnswersNewestRequest, Reviewable

(* The review loop keeps the strengthening of its two invariants: besides them,
   a PR of this Sprint is linked to its unit until the unit is settled, and a
   lane that is in review, fixing or may merge has such a PR. *)
THEOREM LoopKept == Spec => []LoopInv
<1>1. TypeOK /\ LoopInv /\ [Next]_vars => LoopInv'
  BY LinkedStep, LoopStep DEF LoopInv
<1> QED BY <1>1, LoopBegins, SprintTypes, PTL DEF Spec

(* A lane that may merge was approved by the answer to the newest request, and a
   request that can still be answered belongs to a lane that is in review. *)
THEOREM ApprovalsAreCurrent == Spec => [](ApprovalAnswersNewestRequest /\ OneOpenRequest)
<1>1. LoopInv => ApprovalAnswersNewestRequest /\ OneOpenRequest
  BY DEF LoopInv
<1> QED BY <1>1, LoopKept, PTL

(***************************************************************************)
(* Merges.                                                                 *)
(***************************************************************************)
(* What a merge among P does in the step that records it: the unit completes, or
   the Planner is told. *)
LEMMA MergeAccounted ==
  ASSUME BoardTypeOK, NEW P \in SUBSET PRs, NEW ps, NEW p \in P, Projects(ps, p),
         ps[p].unit \in UnitId,
         units' = Merged(P, ps) \/ units' = Release(Merged(P, ps)),
         bypassed' = bypassed \cup Bypasses(P, ps)
  PROVE  units'[ps[p].unit].state = "completed" \/ <<p, ps[p].key, ps[p].unit>> \in bypassed'
<1> DEFINE u == ps[p].unit
           us == Merged(P, ps)
<1>1. units[u] \in Unit /\ us \in [UnitId -> Unit] /\ "completed" \in Dispositions
  BY BoardFacts, MergedType DEF Dispositions, Settled
<1>2. CASE units[u].state \in {"merge_ready", "completed"}
  <2>1. us[u].state = "completed"
    <3>1. us[u] = IF units[u].state = "merge_ready" THEN [units[u] EXCEPT !.state = "completed"]
                  ELSE units[u]
      BY DEF Merged
    <3> QED BY <1>1, <1>2, <3>1, UnitState
  <2> HIDE DEF us
  <2>2. u \notin Released(us)
    BY <2>1 DEF Released, Ready
  <2>3. units'[u] = us[u]
    BY <1>1, <2>2, ReleaseFacts DEF us
  <2> QED BY <2>1, <2>3
<1>3. CASE units[u].state \notin {"merge_ready", "completed"}
  BY <1>3 DEF Bypasses
<1> QED BY <1>2, <1>3

(* The steps that change what is recorded of a registration. *)
LEMMA LaneStep ==
  ASSUME TypeOK, [Next]_vars, NEW p \in PRs, prs'[p].lane # prs[p].lane
  PROVE  \/ \E o \in Readers : Observe(o) /\ reads[o].pr = p /\ News(p, reads[o].got)
         \/ p \in Fresh /\ \E r \in Reviewers : ResumeSprint(r) \/ ResumeFails(r)
         \/ Adopt
<1>0. BoardTypeOK /\ LanesTypeOK /\ prs \in [PRs -> PR] /\ prs[p] \in PR
  BY LanesFacts DEF TypeOK
<1>1. prs' # prs
  OBVIOUS
<1>2. ASSUME NEW o \in Readers, Observe(o)
      PROVE  reads[o].pr = p /\ News(p, reads[o].got)
  <2>1. prs' = [prs EXCEPT ![reads[o].pr] = Recorded(reads[o].pr, reads[o].got)]
    BY <1>2 DEF Observe
  <2>2. reads[o].pr = p
    BY <1>0, <2>1
  <2>3. prs'[p] = Recorded(p, reads[o].got)
    BY <1>0, <2>1, <2>2
  <2> QED BY <2>2, <2>3 DEF Recorded
<1>3. ASSUME EndSurvey PROVE p \in Fresh
  <2>1. prs'[p] = Recorded(p, survey.got[p])
    BY <1>3 DEF EndSurvey, Surveyed
  <2> QED BY <2>1 DEF Recorded, Fresh
<1>4. ASSUME NEW u \in UnitId, NEW target \in Settled, ResolveUnit(u, target) PROVE FALSE
  <2>1. prs'[p] = prs[p] \/ prs'[p] = [prs[p] EXCEPT !.live = FALSE]
    BY <1>4 DEF ResolveUnit
  <2> QED BY <1>0, <2>1 DEF PR
<1>5. ASSUME NEW q \in PRs, NEW d \in Developers, NEW o \in Readers, Subscribe(q, d, o)
      PROVE  FALSE
  <2>1. prs'[p] = prs[p] \/ prs'[p] = [[prs[p] EXCEPT !.watched = TRUE] EXCEPT !.dev = d]
    BY <1>0, <1>5 DEF Subscribe
  <2> QED BY <1>0, <2>1 DEF PR
<1>6. ASSUME NEW q \in PRs, NEW d \in Developers, NEW u \in UnitId, Register(q, d, u)
      PROVE  FALSE
  <2> DEFINE row == [prs[q] EXCEPT !.home = "here", !.dev = d, !.unit = u, !.live = TRUE,
                                   !.watched = TRUE]
  <2>1. prs[q] \in PR
    BY <1>0
  <2>2. UNCHANGED prs \/ prs' = [prs EXCEPT ![q] = row]
    BY <1>0, <2>1, <1>6 DEF Register
  <2>3. row.lane = prs[q].lane
    BY <2>1 DEF PR
  <2> HIDE DEF row
  <2> QED BY <1>0, <2>2, <2>3
<1>7. CASE Resuming
  BY <1>1, <1>3, <1>4, <1>7 DEF Resuming, SurveyPRs, ResumeSprint, ResumeFails
<1>8. CASE Watching
  BY <1>1, <1>2, <1>5, <1>6, <1>8 DEF Watching, Fetch, Poll, AdoptRead
<1>9. CASE Reviewing
  BY <1>1, <1>9 DEF Reviewing, RequestReview, RecordReview, DeliverRequest, AcceptRequest,
       DeclineRequest, Answer, RerouteReviewer
<1>10. CASE Remote
  BY <1>1, <1>10 DEF Remote, Push, Reopen, Checked, End, Github
<1> QED BY <1>1, <1>7, <1>8, <1>9, <1>10 DEF Next, vars, lanes, WakeDeveloper

Accounted(p) ==
  LET u == prs'[p].unit IN
  units'[u].state = "completed" \/ <<p, prs'[p].key, u>> \in bypassed'

LEMMA ObserveAccounts ==
  ASSUME TypeOK, Linked', NEW p \in PRs, NEW o \in Readers, Observe(o), reads[o].pr = p,
         News(p, reads[o].got), Projects(prs', p), lifecycle \in {"armed", "paused"}
  PROVE  Accounted(p)
<1>0. BoardTypeOK
  BY DEF TypeOK
<1> DEFINE after == [prs EXCEPT ![p] = Recorded(p, reads[o].got)]
<1>1. /\ prs' = after /\ bypassed' = bypassed \cup Bypasses({p}, after)
      /\ units' = Merged({p}, after) \/ units' = Release(Merged({p}, after))
  BY DEF Observe, Merges, Settle, board
<1>2. prs'[p].unit \in UnitId
  BY DEF Projects, Linked, Ours
<1> HIDE DEF after
<1>3. Projects(after, p) /\ after[p].unit \in UnitId
  BY <1>1, <1>2
<1>4. units'[after[p].unit].state = "completed" \/ <<p, after[p].key, after[p].unit>> \in bypassed'
  BY <1>0, <1>1, <1>3, MergeAccounted
<1> QED BY <1>1, <1>4 DEF Accounted

LEMMA ResumeAccounts ==
  ASSUME TypeOK, Linked', NEW p \in Fresh, NEW r \in Reviewers, ResumeSprint(r) \/ ResumeFails(r),
         Projects(prs', p)
  PROVE  Accounted(p)
<1>0. BoardTypeOK /\ p \in PRs /\ Fresh \subseteq PRs
  BY DEF TypeOK, Fresh
<1>1. PICK P \in SUBSET PRs :
        /\ p \in P /\ prs' = Surveyed /\ bypassed' = bypassed \cup Bypasses(P, Surveyed)
        /\ units' = Merged(P, Surveyed) \/ units' = Release(Merged(P, Surveyed))
  <2>1. CASE ResumeSprint(r)
    BY <1>0, <2>1 DEF ResumeSprint, Resume, EndSurvey
  <2>2. CASE ResumeFails(r)
    BY <1>0, <2>2 DEF ResumeFails, ResumeRefused, EndSurvey
  <2> QED BY <2>1, <2>2
<1>2. prs'[p].unit \in UnitId
  BY <1>0 DEF Projects, Linked, Ours
<1>3. Projects(Surveyed, p) /\ Surveyed[p].unit \in UnitId
  BY <1>1, <1>2
<1>4. units'[Surveyed[p].unit].state = "completed"
      \/ <<p, Surveyed[p].key, Surveyed[p].unit>> \in bypassed'
  BY <1>0, <1>1, <1>3, MergeAccounted
<1> QED BY <1>1, <1>4 DEF Accounted

LEMMA AdoptAccounts ==
  ASSUME TypeOK, NEW p \in PRs, Adopt, prs'[p].lane # prs[p].lane
  PROVE  Accounted(p)
<1> DEFINE q == reads["api"].pr
           u == reads["api"].unit
           got == reads["api"].got
<1>0. BoardTypeOK /\ LanesTypeOK /\ prs \in [PRs -> PR] /\ units \in [UnitId -> Unit]
  BY LanesFacts, BoardFacts DEF TypeOK
<1>1. reads["api"] \in Read \cup {AtRest} /\ u # NoUnit
  BY <1>0, LanesFacts DEF Adopt, Readers
<1>2. u \in UnitId /\ q \in PRs
  BY <1>1 DEF Read, AtRest
<1>3. /\ prs' = [prs EXCEPT ![q] = Moving(q, u, got)]
      /\ units' = IF got.state = "merged" THEN Moved(units, u, "completed") ELSE units
  BY DEF Adopt
<1> HIDE DEF q, u, got
<1>4. p = q
  BY <1>0, <1>3
<1>5. prs[q] \in PR
  BY <1>0, <1>2
<1>6. Moving(q, u, got).unit = u
  BY <1>5 DEF Moving, PR
<1>7. got.state = "merged"
  <2>1. got.state # "merged" => Moving(q, u, got).lane = prs[q].lane
    BY <1>5 DEF Moving, PR
  <2> QED BY <1>0, <1>2, <1>3, <1>4, <2>1
<1>8. units'[u].state = "completed"
  BY <1>0, <1>2, <1>3, <1>7, MovedFacts DEF Dispositions, Settled
<1> QED BY <1>0, <1>2, <1>3, <1>4, <1>6, <1>8 DEF Accounted

(* No merge is lost, by whichever of poll, resume and adoption it is recorded. *)
THEOREM MergesAreAccountedFor == Spec => MergeIsAccountedFor
<1>1. ASSUME TypeOK, LoopInv', [Next]_vars, NEW p \in PRs,
             prs[p].lane.state # "merged", Projects(prs', p), lifecycle \in {"armed", "paused"}
      PROVE  Accounted(p)
  <2>1. prs'[p].lane # prs[p].lane /\ Linked'
    BY <1>1 DEF Projects, LoopInv
  <2> QED BY <1>1, <2>1, LaneStep, ObserveAccounts, ResumeAccounts, AdoptAccounts
<1>2. TypeOK /\ LoopInv' /\ [Next]_vars =>
        [\A p \in PRs :
           /\ prs[p].lane.state # "merged" /\ Projects(prs', p)
           /\ lifecycle \in {"armed", "paused"}
           => LET u == prs'[p].unit IN
                units'[u].state = "completed" \/ <<p, prs'[p].key, u>> \in bypassed']_vars
  BY <1>1 DEF Accounted
<1> QED BY <1>2, SprintTypes, LoopKept, PTL DEF Spec, MergeIsAccountedFor

LEMMA ResumedBoard ==
  ASSUME [Next]_vars, lifecycle = "paused", lifecycle' = "armed"
  PROVE  \E r \in Reviewers : ResumeSprint(r)
<1>1. ASSUME NEW us, NEW as, NEW release, Settle(us, as, release) PROVE FALSE
  BY <1>1 DEF Settle
<1>2. ~(Planning \/ Working \/ Steering \/ DispatchReady)
  BY <1>1 DEF Planning, Create, Replan, Recall, Cancel, Working, Accept, Decline, Complete,
     Steering, Arm, Pause, Abort, Conclude, RerouteDeveloper, Retire, DispatchReady
<1>3. ~Watching
  <2>1. ASSUME NEW o \in Readers, Observe(o) PROVE FALSE
    <3> DEFINE p == reads[o].pr
               us == Merged(Merges(p, reads[o].got), prs')
    <3>1. UNCHANGED board \/ Settle(us, asg, TRUE)
      BY <2>1 DEF Observe
    <3> HIDE DEF us
    <3> QED BY <1>1, <3>1 DEF board
  <2> QED BY <2>1 DEF Watching, Fetch, Poll, Subscribe, Register, AdoptRead, Adopt, board
<1>4. ~Reviewing /\ ~Remote
  BY DEF Reviewing, RequestReview, RecordReview, DeliverRequest, AcceptRequest, DeclineRequest,
     Answer, RerouteReviewer, Remote, Push, Reopen, Checked, End, Github, board
<1>5. CASE Resuming
  BY <1>5 DEF Resuming, SurveyPRs, ResumeFails, ResumeRefused, ResolveUnit, Resolve, board
<1> QED BY <1>2, <1>3, <1>4, <1>5 DEF Next, vars, board, WakeDeveloper

(* A resume leaves no approved lane waiting for a merge that was recorded. *)
THEOREM ResumeCatchesUp == Spec => ResumeProjectsMerges
<1>1. ASSUME TypeOK, LoopInv', [Next]_vars, lifecycle = "paused", lifecycle' = "armed",
             NEW p \in PRs, prs'[p].home = "here", prs'[p].live, prs'[p].lane.state = "merged"
      PROVE  units'[prs'[p].unit].state # "merge_ready"
  <2> DEFINE u == prs'[p].unit
             us == Merged(PRs, Surveyed)
  <2>1. /\ prs' = Surveyed /\ units' = Release(us)
        /\ us \in [UnitId -> Unit] /\ units \in [UnitId -> Unit]
    BY <1>1, ResumedBoard, BoardFacts, MergedType DEF TypeOK, ResumeSprint, EndSurvey, Resume
  <2>2. u \in UnitId
    BY <1>1 DEF LoopInv, Linked, Ours
  <2>3. us[u].state # "merge_ready"
    <3>1. Projects(Surveyed, p) /\ Surveyed[p].unit = u
      BY <1>1, <2>1 DEF Projects
    <3>2. us[u] = IF units[u].state = "merge_ready" THEN [units[u] EXCEPT !.state = "completed"]
                  ELSE units[u]
      BY <2>2, <3>1 DEF Merged
    <3>3. units[u] \in Unit /\ "completed" \in Dispositions
      BY <2>1, <2>2 DEF Dispositions, Settled
    <3> QED BY <3>2, <3>3, UnitState
  <2> HIDE DEF u, us
  <2>4. units'[u].state = us[u].state \/ units'[u].state = "ready"
    BY <2>1, <2>2, ReleaseFacts
  <2> QED BY <2>3, <2>4 DEF u
<1>2. TypeOK /\ LoopInv' /\ [Next]_vars =>
        [lifecycle = "paused" /\ lifecycle' = "armed" =>
           \A p \in PRs : prs'[p].home = "here" /\ prs'[p].live /\ prs'[p].lane.state = "merged"
             => units'[prs'[p].unit].state # "merge_ready"]_vars
  BY <1>1
<1> QED BY <1>2, SprintTypes, LoopKept, PTL DEF Spec, ResumeProjectsMerges
=============================================================================
