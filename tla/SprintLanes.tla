----------------------------- MODULE SprintLanes -----------------------------
(***************************************************************************)
(* The lanes of one Sprint: its board, the review loop between a Developer *)
(* and the Reviewer (scripts/sprint_review_loop.py), and the pull requests *)
(* the engine observes (scripts/sprint_pr_watcher.py).  GitHub is read     *)
(* outside the transaction that applies what was read, by three readers    *)
(* that know nothing of one another: the watcher's thread, an API call     *)
(* that registered a PR, and a resume of the Sprint.                       *)
(***************************************************************************)
EXTENDS SprintBoard

CONSTANTS
  PRs,          \* pull requests
  NoPR,         \* a reader that reads none
  MaxHead,      \* bound: commits pushed to a PR
  MaxSeen,      \* bound: transitions recorded for a PR
  MaxRequest,   \* bound: review requests of a unit
  MaxReads,     \* bound: reads of GitHub in flight
  Ceiling       \* REVIEW_ROUND_CEILING

VARIABLES
  prs,          \* registrations, subscriptions and recorded transitions
  github,       \* what GitHub would answer now
  reads,        \* the PR a reader is at, and what it read and has not applied
  survey,       \* what a resume read of the registered PRs and has not applied
  req,          \* the newest review_request message of each unit
  approved,     \* the request the last approval of a unit answered
  rounds,       \* review verdicts of a unit
  facts,        \* Developers with an undelivered PR fact
  bypassed      \* merge.grant_bypassed events: <<PR, transition, unit>>

lanes == <<prs, github, reads, survey, req, approved, rounds, facts, bypassed>>
vars == <<board, lanes>>

ASSUME LaneConstants ==
  /\ IsFiniteSet(PRs) /\ NoPR \notin PRs
  /\ MaxHead \in Nat \ {0} /\ MaxSeen \in Nat /\ MaxRequest \in Nat
  /\ MaxReads \in Nat
  /\ Ceiling \in Nat \ {0}

(* normalize_state, and the head commit. *)
PRStates == {"pending", "green", "red", "merged", "closed"}
Fact == [state : PRStates, head : 1..MaxHead]
NoFact == [state |-> "unseen", head |-> 0]
Seen == Fact \cup {NoFact}

NoUnit == 0

(* home: the Sprint that registered the PR, this one or another that aborted;
   live: its link to the unit is not superseded; watched: a subscription exists;
   n: transitions recorded for the subscription; seen: the last of them; lane:
   the last one recorded for the registration, and its number. *)
PR == [home : {"none", "here", "aborted"}, dev : Developers \cup {Nobody},
       unit : {NoUnit} \cup UnitId, live : BOOLEAN, watched : BOOLEAN, n : 0..MaxSeen, seen : Seen,
       lane : Seen, key : 0..MaxSeen]

Readers == {"watcher", "api"}

(* unit: the unit an API call wants to move the PR to, or none. *)
Read == [pr : PRs, got : Seen, unit : {NoUnit} \cup UnitId]
AtRest == [pr |-> NoPR, got |-> NoFact, unit |-> NoUnit]
At(p) == [pr |-> p, got |-> NoFact, unit |-> NoUnit]

Survey == [on : BOOLEAN, got : [PRs -> Seen]]
NoSurvey == [on |-> FALSE, got |-> [p \in PRs |-> NoFact]]

Room ==
  Cardinality({o \in Readers : reads[o] # AtRest}) + (IF survey.on THEN 1 ELSE 0) < MaxReads

Request == [n : 0..MaxRequest, state : Assignment]

Over == {"merged", "closed"}

Bound(u) == \E p \in PRs : prs[p].home = "here" /\ prs[p].unit = u /\ prs[p].live

(* _lane: the PR belongs to this Sprint and its owner still owns the unit. *)
Lane(p, u) ==
  /\ prs[p].home = "here" /\ prs[p].unit = u
  /\ prs[p].dev = units[u].dev

(***************************************************************************)
(* Observation: observe_in_transaction.                                    *)
(***************************************************************************)
News(p, got) == got # NoFact /\ prs[p].seen # got

(* A transition is recorded when it differs from the subscription's last one;
   only then does the registration get it too. *)
Recorded(p, got) ==
  IF ~News(p, got) THEN prs[p]
  ELSE [prs[p] EXCEPT !.n = prs[p].n + 1, !.seen = got,
                      !.lane = IF prs[p].home = "none" THEN prs[p].lane ELSE got,
                      !.key = IF prs[p].home = "none" THEN prs[p].key ELSE prs[p].n + 1]

Projects(ps, p) == ps[p].home = "here" /\ ps[p].live /\ ps[p].lane.state = "merged"

(* complete_from_merge_in_transaction: the merges among P complete the units
   that are ready for it, ... *)
Merged(P, ps) == [u \in UnitId |->
  IF units[u].state = "merge_ready" /\ \E p \in P : Projects(ps, p) /\ ps[p].unit = u
    THEN [units[u] EXCEPT !.state = "completed"] ELSE units[u]]

(* ... and are reported, once per transition, for those that are not. *)
Bypasses(P, ps) ==
  {<<p, ps[p].key, ps[p].unit>> : p \in
     {q \in P : Projects(ps, q) /\ units[ps[q].unit].state \notin {"completed", "merge_ready"}}}

(* _route_transition: the owning Developer hears of all but a pending PR. *)
Told(P) == {prs[p].dev : p \in P}
Notable(p, got) == News(p, got) /\ got.state # "pending"

(* Seeded fault: a merge counts only while the Sprint is armed. *)
MergesWhileArmed(p, got) == IF News(p, got) /\ lifecycle = "armed" THEN {p} ELSE {}

Merges(p, got) == IF News(p, got) /\ lifecycle \in {"armed", "paused"} THEN {p} ELSE {}

Observe(o) ==
  LET p == reads[o].pr
      got == reads[o].got
      after == [prs EXCEPT ![p] = Recorded(p, got)]
      merges == Merges(p, got) IN
  /\ got # NoFact /\ reads[o].unit = NoUnit
  /\ News(p, got) => prs[p].n < MaxSeen
  /\ prs' = after
  /\ facts' = facts \cup (IF Notable(p, got) THEN Told({p}) ELSE {})
  /\ bypassed' = bypassed \cup Bypasses(merges, after)
  /\ IF Merged(merges, after) = units THEN UNCHANGED board
     ELSE Settle(Merged(merges, after), asg, TRUE)
  /\ reads' = [reads EXCEPT ![o] = AtRest]
  /\ UNCHANGED <<github, survey, req, approved, rounds>>

(* poll_once: a subscription last seen merged or closed is not read again. *)
Poll(p) ==
  /\ reads["watcher"] = AtRest /\ Room
  /\ prs[p].watched /\ prs[p].seen.state \notin Over
  /\ reads' = [reads EXCEPT !["watcher"] = At(p)]
  /\ UNCHANGED <<board, prs, github, survey, req, approved, rounds, facts, bypassed>>

Fetch(o) ==
  /\ reads[o].pr # NoPR /\ reads[o].got = NoFact
  /\ reads' = [reads EXCEPT ![o].got = github[reads[o].pr]]
  /\ UNCHANGED <<board, prs, github, survey, req, approved, rounds, facts, bypassed>>

(* subscribe: the watcher discovers the PR of a worktree's branch, or a
   Developer subscribes to it; a snapshot follows. *)
Subscribe(p, d, o) ==
  /\ reads[o] = AtRest /\ Room /\ ~prs[p].watched
  /\ prs' = [prs EXCEPT ![p].watched = TRUE, ![p].dev = d]
  /\ reads' = [reads EXCEPT ![o] = At(p)]
  /\ UNCHANGED <<board, github, survey, req, approved, rounds, facts, bypassed>>

(* register, and its exact replay; a snapshot follows. *)
Register(p, d, u) ==
  /\ reads["api"] = AtRest /\ Room
  /\ units[u].state # "absent" /\ units[u].dev = d
  /\ \/ /\ prs[p].home = "none" /\ (prs[p].watched => prs[p].dev = d)
        /\ prs' = [prs EXCEPT ![p].home = "here", ![p].dev = d, ![p].unit = u,
                              ![p].live = TRUE, ![p].watched = TRUE]
     \/ Lane(p, u) /\ UNCHANGED prs
  /\ reads' = [reads EXCEPT !["api"] = At(p)]
  /\ UNCHANGED <<board, github, survey, req, approved, rounds, facts, bypassed>>

(* reconcile_aborted_registration: a PR of an aborted Sprint moves to an active
   lane of this one, while it is paused.  GitHub is read first. *)
AdoptRead(p, u) ==
  /\ reads["api"] = AtRest /\ Room /\ prs[p].home = "aborted"
  /\ reads' = [reads EXCEPT !["api"] = [pr |-> p, got |-> github[p], unit |-> u]]
  /\ UNCHANGED <<board, prs, github, survey, req, approved, rounds, facts, bypassed>>

CanAdopt(p, u, got) ==
  /\ lifecycle = "paused" /\ prs[p].home = "aborted"
  /\ got.state # "closed"
  /\ units[u].kind = "code" /\ units[u].state = "active"
  /\ \A q \in PRs : ~(prs[q].home = "here" /\ prs[q].unit = u)

Moving(p, u, got) ==
  LET pr == [prs[p] EXCEPT !.home = "here", !.dev = units[u].dev, !.unit = u,
                           !.live = TRUE, !.watched = TRUE] IN
  IF got.state = "merged"
    THEN [pr EXCEPT !.n = pr.n + 1, !.seen = got, !.lane = got, !.key = pr.n + 1] ELSE pr

Adopt ==
  LET p == reads["api"].pr
      u == reads["api"].unit
      got == reads["api"].got IN
  /\ u # NoUnit
  /\ \/ /\ CanAdopt(p, u, got) /\ prs[p].n < MaxSeen
        /\ prs' = [prs EXCEPT ![p] = Moving(p, u, got)]
        /\ units' = IF got.state = "merged" THEN Moved(units, u, "completed") ELSE units
        /\ reads' = [reads EXCEPT !["api"] = At(p)]
     \/ /\ ~CanAdopt(p, u, got)
        /\ reads' = [reads EXCEPT !["api"] = AtRest]
        /\ UNCHANGED <<prs, units>>
  /\ UNCHANGED <<lifecycle, owner, gen, eligible, announced, asg>>
  /\ UNCHANGED <<github, survey, req, approved, rounds, facts, bypassed>>

(***************************************************************************)
(* The review loop.                                                        *)
(***************************************************************************)
(* request_review: a lane in review is handed over again, and the request
   before is superseded. *)
RequestReview(p) == LET u == prs[p].unit IN
  /\ u # NoUnit /\ Lane(p, u) /\ lifecycle = "armed"
  /\ prs[p].lane.state = "green"
  /\ units[u].state \in {"active", "fixing", "in_review"}
  /\ req[u].n < MaxRequest
  /\ req' = [req EXCEPT ![u] = [n |-> req[u].n + 1, state |-> "queued"]]
  /\ units' = Moved(units, u, "in_review")
  /\ UNCHANGED <<lifecycle, owner, gen, eligible, announced, asg>>
  /\ UNCHANGED <<prs, github, reads, survey, approved, rounds, facts, bypassed>>

(* The request reaches the Reviewer, who takes it or declines it. *)
Answer(u, from, to) ==
  /\ req[u].state = from
  /\ req' = [req EXCEPT ![u] = [n |-> req[u].n, state |-> to]]
  /\ UNCHANGED <<board, prs, github, reads, survey, approved, rounds, facts, bypassed>>

DeliverRequest(u) == lifecycle = "armed" /\ Answer(u, "queued", "delivered")
AcceptRequest(u) == Answer(u, "delivered", "accepted")
DeclineRequest(u) == Answer(u, "delivered", "declined")

(* Seeded fault: a verdict counts though the newest request was not taken. *)
RecordReviewUnread(p, verdict) == LET u == prs[p].unit IN
  /\ u # NoUnit /\ Lane(p, u) /\ lifecycle = "armed" /\ units[u].state = "in_review"
  /\ rounds' = [rounds EXCEPT ![u] = rounds[u] + 1]
  /\ units' = Moved(units, u, IF verdict = "approved" THEN "merge_ready" ELSE "fixing")
  /\ approved' = IF verdict = "approved" THEN [approved EXCEPT ![u] = req[u].n] ELSE approved
  /\ lifecycle' = IF verdict # "approved" /\ rounds[u] + 1 >= Ceiling THEN "paused" ELSE lifecycle
  /\ UNCHANGED <<owner, gen, eligible, announced, asg>>
  /\ UNCHANGED <<prs, github, reads, survey, req, facts, bypassed>>

(* record_review; the ceiling on rounds pauses the Sprint. *)
RecordReview(p, verdict) == LET u == prs[p].unit IN
  /\ u # NoUnit /\ Lane(p, u) /\ lifecycle = "armed"
  /\ req[u].state = "accepted" /\ units[u].state = "in_review"
  /\ rounds' = [rounds EXCEPT ![u] = rounds[u] + 1]
  /\ units' = Moved(units, u, IF verdict = "approved" THEN "merge_ready" ELSE "fixing")
  /\ approved' = IF verdict = "approved" THEN [approved EXCEPT ![u] = req[u].n] ELSE approved
  /\ lifecycle' = IF verdict # "approved" /\ rounds[u] + 1 >= Ceiling THEN "paused" ELSE lifecycle
  /\ UNCHANGED <<owner, gen, eligible, announced, asg>>
  /\ UNCHANGED <<prs, github, reads, survey, req, facts, bypassed>>

(* reroute of the Reviewer's seat: each open request is asked again. *)
RerouteReviewer ==
  LET lanesOut == {u \in UnitId : units[u].state = "in_review"} IN
  /\ lifecycle = "paused" /\ lanesOut # {}
  /\ \A u \in UnitId : req[u].state # "queued"
  /\ \A u \in lanesOut : req[u].state \in {"delivered", "accepted"} /\ req[u].n < MaxRequest
  /\ req' = [u \in UnitId |->
       IF u \in lanesOut THEN [n |-> req[u].n + 1, state |-> "queued"] ELSE req[u]]
  /\ UNCHANGED <<board, prs, github, reads, survey, approved, rounds, facts, bypassed>>

(***************************************************************************)
(* Waking a Developer.  A wake is due when one of its messages is a PR fact,*)
(* which belongs to no Sprint, or the Sprint is armed; it then takes every *)
(* undelivered message of the shell.                                       *)
(***************************************************************************)
WakeDeveloper(d) ==
  /\ d \in facts \/ (lifecycle = "armed" /\ Delivered(d) # asg)
  /\ asg' = Delivered(d) /\ facts' = facts \ {d}
  /\ UNCHANGED <<lifecycle, owner, gen, eligible, announced, units>>
  /\ UNCHANGED <<prs, github, reads, survey, req, approved, rounds, bypassed>>

(***************************************************************************)
(* Resume: the registered PRs are read, then one transaction applies what  *)
(* was read, reconciles and releases.                                      *)
(***************************************************************************)
SurveyPRs ==
  /\ lifecycle = "paused" /\ ~survey.on /\ Room
  /\ survey' = [on |-> TRUE,
                got |-> [p \in PRs |-> IF prs[p].home = "here" THEN github[p] ELSE NoFact]]
  /\ UNCHANGED <<board, prs, github, reads, req, approved, rounds, facts, bypassed>>

Surveyed == [p \in PRs |-> Recorded(p, survey.got[p])]
Fresh == {p \in PRs : News(p, survey.got[p])}

EndSurvey ==
  /\ survey.on /\ survey' = NoSurvey
  /\ \A p \in Fresh : prs[p].n < MaxSeen
  /\ prs' = Surveyed
  /\ facts' = facts \cup Told({p \in PRs : Notable(p, survey.got[p])})
  /\ UNCHANGED <<github, reads, req, approved, rounds>>

(* Seeded fault: a resume projects only the merges that are new to it. *)
ResumeWithNews(r) ==
  /\ Resume(r, Merged(Fresh, Surveyed)) /\ EndSurvey
  /\ bypassed' = bypassed \cup Bypasses(Fresh, Surveyed)

ResumeSprint(r) ==
  /\ Resume(r, Merged(PRs, Surveyed)) /\ EndSurvey
  /\ bypassed' = bypassed \cup Bypasses(PRs, Surveyed)

ResumeFails(r) ==
  /\ ResumeRefused(r, Merged(Fresh, Surveyed)) /\ EndSurvey
  /\ bypassed' = bypassed \cup Bypasses(Fresh, Surveyed)

(* resolve: the links of the unit's PRs are superseded with it. *)
ResolveUnit(u, target) ==
  /\ Resolve(u, target)
  /\ prs' = [p \in PRs |-> IF prs[p].home = "here" /\ prs[p].unit = u
                             THEN [prs[p] EXCEPT !.live = FALSE] ELSE prs[p]]
  /\ req' = [req EXCEPT ![u] = [n |-> req[u].n, state |-> Retired(req[u].state)]]
  /\ UNCHANGED <<github, reads, survey, approved, rounds, facts, bypassed>>

(***************************************************************************)
(* GitHub.                                                                 *)
(***************************************************************************)
Github(p, from, to) ==
  /\ github[p].state \in from
  /\ github' = [github EXCEPT ![p] = to]
  /\ UNCHANGED <<board, prs, reads, survey, req, approved, rounds, facts, bypassed>>

Open == PRStates \ Over

Push(p) ==
  /\ github[p].head < MaxHead
  /\ Github(p, Open, [state |-> "pending", head |-> github[p].head + 1])

Checked(p, result) ==
  Github(p, {"pending"}, [state |-> result, head |-> github[p].head])

End(p, state) == Github(p, Open, [state |-> state, head |-> github[p].head])

Reopen(p) == Github(p, {"closed"}, [state |-> "pending", head |-> github[p].head])

(***************************************************************************)
(* The whole.                                                              *)
(***************************************************************************)
Unregistered(d, watched, home) ==
  [home |-> home, dev |-> d, unit |-> NoUnit, live |-> FALSE, watched |-> watched, n |-> 0,
   seen |-> NoFact, lane |-> NoFact, key |-> 0]

Init ==
  /\ InitBoard
  /\ prs \in [PRs -> {Unregistered(Nobody, FALSE, "none")}
                     \cup {Unregistered(d, TRUE, "aborted") : d \in Developers}]
  /\ github = [p \in PRs |-> [state |-> "pending", head |-> 1]]
  /\ reads = [o \in Readers |-> AtRest] /\ survey = NoSurvey
  /\ req = [u \in UnitId |-> [n |-> 0, state |-> "none"]]
  /\ approved = [u \in UnitId |-> 0] /\ rounds = [u \in UnitId |-> 0]
  /\ facts = {} /\ bypassed = {}

Planning == \E u \in UnitId :
  \/ \E plan \in Plans : Create(u, plan) \/ Replan(u, plan)
  \/ Recall(u, Bound(u)) \/ Cancel(u)

Working == \E u \in UnitId : Accept(u) \/ Decline(u) \/ Complete(u)

Steering ==
  \/ \E r \in Reviewers : gen < MaxGen /\ Arm(r)
  \/ Pause \/ Abort \/ Conclude
  \/ \E d \in Developers : RerouteDeveloper(d)
  \/ \E r \in Reviewers : Retire(r)

Resuming ==
  \/ SurveyPRs
  \/ \E r \in Reviewers : Generation(r) <= MaxGen /\ (ResumeSprint(r) \/ ResumeFails(r))
  \/ \E u \in UnitId, target \in Settled : ResolveUnit(u, target)

Watching ==
  \/ \E o \in Readers : Observe(o) \/ Fetch(o)
  \/ \E p \in PRs : Poll(p)
  \/ \E p \in PRs, d \in Developers, o \in Readers : Subscribe(p, d, o)
  \/ \E p \in PRs, d \in Developers, u \in UnitId : Register(p, d, u)
  \/ \E p \in PRs, u \in UnitId : AdoptRead(p, u)
  \/ Adopt

Reviewing ==
  \/ \E p \in PRs : RequestReview(p)
                    \/ \E verdict \in {"approved", "changes_requested"} : RecordReview(p, verdict)
  \/ \E u \in UnitId : DeliverRequest(u) \/ AcceptRequest(u) \/ DeclineRequest(u)
  \/ RerouteReviewer

Remote == \E p \in PRs :
  \/ Push(p) \/ Reopen(p)
  \/ \E result \in {"green", "red"} : Checked(p, result)
  \/ \E state \in Over : End(p, state)

Next ==
  \/ (Planning \/ Working \/ Steering \/ DispatchReady) /\ UNCHANGED lanes
  \/ \E d \in Developers : WakeDeveloper(d)
  \/ Resuming \/ Watching \/ Reviewing \/ Remote

Spec == Init /\ [][Next]_vars

(* The pulse of sprint_runtime calls dispatch_ready every few seconds. *)
FairSpec == Spec /\ WF_vars(DispatchReady /\ UNCHANGED lanes)
=============================================================================
