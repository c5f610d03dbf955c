----------------------------- MODULE VoteRules -----------------------------
(***************************************************************************)
(* What a vote key promises to the network, whatever the nodes that hold   *)
(* it go through (UnderRules in core/vote/vote_manager.go): the votes it   *)
(* publishes never conflict with each other.                               *)
(***************************************************************************)
EXTENDS Integers

CONSTANTS
  Votes,  \* the votes that can be cast: records [source, target, fork]
  Scope   \* maliciousVoteSlashScope: a conflict this far apart still counts

VARIABLE published

\* Rule 1: one vote for a height.
SameHeight(v, w) == v.target = w.target /\ v # w

\* Rule 2: w reaches over v, and both are in the slashing scope.
Spans(w, v) ==
  /\ v.target < w.target /\ w.target <= v.target + Scope
  /\ w.source < v.source

Conflict(v, w) == SameHeight(v, w) \/ Spans(v, w) \/ Spans(w, v)

Init == published = {}

Publish(v) ==
  /\ \A w \in published : ~Conflict(v, w)
  /\ published' = published \cup {v}

Next == \E v \in Votes : Publish(v)

Spec == Init /\ [][Next]_published
============================================================================
