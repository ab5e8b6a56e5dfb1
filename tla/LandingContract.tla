-------------------------- MODULE LandingContract --------------------------
(***************************************************************************)
(* What the fusion pipeline promises about the repository, without saying  *)
(* how: commits are pushed to one branch, one pull request is opened for   *)
(* it, CI reports on a head, and the pull request lands at most once, at a *)
(* head CI reported green, either because the repository's autonomy dial   *)
(* lets the policy land it or because a person approved it.  Nothing is    *)
(* pushed to a landed branch.                                              *)
(***************************************************************************)
EXTENDS Naturals

CONSTANT Autonomies   \* positions of the autonomy dial

VARIABLES autonomy,   \* the repository's dial, fixed for a run
          head,       \* number of commits on the run's branch, 0 = no branch
          pr,         \* the run's pull request
          green,      \* heads CI reported success for
          landedBy    \* who landed the pull request

Init ==
  /\ autonomy \in Autonomies
  /\ head = 0
  /\ pr = "none"
  /\ green = {}
  /\ landedBy = "nobody"

Push ==
  /\ pr # "merged"
  /\ head' = head + 1
  /\ UNCHANGED <<autonomy, pr, green, landedBy>>

Open ==
  /\ head > 0
  /\ pr = "none"
  /\ pr' = "open"
  /\ UNCHANGED <<autonomy, head, green, landedBy>>

Report ==
  /\ pr = "open"
  /\ green' = green \cup {head}
  /\ UNCHANGED <<autonomy, head, pr, landedBy>>

Land(by) ==
  /\ pr = "open"
  /\ head \in green
  /\ by = "policy" => autonomy = "autopilot-merge"
  /\ pr' = "merged"
  /\ landedBy' = by
  /\ UNCHANGED <<autonomy, head, green>>

Next == Push \/ Open \/ Report \/ \E by \in {"policy", "human"} : Land(by)

Spec == Init /\ [][Next]_<<autonomy, head, pr, green, landedBy>>

=============================================================================
