---------------------------- MODULE MCMoneyPath -----------------------------
(***************************************************************************)
(* Small instances of MoneyPath for TLC.                                   *)
(***************************************************************************)
EXTENDS MoneyPath

Budget(checkout, stripe, webhook, decide, fulfil, goal) ==
  [checkout |-> checkout, stripe |-> stripe, webhook |-> webhook,
   decide |-> decide, fulfil |-> fulfil, goal |-> goal]

\* Both ways to sell the quote at once; two sessions for it; the goal loop's
\* drafts under two executors and two admins.
Mixed == 
  {Budget(1, 1, 2, 1, 0, 0), Budget(0, 2, 2, 0, 1, 0), Budget(0, 0, 0, 2, 1, 2)}

\* The Stripe path, and one late internal checkout.
StripeFirst == {Budget(1, 1, 2, 0, 0, 0)}

=============================================================================
