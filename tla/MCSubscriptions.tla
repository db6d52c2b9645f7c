----------------------------- MODULE MCSubscriptions -----------------------------
(* Instances of Subscriptions for TLC.  The plans stand for a small and a large   *)
(* quota; two Stripe subscriptions and two rows are enough for a company that     *)
(* pays twice, resubscribes or is billed for an abandoned checkout.               *)
EXTENDS Subscriptions, TLC

CONSTANTS p1, p2, s1, s2, pro

MCQuota == [plan \in Plans |-> IF plan = STARTER THEN 1 ELSE 2]

\* One contact: enough to tell a spent quota from a reset one.
OneContact == [plan \in Plans |-> 1]

\* Processes are interchangeable and so are the Stripe ids; for invariants only.
Symmetry == Permutations(Procs) \cup Permutations(Subs)

WebhookOps == {"webhook", "activate", "renew", "failed", "past_due", "cancelled"}
RequestOps == {"checkout", "cancelAtPeriodEnd", "changePlan", "consume"}
AdminOps   == {"adminCancel", "suspend", "reactivate", "assignPlan"}

\* The cancellation flag is touched by many and read by its own handler only; it is
\* left to the instances without the back office, and so are the deliveries that
\* record their marker only and the dating of a grace period.
SequentialOps == {"activate", "renew", "failed", "cancelled"} \cup AdminOps
                 \cup (RequestOps \ {"cancelAtPeriodEnd"})
StaffOps      == WebhookOps \cup AdminOps \cup {"checkout", "consume"}
CustomerOps   == WebhookOps \cup RequestOps
\* Consumption changes no column that those two invariants read.
RacingOps     == CustomerOps \ {"consume"}
BillingOps    == WebhookOps \cup {"checkout"}
================================================================================
