------------------------------ MODULE MCBilling ------------------------------
(* Instances of Billing small enough for TLC. *)
EXTENDS Billing, TLC

CONSTANTS c1, c2, c3

TwoCalls == {c1, c2}
ThreeCalls == {c1, c2, c3}

\* A webhook that restarts the cycle, one that ends the plan, one that keeps the counter.
SomeKinds == {"checkout", "deleted", "seats"}

\* Statements of the repository that the code breaks on these instances too.

\* A completed checkout "activates the right org" (createOrgCheckout), and the
\* organisation keeps its plan until the subscription ends: a metering call
\* that read the trial before saves it as expired afterwards.
PaidStaysPaid ==
    [][stripe = "live" /\ row.plan = "active" => row'.plan = "active"]_vars

=============================================================================
