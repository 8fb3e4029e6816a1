------------------------------ MODULE MCBilling ------------------------------
(***************************************************************************)
(* Billing for TLC.  The .cfg files choose the operations, two handlers in *)
(* flight and the bounds; Symmetry is used by runs without liveness.       *)
(***************************************************************************)
EXTENDS Billing, TLC

Symmetry == Permutations(Handlers)

\* Leaves out what depends on very slow requests: a verification that outlives
\* the workspace's verification, and a sweep that lasts longer than its day.
PromptHandlers ==
    \A i \in Handlers :
        /\ h[i].op = "otp" => ws[h[i].w].status = "PENDING_OTP"
        /\ h[i].op = "dunning" => h[i].t = now

=============================================================================
