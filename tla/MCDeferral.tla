------------------------------ MODULE MCDeferral -----------------------------
(* Small instances of Deferral, and with it of RateLimiter, for TLC. *)
EXTENDS Deferral, TLC

DeferralSymmetry == Permutations(Workers) \cup Permutations(Emails)

=============================================================================
