------------------------------ MODULE MCMcpOAuth ------------------------------
(* Instances of McpOAuth small enough for TLC. *)
EXTENDS McpOAuth, TLC

CONSTANTS r1, r2, t1, t2, t3, c1, c2

OneRequest == {r1}
TwoRequests == {r1, r2}
TwoTokens == {t1, t2}
ThreeTokens == {t1, t2, t3}
TwoCalls == {c1, c2}

Interchangeable == Permutations(TwoRequests) \cup Permutations(ThreeTokens) \cup Permutations(TwoCalls)

=============================================================================
