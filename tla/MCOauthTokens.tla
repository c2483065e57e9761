--------------------------- MODULE MCOauthTokens ---------------------------
(* Small instances of OauthTokens for TLC. *)
EXTENDS OauthTokens, TLC

\* Requests and the ids of tokens are interchangeable: sound for safety.
OauthSymmetry == Permutations(Req) \cup Permutations(Grant)
=============================================================================
