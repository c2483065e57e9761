-------------------------- MODULE MCBrowserSession --------------------------
(* A small instance of BrowserSession for TLC. *)
EXTENDS BrowserSession, TLC

\* Requests and session ids are interchangeable.
SessionSymmetry == Permutations(Req) \cup Permutations(Sid)
=============================================================================
