----------------------------- MODULE MCAccounts -----------------------------
(* Accounts for TLC: two addresses, an account at each provider, two     *)
(* requests at a time.                                                      *)
EXTENDS Accounts, TLC

CONSTANTS e1, e2, gh, go, r1, r2

MCEmails == {e1, e2}
MCGitHubs == {gh}
MCGoogles == {go}
MCRequests == {r1, r2}
MCSymmetry == Permutations(MCRequests) \cup Permutations(MCEmails)
=============================================================================
