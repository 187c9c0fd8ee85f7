----------------------------- MODULE MCOrganizations -----------------------------
(* The instance of Organizations that organizations.cfg checks. *)
EXTENDS Organizations, TLC
CONSTANTS u1, u2, o1, o2, e1, e2, r1, r2, blank
MCUsers == {u1, u2}
MCAdmins == {}
MCOrganizers == {u1}
MCOrgs == {o1, o2}
MCEvents == {e1, e2}
MCBases == {blank}
MCRequests == {r1, r2}
Symmetric == Permutations(MCOrgs) \cup Permutations(MCEvents) \cup Permutations(MCRequests)
=============================================================================
