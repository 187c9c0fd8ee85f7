------------------------------ MODULE MCAccounts ------------------------------
EXTENDS Accounts, TLC

CONSTANTS r1, r2, r3

MCRequests == {r1, r2, r3}

(* Suspend an account; admit one; take an account's verification and
   last login back. *)
Form(v, a, l) == [verified |-> v, active |-> a, logged |-> l]
MCForms == {Form(TRUE, FALSE, TRUE), Form(TRUE, TRUE, TRUE), Form(FALSE, TRUE, FALSE)}
MCSymmetry == Permutations(Requests)
===============================================================================
