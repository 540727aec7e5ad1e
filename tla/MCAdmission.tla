---------------------------- MODULE MCAdmission ----------------------------
\* The room of a WvW team the account's world may be on, and one of a world the
\* account is not of.
EXTENDS AdmissionProofs, TLC

MCClaim ==
  [r \in Room |-> [kind |-> "wvw", team |-> "red",
                   world |-> IF r = "red" THEN "home" ELSE "elsewhere"]]

Sessions == Permutations(Session)
=============================================================================
