------------------------------ MODULE MCClaims ------------------------------
EXTENDS ClaimsPaging, TLC
UserSymmetry == Permutations(Users)
============================================================================
