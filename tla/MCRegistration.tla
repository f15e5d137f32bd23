--------------------------- MODULE MCRegistration ---------------------------
(***************************************************************************)
(* Registration on small instances: two spellings of one address.          *)
(***************************************************************************)
EXTENDS Registration, TLC

CONSTANTS typed, lower

MCNormalized == [e \in Emails |-> IF e = typed THEN lower ELSE e]

=============================================================================
