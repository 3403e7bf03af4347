--------------------------- MODULE MCDomainEvents ---------------------------
(***************************************************************************)
(* Instances of DomainEvents for TLC.                                      *)
(***************************************************************************)
EXTENDS DomainEvents, TLC

CONSTANTS h1, h2, h3, c, m

\* Handlers are interchangeable.
Symmetry == Permutations(Handlers)
=============================================================================
