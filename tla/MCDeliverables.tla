-------------------------- MODULE MCDeliverables ---------------------------
(* A small instance of Deliverables: two submitters, one or two editors, a    *)
(* scope that members see and one that only management sees.                  *)
EXTENDS Deliverables

CONSTANTS s1, s2, e1, e2, team, management
=============================================================================
