----------------------------- MODULE MCAdminApi -----------------------------
(***************************************************************************)
(* Four jobs at most, a list of the active ones, two to a page, two        *)
(* requests at a time.                                                     *)
(***************************************************************************)
EXTENDS AdminApi, TLC

CONSTANTS q1, q2

Symmetry == Permutations({q1, q2})
=============================================================================
