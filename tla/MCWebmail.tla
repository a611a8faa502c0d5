------------------------------- MODULE MCWebmail -------------------------------
(* Webmail with two messages: see README.md, section 3. *)
EXTENDS Webmail

CONSTANTS m1, m2, k1, j1
=============================================================================
