------------------------------ MODULE MCLogOnce ------------------------------
(* TLC instance of LogOnce: three sites that collide in two slots. *)
EXTENDS LogOnce, TLC

CONSTANTS s1, s2, s3, t1, t2, t3

MCStart == s1 :> 0 @@ s2 :> 1 @@ s3 :> 0
===============================================================================
