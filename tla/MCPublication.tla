---------------------------- MODULE MCPublication ----------------------------
(* Both kinds of task; three faults, three interventions of people and four *)
(* attempts: an attempt can fail after each of its effects and still be     *)
(* followed by one that finds what people made of them.                     *)
EXTENDS Publication
=============================================================================
