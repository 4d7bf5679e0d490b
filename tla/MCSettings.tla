----------------------------- MODULE MCSettings -----------------------------
(***************************************************************************)
(* Small instances of Settings for TLC: the borders of each range.         *)
(***************************************************************************)
EXTENDS Settings, TLC

BodiesOver(concurrency, maxAttempts, autoDecrypt) ==
    [concurrency : {{}} \cup {{n} : n \in concurrency},
     maxAttempts : {{}} \cup {{n} : n \in maxAttempts},
     autoDecrypt : {{}} \cup {{v} : v \in autoDecrypt}]

(* Requests are interchangeable.                                           *)
AdminSymmetry == Permutations(Admins)

(* Every value beyond, at and missing from the borders of two ranges.      *)
BorderUpdates == BodiesOver({0, 10, 11}, {0, 20, 21}, {"false", "other"})
=============================================================================
