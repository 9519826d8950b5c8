----------------------------- MODULE MCCoherence -----------------------------
(* Instances of Coherence: small hierarchies. *)
EXTENDS Coherence, TLC

CONSTANTS A, B, LA, LB, Mem, t1, t2

\* Two first-level caches above main memory.
TwoLow == [m \in {A, B} |-> Mem]

\* A second-level cache with one cache above it, beside a first-level cache.
NestedLow == [m \in {A, LA, LB} |-> IF m = A THEN LA ELSE Mem]

\* Three first-level caches above main memory.
FlatLow == [m \in {A, B, LA} |-> Mem]

OneWay == [m \in Modules |-> 1]

\* Tags are interchangeable, and so are two caches at the same place.
SameTags == Permutations({t1, t2})
SameCaches == Permutations({A, B, LA})
SameTagsAndAllCaches == SameTags \cup SameCaches
SameTagsAndCaches == SameTags \cup Permutations({A, B})
=============================================================================
