--------------------------- MODULE MCProvisioning ---------------------------
(* Provisioning on a directory of one file of each kind. *)
EXTENDS Provisioning

CONSTANTS seg, b64, gender, meta, good, fresh, bad, torn

(* Every content has a length of its own: stat tells them apart. *)
DistinctSizes == [c \in Contents |->
  CASE c = good -> 4 [] c = fresh -> 3 [] c = bad -> 2 [] OTHER -> 1]

(* fresh, sound as well, has the length of good: a rewrite stat misses. *)
TwinSizes == [c \in Contents |->
  CASE c \in {good, fresh} -> 4 [] c = bad -> 2 [] OTHER -> 0]
=============================================================================
