--------------------------- MODULE ContainerKeys ---------------------------
(* The strings that the vendored containers are keyed by, and what their    *)
(* hash functions make of them: any function of the string.                 *)
EXTENDS Integers, FiniteSets, FiniteSetsExt, SequencesExt

CONSTANTS
  Keys,           \* the strings
  NoKey,          \* no string: NULL
  KeyHash         \* the hash of each

ASSUME KeysAssumption ==
  /\ IsFiniteSet(Keys)
  /\ NoKey \notin Keys
  /\ KeyHash \in [Keys -> Nat]
=============================================================================
