---------------------------- MODULE MCObjectStorage ----------------------------
\* One creation and one deletion of the record, an update, and updates that create it.
EXTENDS ObjectStorage, TLC

CONSTANTS c, d, u, s1, s2

MCKindOf == [o \in Operations |->
  CASE o = c -> "create" [] o = d -> "delete" [] o = u -> "update" [] OTHER -> "upsert"]

Interchangeable == Permutations({s1, s2})
=============================================================================
