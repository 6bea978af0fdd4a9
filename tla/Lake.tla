-------------------------------- MODULE Lake --------------------------------
(***************************************************************************)
(* What the lakehouse jobs share: the absent value and the insert-only     *)
(* MERGE of Iceberg tables.  A fact is a row [key, body].                  *)
(***************************************************************************)
CONSTANT None

\* insert_missing: WHEN NOT MATCHED THEN INSERT *.
InsertMissing(target, source) ==
    target \cup {new \in source : \A old \in target : old.key # new.key}

\* require_compatible: no target row has the key of a source row and another fingerprint.
Agree(target, source) ==
    \A new \in source, old \in target : old.key = new.key => old.body = new.body
=============================================================================
