------------------------------ MODULE EntitySave ------------------------------
(***************************************************************************)
(* TypeORM's Repository.save(entity) of an entity that was loaded earlier, *)
(* as the services use it without a row lock.  save() first reloads the    *)
(* row, compares every column of the entity with it, and then sends one    *)
(* UPDATE of the columns that differ, or an INSERT if the row is gone.     *)
(* Nothing compares what was loaded first with what is reloaded: a column  *)
(* that somebody else changed in between counts as changed by the entity.  *)
(***************************************************************************)

\* The columns the UPDATE will set, from the entity and the reloaded row.
Differing(entity, reloaded) ==
    {c \in DOMAIN reloaded : entity[c] # reloaded[c]}

\* The row after the UPDATE has set these columns to the entity's values.
Overwritten(stored, entity, columns) ==
    [c \in DOMAIN stored |-> IF c \in columns THEN entity[c] ELSE stored[c]]
=============================================================================
