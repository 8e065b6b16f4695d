------------------------------- MODULE TypeOrm -------------------------------
(***************************************************************************)
(* What the services rely on from TypeORM 0.3 and PostgreSQL.  Neither is   *)
(* part of the repository: the operators below state how a repository call  *)
(* of a service acts on one row, as the services use it.                    *)
(*                                                                          *)
(* A row is a record with a field row (its life cycle) and, for an entity   *)
(* with a @DeleteDateColumn, a field deletedAt.  deletedAt keeps of the     *)
(* timestamp only what a query compares it with: NULL, within the last      *)
(* thirty days, or older.                                                   *)
(***************************************************************************)

\* "none": the uuid has never been inserted; "removed": it was deleted by a
\* DELETE statement; "there": it is in the table.
RowState == {"none", "there", "removed"}

DeletedAt == {"null", "recent", "expired"}

Exists(r) == r.row = "there"

\* find, findOne, count and a QueryBuilder of an entity with a
\* @DeleteDateColumn add "deletedAt IS NULL" unless withDeleted is asked for.
Visible(r) == Exists(r) /\ r.deletedAt = "null"

\* The columns save(entity) writes: it SELECTs the row by primary key, deleted
\* or not, and keeps the columns in which entity and row differ.  When there
\* is no row it INSERTs all of them.
SavePlan(entity, r) ==
    IF Exists(r) THEN {f \in DOMAIN entity : entity[f] # r[f]} ELSE DOMAIN entity

\* A plan made while the row was missing is an INSERT.
IsInsert(plan) == "row" \in plan

\* INSERT of a primary key that is there already is an error.
SaveFails(plan, r) == IsInsert(plan) /\ Exists(r)

\* A column after the statement ran: an UPDATE leaves the columns outside the
\* plan as they now are.
Written(f, plan, entity, r) == IF f \in plan THEN entity[f] ELSE r[f]

\* An UPDATE of a row that is no longer there affects no row.
SaveHits(plan, r) == IsInsert(plan) \/ Exists(r)
=============================================================================
