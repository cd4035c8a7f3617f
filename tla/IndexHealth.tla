------------------------------ MODULE IndexHealth ------------------------------
(***************************************************************************)
(* The duplicate index check of database_health/index_health_calc.py, over *)
(* the indexes of pg_index.  Names are compared as numbers.                *)
(***************************************************************************)
EXTENDS Integers, Sequences, FiniteSets, SequencesExt

CONSTANTS
    IndexNames,         \* names of indexes
    KeyLists, Computed, \* what indexes are on: lists of columns and expressions, and the latter
    Methods             \* the access methods of indexes

ASSUME NamesAreOrdered == IndexNames \subseteq Nat /\ IsFiniteSet(IndexNames)
ASSUME KeysAreLists == \A k \in KeyLists : k \in Seq(Range(k))

(* The columns that are expressions, indexprs of pg_index.                 *)
Expressions(columns) == SelectSeq(columns, LAMBDA c : c \in Computed)

(* The indexes of tables.  The primary one is unique; the index of an      *)
(* exclusion constraint is not, and cannot be dropped without it, which    *)
(* the check does not ask for.                                             *)
Descriptions ==
    {d \in [columns : KeyLists, valid : BOOLEAN, unique : BOOLEAN, primary : BOOLEAN,
            exclusion : BOOLEAN, using : Methods, predicate : BOOLEAN] :
        /\ d.primary => /\ d.unique /\ d.valid /\ ~ d.predicate
                       /\ Expressions(d.columns) = <<>>
        /\ d.unique => d.using = "btree"
        /\ d.exclusion => ~ d.unique /\ d.valid
        /\ d.using = "hash" => Len(d.columns) = 1}

IndexCovers(indexed, columns) == IsPrefix(columns, indexed)

(* _indexes(): the columns are cut from the definition of the index, and   *)
(* the predicate of a partial index stays with its last column.            *)
Listed(index) ==
    [k \in DOMAIN index.columns |->
        <<index.columns[k], index.predicate /\ k = Len(index.columns)>>]

(* Wrong on purpose: of two equal indexes each is covered by the other.    *)
UnneededBoth(name, index, coveringName, covering) ==
    /\ index.valid /\ ~ index.primary /\ ~ index.unique
    /\ covering.valid /\ name # coveringName
    /\ IndexCovers(Listed(covering), Listed(index))
    /\ covering.using = index.using /\ covering.predicate = index.predicate
    /\ Expressions(covering.columns) = Expressions(index.columns)

(* One index of a table is not needed because of another.                  *)
Unneeded(name, index, coveringName, covering) ==
    /\ index.valid /\ ~ index.primary /\ ~ index.unique
    /\ covering.valid /\ name # coveringName
    /\ IndexCovers(Listed(covering), Listed(index))
    /\ covering.using = index.using /\ covering.predicate = index.predicate
    /\ Expressions(covering.columns) = Expressions(index.columns)
    /\ \/ covering.columns # index.columns \/ name > coveringName
       \/ covering.primary \/ covering.unique

(* duplicate_index_check(): the indexes that are reported.                 *)
Duplicates(table) ==
    {n \in DOMAIN table : \E m \in DOMAIN table : Unneeded(n, table[n], m, table[m])}

Serves(kept, dropped) ==
    /\ kept.valid /\ kept.using = dropped.using /\ kept.predicate = dropped.predicate
    /\ IsPrefix(dropped.columns, kept.columns)

(* Whoever drops every index that is reported, other than those of         *)
(* exclusion constraints, still has, for each of them, a valid index over  *)
(* its columns, and all of what is enforced on the table.                  *)
DuplicatesCanBeDropped(table) ==
    \A n \in Duplicates(table) :
        ~ table[n].exclusion =>
            /\ ~ table[n].unique
            /\ \E m \in DOMAIN table \ Duplicates(table) : Serves(table[m], table[n])
=============================================================================
