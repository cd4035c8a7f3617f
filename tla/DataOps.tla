-------------------------------- MODULE DataOps --------------------------------
(***************************************************************************)
(* The structured data operations of data_ops/: a reader takes the pages   *)
(* of a relation one after the other, each in a transaction of its own,    *)
(* while clients insert, upsert, update and delete rows under a guard, and *)
(* count by reading a row and updating it on the condition that it has not *)
(* changed.  A transaction is one step here; AtomicWrite has its inside.   *)
(***************************************************************************)
EXTENDS Integers, Sequences, FiniteSets, Functions, SequencesExt, FiniteSetsExt

CONSTANTS
    Relations,    \* metadata: [kind, permitted, columns, uniqueKeys, primaryKey]
    Key, Counter, \* a key column, and the column that clients count in
    FirstTables,  \* the rows a relation may start with
    Filters,      \* filter sets: [allOf, anyOf], sets of conditions
    Orders,       \* order_by: sequences of [column, direction]
    Requests,     \* [columns, filters, order]; no columns are all columns
    Limits, Guards, \* limits of pages, and [max, expected] of mutations
    Batches,      \* rows of an insert or upsert: sequences of functions
    Assignments,  \* values of an update: functions
    MaxResult,    \* MAX_DATA_RESULT_BYTES
    BytesOf(_),   \* encoded size of a row
    MaxCursor,    \* what MAX_CURSOR_CHARACTERS leaves for the values of a cursor
    CursorSize(_, _), \* type, value -> its size in a cursor, or Nothing
    InexactTypes, \* types of which a value may return from a cursor as another
    Compared(_, _), \* such a type, value -> what it returns as, or Nothing
    Counters,     \* the clients that count
    MaxPages,     \* bound on the pages that the reader asks for
    MaxWrites,    \* bound on mutations that commit or end in doubt
    Null, Nothing

ComparisonOperator ==
    {"eq", "ne", "lt", "lte", "gt", "gte", "in", "not_in", "like", "ilike", "is_null", "is_not_null"}

(* What the requests themselves reject.  The value of in, not_in, like and *)
(* ilike is the set of the values that match.                              *)
FilterCondition(c) ==
    /\ c.operator \in ComparisonOperator
    /\ (c.operator \in {"is_null", "is_not_null"}) <=> (c.value = Nothing)
    /\ c.operator \in {"in", "not_in"} => c.value # {} /\ Null \notin c.value

FilterSet(f) ==
    /\ Cardinality(f.allOf) + Cardinality(f.anyOf) <= 64
    /\ \A c \in f.allOf \cup f.anyOf : FilterCondition(c)

OrderTerms(order) ==
    /\ order \in Seq(Range(order))
    /\ \A i, j \in DOMAIN order : i # j => order[i].column # order[j].column
    /\ \A i \in DOMAIN order : order[i].direction \in {"asc", "desc"}

MutationGuard(g) == g.max \in 1..500 /\ g.expected \in 0..g.max \cup {Nothing}

(* One or more rows of the same columns.                                   *)
RowsToWrite(batch) ==
    /\ batch \in Seq(Range(batch)) /\ Len(batch) \in 1..500 /\ DOMAIN batch[1] # {}
    /\ \A k \in DOMAIN batch : DOMAIN batch[k] = DOMAIN batch[1]

(* The columns of a relation, with the type that PostgreSQL knows of them, *)
(* the columns of each of its unique keys, and its primary key, one of     *)
(* them.                                                                   *)
ColumnMetadata(c) ==
    /\ {c.notNull, c.generated} \subseteq BOOLEAN
    /\ c.identity \in {"none", "always", "default"}

RelationMetadata(m) ==
    /\ \A c \in DOMAIN m.columns : ColumnMetadata(m.columns[c])
    /\ \A k \in m.uniqueKeys : k # {} /\ k \subseteq DOMAIN m.columns
    /\ m.primaryKey \in Seq(DOMAIN m.columns)
    /\ m.primaryKey # <<>> =>
         /\ Range(m.primaryKey) \in m.uniqueKeys
         /\ \A c \in Range(m.primaryKey) : m.columns[c].notNull

ASSUME RelationsAssumption == \A m \in Relations : RelationMetadata(m)

ASSUME RequestsAssumption ==
    /\ \A f \in Filters : FilterSet(f)
    /\ \A o \in Orders : OrderTerms(o)
    /\ \A q \in Requests : /\ DOMAIN q = {"columns", "filters", "order"}
                          /\ FilterSet(q.filters) /\ OrderTerms(q.order)
    /\ Limits \subseteq 1..500 /\ \A g \in Guards : MutationGuard(g)
    /\ \A b \in Batches : RowsToWrite(b)
    /\ \A v \in Assignments : DOMAIN v # {}

(* The rows that clients count in are known by a key, start at zero, and   *)
(* have their counters written by no other request.                        *)
ASSUME CountersAssumption ==
    /\ Key # Counter /\ Nothing \notin Nat
    /\ \A m \in Relations : m.kind \in {"r", "p"} =>
         /\ {Key} \in m.uniqueKeys /\ \A k \in m.uniqueKeys : Key \in k
         /\ m.columns[Key].notNull
         /\ Counter \in DOMAIN m.columns /\ m.columns[Counter].default = 0
    /\ \A T \in FirstTables : \A r \in T : r[Counter] = 0
    /\ \A b \in Batches : Counter \notin DOMAIN b[1]
    /\ \A v \in Assignments : {Key, Counter} \cap DOMAIN v = {}

KeyOrder(m) ==
    [k \in DOMAIN m.primaryKey |-> [column |-> m.primaryKey[k], direction |-> "asc"]]

(* Values are integers here, for any type with an order, and Null.  The    *)
(* brackets of an empty page fit into a result.                            *)
Value == {Null} \cup Int

ASSUME ValuesAssumption ==
    /\ Null \notin Int
    /\ Nothing \notin [order : {q.order : q \in Requests} \cup {KeyOrder(m) : m \in Relations},
                     values : Seq(Int)]
    /\ MaxResult \in Int /\ MaxResult >= 2
    /\ \A m \in Relations : \A c \in DOMAIN m.columns : m.columns[c].default \in Value
    /\ \A T \in FirstTables : IsFiniteSet(T) /\ \A r \in T : r \in [DOMAIN r -> Value]
    /\ \A b \in Batches : \A k \in DOMAIN b : b[k] \in [DOMAIN b[k] -> Value]
    /\ \A v \in Assignments : v \in [DOMAIN v -> Value]

VARIABLES
    relation, \* the metadata of the relation
    rows,     \* its rows: functions from columns to values
    request,  \* what the reader selects: [columns, filters, order]
    cursor,   \* its next_cursor: [order, values], or Nothing
    pages,    \* the pages received so far
    reading,  \* "open", "complete" or "rejected"
    lasting,  \* rows that have not changed since the first page; history
    seen,     \* client -> the key and the counter it read, or Nothing
    counted,  \* key -> acknowledged increments of its row; history
    doubted,  \* key -> increments that ended with a COMMIT in doubt; history
    writes

pageVars == <<cursor, pages, reading, lasting>>
dataVars == <<relation, rows, request, pageVars, seen, counted, doubted, writes>>

TableColumns == DOMAIN relation.columns
Unique(S) == \A k \in relation.uniqueKeys : \A r, s \in S :
    (\A c \in k : r[c] # Null /\ r[c] = s[c]) => r = s
NotNull(S) == \A r \in S : \A c \in TableColumns : relation.columns[c].notNull => r[c] # Null

-----------------------------------------------------------------------------
(* Conditions in the three-valued logic of SQL: "true", "false", "null".   *)
Truth(b) == IF b THEN "true" ELSE "false"

Condition(c, r) ==
    LET v == r[c.column] IN
    CASE c.operator = "is_null" -> Truth(v = Null)
      [] c.operator = "is_not_null" -> Truth(v # Null)
      [] c.operator \notin {"is_null", "is_not_null"} /\ v = Null -> "null"
      [] c.operator \in {"in", "like", "ilike"} /\ v # Null -> Truth(v \in c.value)
      [] c.operator = "not_in" /\ v # Null -> Truth(v \notin c.value)
      [] c.operator = "eq" /\ v # Null -> Truth(v = c.value)
      [] c.operator = "ne" /\ v # Null -> Truth(v # c.value)
      [] c.operator \in {"lt", "lte"} /\ v # Null ->
           Truth(v < c.value \/ (c.operator = "lte" /\ v = c.value))
      [] c.operator \in {"gt", "gte"} /\ v # Null ->
           Truth(v > c.value \/ (c.operator = "gte" /\ v = c.value))

(* (all_of joined by AND) AND (any_of joined by OR): a row is taken when   *)
(* the whole is true, so no null of an AND and not all of an OR.           *)
Matches(f, r) ==
    /\ \A c \in f.allOf : Condition(c, r) = "true"
    /\ f.anyOf # {} => \E c \in f.anyOf : Condition(c, r) = "true"

KnownFilters(f) == \A c \in f.allOf \cup f.anyOf : c.column \in TableColumns

-----------------------------------------------------------------------------
(* _load_metadata(): what the relation must be for the operation.          *)
Usable(privileges, writable) ==
    /\ relation.kind \in IF writable THEN {"r", "p"} ELSE {"r", "p", "v", "m", "f"}
    /\ privileges \subseteq relation.permitted

Projection(q) == IF q.columns = {} THEN TableColumns ELSE q.columns

(* _resolve_order(): the order of the request, or the primary key.         *)
Order(q) == IF q.order # <<>> THEN q.order ELSE KeyOrder(relation)

OrderColumns(order) == {order[k].column : k \in DOMAIN order}

StableOrder(order) ==
    /\ order # <<>>
    /\ \A c \in OrderColumns(order) : c \in TableColumns /\ relation.columns[c].notNull
    /\ \E k \in relation.uniqueKeys : k \subseteq OrderColumns(order)

Beyond(term, v, w) == IF term.direction = "asc" THEN v > w ELSE v < w

(* _after_cursor(): equal up to some column, and past the cursor in it.    *)
After(order, values, r) ==
    \E i \in DOMAIN order :
        /\ \A j \in 1..(i - 1) : r[order[j].column] = values[j]
        /\ Beyond(order[i], r[order[i].column], values[i])

OrderValues(order, r) == [k \in DOMAIN order |-> r[order[k].column]]

(* A cursor is bound to its order.  PageCursor.encode() does not take      *)
(* every value: not the types that it does not know, an interval for one,  *)
(* no float that is not finite, and not more than a token may hold.        *)
Cursor(order, r) == [order |-> order, values |-> OrderValues(order, r)]

TypeOf(term) == relation.columns[term.column].type

Encodable(order, r) ==
    LET size(k) == CursorSize(TypeOf(order[k]), OrderValues(order, r)[k]) IN
    /\ \A k \in DOMAIN order : size(k) # Nothing
    /\ MapThenSumSet(size, DOMAIN order) <= MaxCursor

(* What the columns are compared with on the next page.  A value goes      *)
(* through Python and JSON and back as a parameter of the type that it has *)
(* by then: that of a float4 is a double, next to the value of the row and *)
(* not equal to it, that of a jsonb is any text or number.                 *)
Bound(order, values) ==
    [k \in DOMAIN order |-> IF TypeOf(order[k]) \in InexactTypes
                             THEN Compared(TypeOf(order[k]), values[k]) ELSE values[k]]

ReturnsExactly(order) == \A k \in DOMAIN order : TypeOf(order[k]) \notin InexactTypes

(* PostgreSQL may refuse the comparison.                                   *)
Continues(token, order) ==
    /\ order # <<>> /\ token.order = order
    /\ Nothing \notin Range(Bound(order, token.values))

(* ORDER BY: a stable order leaves one way to list the rows.               *)
InOrder(S, order) ==
    CHOOSE s \in [1..Cardinality(S) -> S] :
        \A i, j \in DOMAIN s : i < j => After(order, OrderValues(order, s[i]), s[j])

(* The rows of the page and one more, if there is one.                     *)
Fetched(q, order, from, limit) ==
    LET taken == {r \in rows : Matches(q.filters, r)
                             /\ (from # Nothing => After(order, Bound(order, from.values), r))}
        sorted == InOrder(taken, order)
    IN SubSeq(sorted, 1, IF Len(sorted) > limit THEN limit + 1 ELSE Len(sorted))

(* _bounded_page_rows(): the largest prefix of the page within the bytes;  *)
(* 2 for the brackets and 1 for each comma.                                *)
PrefixBytes(columns, page, n) ==
    LET bytes == [k \in 1..n |-> BytesOf([c \in columns |-> page[k][c]])
                                   + (IF k = 1 THEN 0 ELSE 1)]
    IN 2 + MapThenSumSet(LAMBDA k : bytes[k], 1..n)

(* Wrong on purpose: what does not fit is the same as what is not there.   *)
SelectedUnflagged(q, from, limit) ==
    LET order == Order(q)
        fetched == Fetched(q, order, from, limit)
        fits == {n \in 0..(IF Len(fetched) > limit THEN limit ELSE Len(fetched)) :
                   n = 0 \/ PrefixBytes(Projection(q), fetched, n) <= MaxResult}
        more == Len(fetched) > limit
    IN [rows |-> SubSeq(fetched, 1, Max(fits)), truncated |-> more,
        next |-> IF more THEN Cursor(order, fetched[Max(fits)])
                 ELSE Nothing]

(* select(): the page that starts after a cursor.  The order columns that  *)
(* are not selected are fetched as well, for the next cursor.              *)
Selected(q, from, limit) ==
    LET order == Order(q)
        fetched == Fetched(q, order, from, limit)
        fits == {n \in 0..(IF Len(fetched) > limit THEN limit ELSE Len(fetched)) :
                   n = 0 \/ PrefixBytes(Projection(q), fetched, n) <= MaxResult}
        more == Max(fits) < Len(fetched)
    IN [rows |-> SubSeq(fetched, 1, Max(fits)), truncated |-> more,
        next |-> IF more /\ Max(fits) > 0
                 THEN Cursor(order, fetched[Max(fits)])
                 ELSE Nothing]

Selectable(q, from, limit) ==
    /\ Usable({"SELECT"}, FALSE)
    /\ q.columns \subseteq TableColumns /\ KnownFilters(q.filters)
    /\ StableOrder(Order(q))
    /\ from # Nothing => Continues(from, q.order)
    /\ Selected(q, from, limit).truncated =>
         /\ Selected(q, from, limit).rows # <<>>
         /\ Encodable(Order(q), Last(Selected(q, from, limit).rows))

(* The reader asks for the next page.  The order of the first page may be  *)
(* left to the primary key; with a cursor it has to be given.              *)
SelectPage(order, limit) ==
    LET q == [request EXCEPT !.order = order] page == Selected(q, cursor, limit) IN
    /\ reading = "open" /\ Len(pages) < MaxPages
    /\ pages = <<>> => order = request.order
    /\ IF ~ Selectable(q, cursor, limit)
       THEN reading' = "rejected" /\ UNCHANGED <<cursor, pages, lasting>>
       ELSE /\ pages' = Append(pages, page.rows)
            /\ cursor' = page.next
            /\ lasting' = IF pages = <<>> THEN rows ELSE lasting
            /\ reading' = IF page.truncated THEN "open" ELSE "complete"
    /\ UNCHANGED <<relation, rows, request, seen, counted, doubted, writes>>

-----------------------------------------------------------------------------
(* Mutations.  What a statement makes of the rows and how many it affects, *)
(* or Nothing when the request or PostgreSQL rejects it.                   *)
Writable(values) ==
    \A c \in values : /\ c \in TableColumns /\ ~ relation.columns[c].generated
                      /\ relation.columns[c].identity # "always"

Updatable(values) ==
    \A c \in values : /\ c \in TableColumns /\ ~ relation.columns[c].generated
                      /\ relation.columns[c].identity = "none"

(* _validate_insert_columns(): no required column is missing.              *)
Insertable(values) ==
    /\ Writable(values)
    /\ \A c \in TableColumns \ values : LET m == relation.columns[c] IN
         ~ m.notNull \/ m.default # Null \/ m.generated \/ m.identity # "none"

(* The columns that are not given have their default.                      *)
Completed(v) == [c \in TableColumns |-> IF c \in DOMAIN v THEN v[c]
                                   ELSE relation.columns[c].default]

(* Two equal rows would violate a key: the relations that are written to   *)
(* have one without nulls.                                                 *)
Effect(after, affected) ==
    IF Unique(after) /\ NotNull(after) THEN [rows |-> after, affected |-> affected]
    ELSE Nothing

Inserted(batch) ==
    LET new == {Completed(batch[k]) : k \in DOMAIN batch} IN
    IF ~ Usable({"INSERT"}, TRUE) \/ ~ Insertable(DOMAIN batch[1])
       \/ Cardinality(new) < Len(batch) \/ new \cap rows # {}
    THEN Nothing ELSE Effect(rows \cup new, Len(batch))

(* ON CONFLICT (key): the rows in the way are updated, or left alone.  A   *)
(* second row of the batch with the same key is left alone as well, and    *)
(* cannot be an update.                                                    *)
Upserted(batch, key, updated) ==
    LET same(r, n) == \A c \in key : r[c] # Null /\ r[c] = n[c]
        new(k) == Completed(batch[k])
        first == {k \in DOMAIN batch : \A j \in 1..(k - 1) : ~ same(new(j), new(k))}
        hits == {k \in first : \E r \in rows : same(r, new(k))}
        added == {new(k) : k \in first \ hits}
        set(r) == [c \in TableColumns |-> IF c \notin updated THEN r[c]
                      ELSE new(CHOOSE k \in hits : same(r, new(k)))[c]]
        hit == {r \in rows : \E k \in hits : same(r, new(k))}
    IN IF \/ ~ Usable({"INSERT", "UPDATE"}, TRUE)
          \/ ~ Insertable(DOMAIN batch[1]) \/ ~ Updatable(updated)
          \/ key \notin relation.uniqueKeys
          \/ ~ key \subseteq DOMAIN batch[1] \/ key \cap updated # {}
          \/ ~ NotNull({new(k) : k \in DOMAIN batch})
          \/ updated # {} /\ first # DOMAIN batch
       THEN Nothing
       ELSE IF updated = {} THEN Effect(rows \cup added, Cardinality(added))
       ELSE Effect((rows \ hit) \cup added \cup {set(r) : r \in hit}, Len(batch))

(* Wrong on purpose: the concurrency conditions are not part of WHERE.     *)
HitsByFilter(filters, concurrency) == {r \in rows : Matches(filters, r)}

Hits(filters, concurrency) ==
    {r \in rows : Matches(filters, r) /\ Matches(concurrency, r)}

Filterable(filters, concurrency) ==
    /\ filters.allOf \cup filters.anyOf # {}
    /\ KnownFilters(filters) /\ KnownFilters(concurrency)

Updated(values, filters, concurrency) ==
    LET hit == Hits(filters, concurrency)
        set(r) == [c \in TableColumns |-> IF c \in DOMAIN values THEN values[c] ELSE r[c]]
    IN IF ~ Usable({"UPDATE"}, TRUE) \/ ~ Updatable(DOMAIN values)
          \/ ~ Filterable(filters, concurrency)
          \/ Cardinality({set(r) : r \in hit}) < Cardinality(hit)
          \/ {set(r) : r \in hit} \cap (rows \ hit) # {}
       THEN Nothing
       ELSE Effect((rows \ hit) \cup {set(r) : r \in hit}, Cardinality(hit))

Deleted(filters, concurrency) ==
    LET hit == Hits(filters, concurrency) IN
    IF ~ Usable({"DELETE"}, TRUE) \/ ~ Filterable(filters, concurrency) THEN Nothing
    ELSE Effect(rows \ hit, Cardinality(hit))

(* _guarded_mutation(): otherwise the transaction is rolled back.          *)
Within(guard, affected) ==
    /\ guard.expected # Nothing => affected = guard.expected
    /\ affected <= guard.max

(* A mutation that is committed, whether or not its client is told: with   *)
(* the reply to COMMIT lost or the wait for it cancelled, it is not.  Any  *)
(* other mutation leaves everything as it was.                             *)
Commits(effect, guard) == effect # Nothing /\ Within(guard, effect.affected)

Mutate(effect, guard) ==
    /\ writes < MaxWrites /\ Commits(effect, guard)
    /\ rows' = effect.rows
    /\ lasting' = lasting \cap effect.rows
    /\ writes' = writes + 1
    /\ UNCHANGED <<relation, request, cursor, pages, reading>>

(* The count of a row begins when it is inserted; others do not write it.  *)
ForRows(count) == [k \in {r[Key] : r \in rows'} |->
                   IF k \in DOMAIN count THEN count[k] ELSE 0]

Recount == counted' = ForRows(counted) /\ doubted' = ForRows(doubted)

Insert(batch, guard) ==
    /\ Len(batch) <= guard.max
    /\ Mutate(Inserted(batch), guard)
    /\ Recount /\ UNCHANGED seen

Upsert(batch, key, updated, guard) ==
    /\ Len(batch) <= guard.max
    /\ Mutate(Upserted(batch, key, updated), guard)
    /\ Recount /\ UNCHANGED seen

Update(values, filters, concurrency, guard) ==
    /\ Mutate(Updated(values, filters, concurrency), guard)
    /\ Recount /\ UNCHANGED seen

Delete(filters, concurrency, guard) ==
    /\ Mutate(Deleted(filters, concurrency), guard)
    /\ Recount /\ UNCHANGED seen

(* A client that counts reads a row, and later updates it on the condition *)
(* that the counter is what it read; one row is expected to be affected.   *)
Read(c, r) ==
    /\ seen[c] = Nothing /\ r \in rows
    /\ seen' = [seen EXCEPT ![c] = [x \in {Key, Counter} |-> r[x]]]
    /\ UNCHANGED <<relation, rows, request, pageVars, counted, doubted, writes>>

Is(column, value) == [column |-> column, operator |-> "eq", value |-> value]

One == [max |-> 1, expected |-> 1]

Incremented(r) ==
    Updated([x \in {Counter} |-> r[Counter] + 1],
            [allOf |-> {Is(Key, r[Key])}, anyOf |-> {}],
            [allOf |-> {Is(Counter, r[Counter])}, anyOf |-> {}])

Forget(c) == seen[c] # Nothing /\ seen' = [seen EXCEPT ![c] = Nothing]
OneMore(count, r) == [count EXCEPT ![r[Key]] = @ + 1]

Increment(c) ==
    /\ Forget(c)
    /\ Mutate(Incremented(seen[c]), One)
    /\ counted' = OneMore(counted, seen[c]) /\ UNCHANGED doubted

(* "commit outcome is unknown", or a timeout or a cancellation while the   *)
(* client waits for COMMIT: it took effect or it did not.                  *)
IncrementInDoubt(c) ==
    /\ Forget(c) /\ Commits(Incremented(seen[c]), One)
    /\ \/ Mutate(Incremented(seen[c]), One)
       \/ /\ writes < MaxWrites /\ writes' = writes + 1
          /\ UNCHANGED <<relation, rows, request, pageVars>>
    /\ doubted' = OneMore(doubted, seen[c]) /\ UNCHANGED counted

(* The guard, or any failure before COMMIT.                                *)
RefuseIncrement(c) ==
    /\ Forget(c)
    /\ UNCHANGED <<relation, rows, request, pageVars, counted, doubted, writes>>

DataInit ==
    /\ relation \in Relations
    /\ rows \in FirstTables /\ (\A r \in rows : DOMAIN r = TableColumns) /\ Unique(rows) /\ NotNull(rows)
    /\ request \in Requests
    /\ cursor = Nothing /\ pages = <<>> /\ reading = "open" /\ lasting = {}
    /\ seen = [c \in Counters |-> Nothing]
    /\ counted = [k \in {r[Key] : r \in rows} |-> 0] /\ doubted = counted /\ writes = 0

DataNext ==
    \/ \E o \in Orders, n \in Limits : SelectPage(o, n)
    \/ \E g \in Guards :
         \/ \E b \in Batches :
              \/ Insert(b, g)
              \/ \E u \in SUBSET DOMAIN b[1], k \in relation.uniqueKeys : Upsert(b, k, u, g)
         \/ \E f, h \in Filters : Delete(f, h, g) \/ \E v \in Assignments : Update(v, f, h, g)
    \/ \E c \in Counters :
         Increment(c) \/ IncrementInDoubt(c) \/ RefuseIncrement(c) \/ \E r \in rows : Read(c, r)

-----------------------------------------------------------------------------
Received == UNION {Range(pages[k]) : k \in DOMAIN pages}

InOneOrder(order, k, l) ==
    \A i \in DOMAIN pages[k], j \in DOMAIN pages[l] :
        k < l \/ (k = l /\ i < j) => After(order, OrderValues(order, pages[k][i]), pages[l][j])

(* The pages together are in the order asked for, without a row twice, and *)
(* the last one, which says that nothing is left, comes only when every    *)
(* row was received that was there and unchanged from the first page on.   *)
PagesFollow(order) ==
    /\ \A k, l \in DOMAIN pages : InOneOrder(order, k, l)
    /\ reading = "complete" =>
         \A r \in lasting : Matches(request.filters, r) => r \in Received

(* However the rows change between the transactions of the pages, they are *)
(* exact together when the values of the order return from a cursor as     *)
(* they were; and in any order each page is in itself, with the rows that  *)
(* were asked for and within its limits.                                   *)
PagesAreExact ==
    LET order == Order(request) IN
    /\ ReturnsExactly(order) => PagesFollow(order)
    /\ \A k \in DOMAIN pages :
         /\ InOneOrder(order, k, k)
         /\ Len(pages[k]) <= Max(Limits)
         /\ PrefixBytes(Projection(request), pages[k], Len(pages[k])) <= MaxResult
         /\ \A r \in Range(pages[k]) : Matches(request.filters, r)

(* Clients that read a row and update it on the condition that it is as    *)
(* they read it, expecting one row, lose no acknowledged update, and none  *)
(* is done twice: the value is the number of acknowledgements since the    *)
(* row was inserted, and of some of the increments that ended in doubt.    *)
NoUpdateIsLost ==
    \A r \in rows : LET k == r[Key] IN
        counted[k] <= r[Counter] /\ r[Counter] <= counted[k] + doubted[k]
=============================================================================
