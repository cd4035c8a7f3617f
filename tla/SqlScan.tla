------------------------------- MODULE SqlScan -------------------------------
(***************************************************************************)
(* sql_for_validation() of sql/transaction.py: the scanner that replaces   *)
(* the client's placeholders before a statement is parsed, and has to find *)
(* by itself where strings, comments and dollar quotes end.  SQL text is a *)
(* sequence of symbols: "E" is an e of either case, "s" stands for the s,  *)
(* b and t of placeholders, "x" for the other letters and the underscore,  *)
(* "1" for the digits, "dq" for a double quote and "nl" for the end of a   *)
(* line.  Characters beyond ASCII are left out.                            *)
(***************************************************************************)
EXTENDS Integers, Sequences, FiniteSets

Letters == {"E", "s", "x"}
Digits == {"1"}
WordSymbols == Letters \cup Digits
Tag(sql, i, j) == SubSeq(sql, i, j)
Has(sql, i, s) == i + Len(s) - 1 <= Len(sql) /\ SubSeq(sql, i, i + Len(s) - 1) = s

(* The end of an opening $tag$ at i, or 0.                                 *)
DelimiterEnd(sql, i) ==
    LET ends == {j \in (i + 1)..Len(sql) :
                   sql[j] = "$" /\ \A k \in (i + 1)..(j - 1) : sql[k] \in WordSymbols}
    IN IF sql[i] = "$" /\ ends # {} THEN CHOOSE j \in ends : \A k \in ends : j <= k ELSE 0

Placeholder(sql, i) == Has(sql, i, <<"%", "s">>)
NamedPlaceholder(sql, i) == Has(sql, i, <<"%", "(">>)
LiteralPercent(sql, i) == Has(sql, i, <<"%", "%">>)

(* What the scanner takes for the inside of a name.                        *)
AfterName(sql, i) == i > 1 /\ sql[i - 1] \in WordSymbols \cup {"$"}

-----------------------------------------------------------------------------
(* The scanner: its place, its state and the placeholders replaced so far. *)
Begin == [at |-> 1, state |-> "normal", depth |-> 0, delimiter |-> <<>>, holes |-> {},
          named |-> FALSE]

Skip(s, n) == [s EXCEPT !.at = @ + n]
Enter(s, n, state) == [s EXCEPT !.at = @ + n, !.state = state]

InString(sql, s) ==
    IF s.state = "escape_single_quote" /\ sql[s.at] = "\\" /\ s.at < Len(sql) THEN Skip(s, 2)
    ELSE IF Has(sql, s.at, <<"'", "'">>) THEN Skip(s, 2)
    ELSE IF sql[s.at] = "'" THEN Enter(s, 1, "normal") ELSE Skip(s, 1)

InName(sql, s) ==
    IF Has(sql, s.at, <<"dq", "dq">>) THEN Skip(s, 2)
    ELSE IF sql[s.at] = "dq" THEN Enter(s, 1, "normal") ELSE Skip(s, 1)

InLineComment(sql, s) == IF sql[s.at] = "nl" THEN Enter(s, 1, "normal") ELSE Skip(s, 1)

(* Wrong on purpose: the first end closes the comment.                     *)
InFlatComment(sql, s) ==
    IF Has(sql, s.at, <<"*", "/">>) THEN Enter(s, 2, "normal") ELSE Skip(s, 1)

InBlockComment(sql, s) ==
    IF Has(sql, s.at, <<"/", "*">>) THEN [Skip(s, 2) EXCEPT !.depth = @ + 1]
    ELSE IF Has(sql, s.at, <<"*", "/">>)
    THEN [Skip(s, 2) EXCEPT !.depth = @ - 1, !.state = IF s.depth = 1 THEN "normal" ELSE @]
    ELSE Skip(s, 1)

InDollarQuote(sql, s) ==
    IF Has(sql, s.at, s.delimiter) THEN Enter(s, Len(s.delimiter), "normal") ELSE Skip(s, 1)

InNormal(sql, s) ==
    LET c == sql[s.at]
        end == DelimiterEnd(sql, s.at)
    IN IF Has(sql, s.at, <<"E", "'">>) /\ ~ AfterName(sql, s.at)
       THEN Enter(s, 2, "escape_single_quote")
       ELSE IF c = "'" THEN Enter(s, 1, "single_quote")
       ELSE IF c = "dq" THEN Enter(s, 1, "double_quote")
       ELSE IF Has(sql, s.at, <<"-", "-">>) THEN Enter(s, 2, "line_comment")
       ELSE IF Has(sql, s.at, <<"/", "*">>)
       THEN [Enter(s, 2, "block_comment") EXCEPT !.depth = 1]
       ELSE IF end # 0
       THEN [s EXCEPT !.at = end + 1, !.state = "dollar_quote", !.delimiter = Tag(sql, s.at, end)]
       ELSE IF LiteralPercent(sql, s.at) THEN Skip(s, 2)
       ELSE IF Placeholder(sql, s.at) THEN [Skip(s, 2) EXCEPT !.holes = @ \cup {s.at}]
       ELSE IF NamedPlaceholder(sql, s.at) THEN [Skip(s, 1) EXCEPT !.named = TRUE]
       ELSE Skip(s, 1)

ScanStep(sql, s) ==
    IF s.at > Len(sql) THEN s
    ELSE CASE s.state \in {"single_quote", "escape_single_quote"} -> InString(sql, s)
           [] s.state = "double_quote" -> InName(sql, s)
           [] s.state = "line_comment" -> InLineComment(sql, s)
           [] s.state = "block_comment" -> InBlockComment(sql, s)
           [] s.state = "dollar_quote" -> InDollarQuote(sql, s)
           [] s.state = "normal" -> InNormal(sql, s)

(* The scanner after each step, which takes a symbol or more.              *)
Scan(sql) ==
    LET scan[n \in 0..Len(sql)] == IF n = 0 THEN Begin ELSE ScanStep(sql, scan[n - 1])
    IN scan

(* sql_for_validation() with a number of parameters.                       *)
SqlForValidation(sql, parameters) ==
    LET s == Scan(sql)[Len(sql)]
    IN [ok |-> /\ s.state \in {"normal", "line_comment"} /\ ~ s.named
               /\ Cardinality(s.holes) = parameters,
        holes |-> s.holes]

-----------------------------------------------------------------------------
(* The reference, after the lexical rules of PostgreSQL and the client's   *)
(* placeholders: where the lexeme that starts at i ends; beyond the text   *)
(* when it is not terminated.                                              *)
Least(S, otherwise) == IF S = {} THEN otherwise ELSE CHOOSE j \in S : \A k \in S : j <= k

Backslashes(sql, from, j) ==
    Cardinality({k \in from..(j - 1) : \A m \in k..(j - 1) : sql[m] = "\\"})

(* Quotes of a string come in pairs; an odd run of backslashes escapes one. *)
QuoteEnd(sql, i, quote, escapes) ==
    LET unescaped(j) == sql[j] = quote /\ (escapes => Backslashes(sql, i + 1, j) % 2 = 0)
        quotes(j) == {k \in (i + 1)..j : unescaped(k)}
    IN Least({j \in (i + 1)..Len(sql) :
                /\ unescaped(j) /\ Cardinality(quotes(j)) % 2 = 1
                /\ j < Len(sql) => sql[j + 1] # quote}, Len(sql) + 1)

(* Where d nested comments that are open before j have ended.              *)
CommentEnds(sql) ==
    LET end[j \in 1..(Len(sql) + 2)] == [d \in Nat |->
          IF d = 0 THEN j - 1
          ELSE IF j > Len(sql) THEN Len(sql) + 1
          ELSE IF Has(sql, j, <<"/", "*">>) THEN end[j + 2][d + 1]
          ELSE IF Has(sql, j, <<"*", "/">>) THEN end[j + 2][d - 1]
          ELSE end[j + 1][d]]
    IN end

CommentEnd(sql, i) == CommentEnds(sql)[i + 2][1]

DollarEnd(sql, i, open) ==
    LET tag == SubSeq(sql, i, open) IN
    Least({j \in (open + Len(tag))..Len(sql) : SubSeq(sql, j - Len(tag) + 1, j) = tag},
          Len(sql) + 1)

(* The tag of a dollar quote starts as a name does.                        *)
TagEnd(sql, i) == IF i < Len(sql) /\ sql[i + 1] \in Digits THEN 0 ELSE DelimiterEnd(sql, i)

(* A name goes on over dollar signs, a number does not.                    *)
GoesOnWith(sql, i) == WordSymbols \cup (IF sql[i] \in Letters THEN {"$"} ELSE {})
NameEnd(sql, i) ==
    Least({j \in i..Len(sql) : j = Len(sql) \/ sql[j + 1] \notin GoesOnWith(sql, i)}, i)

LineEnd(sql, i) == Least({j \in i..Len(sql) : sql[j] = "nl" \/ j = Len(sql)}, i)

LexemeEnd(sql, i) ==
    CASE Has(sql, i, <<"E", "'">>) -> QuoteEnd(sql, i + 1, "'", TRUE)
      [] sql[i] \in WordSymbols /\ ~ Has(sql, i, <<"E", "'">>) -> NameEnd(sql, i)
      [] sql[i] \in {"'", "dq"} -> QuoteEnd(sql, i, sql[i], FALSE)
      [] Has(sql, i, <<"-", "-">>) -> LineEnd(sql, i)
      [] Has(sql, i, <<"/", "*">>) -> CommentEnd(sql, i)
      [] TagEnd(sql, i) # 0 -> DollarEnd(sql, i, TagEnd(sql, i))
      [] Placeholder(sql, i) \/ LiteralPercent(sql, i) -> i + 1
      [] OTHER -> i

(* Where the lexemes of the text from i on start.                          *)
LexemesFrom(sql) ==
    LET from[i \in 1..(Len(sql) + 2)] ==
          IF i > Len(sql) THEN {} ELSE {i} \cup from[LexemeEnd(sql, i) + 1]
    IN from

LexemeStarts(sql) == LexemesFrom(sql)[1]

(* Where PostgreSQL would meet a parameter, and whether the text ends well  *)
(* and has no named one.                                                    *)
Lexed(sql) ==
    [ok |-> \A i \in LexemeStarts(sql) :
              LexemeEnd(sql, i) <= Len(sql) /\ ~ NamedPlaceholder(sql, i),
     holes |-> {i \in LexemeStarts(sql) : Placeholder(sql, i)}]

(* Where the two differ: the scanner takes a dollar sign within a name for *)
(* the start of a dollar quote, and digits for its tag; it takes a digit,  *)
(* a dollar sign or a placeholder before the E of an escape string for the *)
(* name that the E ends; and it takes a string for a plain one when it     *)
(* stands on a later line than an escape string and continues it.          *)
DollarInName(sql) ==
    \E i \in LexemeStarts(sql) :
        /\ sql[i] \in Letters /\ ~ Has(sql, i, <<"E", "'">>)
        /\ \E k \in i..NameEnd(sql, i) : sql[k] = "$"

TagOfDigits(sql) == \E i \in LexemeStarts(sql) : TagEnd(sql, i) # DelimiterEnd(sql, i)

HiddenEscape(sql) ==
    \E i \in LexemeStarts(sql) : Has(sql, i, <<"E", "'">>) /\ AfterName(sql, i)

ContinuedEscape(sql) ==
    LET between(i, j) == {k \in LexemeStarts(sql) : i < k /\ k < j} IN
    \E i, j \in LexemeStarts(sql) :
        /\ Has(sql, i, <<"E", "'">>) /\ sql[j] = "'"
        /\ \E k \in between(i, j) : sql[k] # " "
        /\ \A k \in between(i, j) : sql[k] \in {" ", "nl"} \/ Has(sql, k, <<"-", "-">>)

(* Elsewhere, a statement is accepted exactly when all its quotes and      *)
(* comments end and it has one positional placeholder for each parameter,  *)
(* and what is replaced is what PostgreSQL would read as a parameter, so   *)
(* that the text that is validated has the structure of the text that is   *)
(* executed.                                                               *)
ScannerAgrees(sql) ==
    ~ DollarInName(sql) /\ ~ TagOfDigits(sql) /\ ~ HiddenEscape(sql) /\ ~ ContinuedEscape(sql) =>
        LET lexed == Lexed(sql)
            count == Cardinality(lexed.holes)
            scanned == SqlForValidation(sql, count)
        IN /\ scanned.ok = lexed.ok
           /\ scanned.ok => scanned.holes = lexed.holes
           /\ ~ SqlForValidation(sql, count + 1).ok
=============================================================================
