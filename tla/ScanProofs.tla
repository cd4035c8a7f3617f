----------------------------- MODULE ScanProofs -----------------------------
(***************************************************************************)
(* Theorems about the scanner of SqlScan, for any text over any symbols:   *)
(* it reads the text as the lexical rules of PostgreSQL do.                *)
(*                                                                         *)
(* The scanner goes from symbol to symbol, and the rules say where each    *)
(* lexeme ends.  ScanInv relates the two: the scanner is where a lexeme    *)
(* begins, or within one whose end the rules put at or behind its place,   *)
(* and the placeholders it has found are those of the lexemes before.      *)
(***************************************************************************)
EXTENDS SqlScan, FiniteSetTheorems, SequenceTheorems, SumTheorems, TLAPS

(* Two symbols.                                                            *)
LEMMA HasTwo ==
    ASSUME NEW S, NEW sql \in Seq(S), NEW i \in 1..(Len(sql) + 1), NEW a, NEW b
    PROVE  Has(sql, i, <<a, b>>) <=> i < Len(sql) /\ sql[i] = a /\ sql[i + 1] = b
<1>1. Len(<<a, b>>) = 2 /\ <<a, b>>[1] = a /\ <<a, b>>[2] = b
  OBVIOUS
<1>2. Has(sql, i, <<a, b>>) <=> i < Len(sql) /\ SubSeq(sql, i, i + 1) = <<a, b>>
  BY <1>1, LenProperties DEF Has
<1>3. ASSUME i < Len(sql)
      PROVE  SubSeq(sql, i, i + 1) = <<a, b>> <=> sql[i] = a /\ sql[i + 1] = b
  <2> DEFINE t == SubSeq(sql, i, i + 1)
  <2>1. \A k \in i..(i + 1) : sql[k] \in S
    BY <1>3, ElementOfSeq, LenProperties
  <2>2. t \in Seq(S) /\ Len(t) = 2 /\ \A k \in 1..2 : t[k] = sql[i + k - 1]
    BY <2>1, SubSeqProperties, LenProperties
  <2>3. t[1] = sql[i] /\ t[2] = sql[i + 1]
    BY <2>2
  <2>4. t = <<t[1], t[2]>>
    <3>1. t[1] \in S /\ t[2] \in S
      BY <2>2, ElementOfSeq
    <3>2. PICK u : u = <<t[1], t[2]>>
      OBVIOUS
    <3>3. u \in Seq(S) /\ Len(u) = 2 /\ u[1] = t[1] /\ u[2] = t[2]
      BY <3>1, <3>2
    <3> HIDE DEF t
    <3>4. \A k \in 1..Len(t) : t[k] = u[k]
      BY <2>2, <3>3
    <3> QED
      BY <2>2, <3>2, <3>3, <3>4, SeqEqual
  <2> HIDE DEF t
  <2>5. t = <<a, b>> <=> t[1] = a /\ t[2] = b
    BY <2>4, <1>1
  <2> QED
    BY <2>3, <2>5 DEF t
<1> QED
  BY <1>2, <1>3

(* The least element of a set of places.                                   *)
LEMMA LeastPlace ==
    ASSUME NEW m \in Int, NEW n \in Int, NEW B, B \subseteq m..n, B # {}
    PROVE  \E j \in B : \A k \in B : j <= k
<1> DEFINE C == {m..k : k \in B}
<1>1. IsFiniteSet(m..n)
  BY FS_Interval
<1>2. C \subseteq SUBSET (m..n) /\ C # {}
  <2>1. \A k \in B : m..k \subseteq m..n
    OBVIOUS
  <2> QED
    BY <2>1, Zenon
<1> HIDE DEF C
<1>3. PICK D : D = m..n
  OBVIOUS
<1>4. \E c \in C : \A d \in C : d \subseteq c => d = c
  <2>1. IsFiniteSet(D) /\ C \subseteq SUBSET D /\ C # {}
    BY <1>1, <1>2, <1>3
  <2> QED
    BY ONLY <2>1, MinimalSubset
<1>5. PICK c \in C : \A d \in C : d \subseteq c => d = c
  BY <1>4
<1>6. PICK j \in B : c = m..j
  BY <1>5 DEF C
<1>7. ASSUME NEW k \in B PROVE j <= k
  <2>1. SUFFICES ASSUME k < j PROVE FALSE
    OBVIOUS
  <2>2. m..k \in C /\ m..k \subseteq c /\ j \in c /\ ~ (j \in m..k)
    BY <2>1, <1>6 DEF C
  <2> QED
    BY <1>5, <2>2
<1> QED
  BY <1>7

LEMMA LeastIs ==
    ASSUME NEW m \in Int, NEW n \in Int, NEW B, B \subseteq m..n, NEW otherwise
    PROVE  /\ B = {} => Least(B, otherwise) = otherwise
           /\ B # {} => Least(B, otherwise) \in B /\ \A k \in B : Least(B, otherwise) <= k
<1>1. B # {} => \E j \in B : \A k \in B : j <= k
  BY LeastPlace
<1> QED
  BY <1>1 DEF Least

LEMMA LeastFound ==
    ASSUME NEW m \in Int, NEW n \in Int, NEW B, B \subseteq m..n, NEW otherwise,
           NEW j \in B, \A k \in B : j <= k
    PROVE  Least(B, otherwise) = j
<1>1. Least(B, otherwise) \in B /\ Least(B, otherwise) <= j
  BY LeastIs
<1> DEFINE l == Least(B, otherwise)
<1> HIDE DEF l
<1>2. l \in B /\ l <= j
  BY <1>1 DEF l
<1>3. j <= l /\ j \in Int /\ l \in Int
  BY <1>2
<1> QED
  BY <1>2, <1>3 DEF l

(* Induction along the places of a text, forwards and backwards.           *)
LEMMA Forwards ==
    ASSUME NEW m \in Int, NEW n \in Int, NEW G, m \in G,
           \A k \in m..(n - 1) : k \in G => k + 1 \in G
    PROVE  \A k \in m..n : k \in G
<1>1. SUFFICES ASSUME (m..n) \ G # {} PROVE FALSE
  OBVIOUS
<1>2. PICK B : B = (m..n) \ G
  OBVIOUS
<1>3. PICK j \in B : \A k \in B : j <= k
  BY <1>1, <1>2, LeastPlace
<1>4. j \in m..n /\ j # m /\ j - 1 \in m..(n - 1)
  BY <1>2, <1>3
<1>5. ~ (j - 1 \in B)
  BY <1>3, <1>4
<1>6. j \in G
  BY <1>2, <1>4, <1>5
<1> QED
  BY <1>2, <1>3, <1>6

LEMMA Backwards ==
    ASSUME NEW n \in Int, NEW G, n \in G, \A k \in 1..(n - 1) : k + 1 \in G => k \in G
    PROVE  \A k \in 1..n : k \in G
<1> DEFINE H == {k \in (-n)..(-1) : -k \in G}
<1>1. CASE 1 <= n
  <2>1. -n \in H
    BY <1>1
  <2>2. \A k \in (-n)..(-2) : k \in H => k + 1 \in H
    <3>1. TAKE k \in (-n)..(-2)
    <3>2. HAVE k \in H
    <3>3. -k - 1 \in 1..(n - 1) /\ (-k - 1) + 1 \in G /\ -(k + 1) = -k - 1
      BY <3>1, <3>2
    <3> QED
      BY <3>3
  <2> HIDE DEF H
  <2>3. PICK a \in Int : a = -n
    OBVIOUS
  <2>4. PICK b \in Int : b = -1
    OBVIOUS
  <2>5. \A k \in a..b : k \in H
    <3>1. a \in H /\ \A k \in a..(b - 1) : k \in H => k + 1 \in H
      BY <2>1, <2>2, <2>3, <2>4
    <3> QED
      BY <3>1, Forwards
  <2>6. ASSUME NEW k \in 1..n PROVE k \in G
    <3>1. -k \in a..b /\ -(-k) = k
      BY <2>3, <2>4
    <3> QED
      BY <2>5, <3>1 DEF H
  <2> QED
    BY <2>6
<1> QED
  BY <1>1

(* The scanner's recursion has a solution, so that Scan satisfies it.      *)
IsScan(f, sql, m) ==
    f = [n \in 0..m |-> IF n = 0 THEN Begin ELSE ScanStep(sql, f[n - 1])]

LEMMA ScanUnfolds ==
    ASSUME NEW sql, Len(sql) \in Nat
    PROVE  /\ Scan(sql)[0] = Begin
           /\ \A n \in 1..Len(sql) : Scan(sql)[n] = ScanStep(sql, Scan(sql)[n - 1])
<1> DEFINE G == {m \in Nat : \E f : IsScan(f, sql, m)}
<1>1. 0 \in G
  <2>1. PICK f : f = [n \in 0..0 |-> Begin]
    OBVIOUS
  <2>2. f = [n \in 0..0 |-> IF n = 0 THEN Begin ELSE ScanStep(sql, f[n - 1])]
    BY <2>1
  <2> QED
    BY <2>2 DEF IsScan
<1>2. ASSUME NEW m \in 0..(Len(sql) - 1), m \in G PROVE m + 1 \in G
  <2>1. PICK f : IsScan(f, sql, m)
    BY <1>2
  <2>2. PICK g : g = [n \in 0..(m + 1) |-> IF n = m + 1 THEN ScanStep(sql, f[m]) ELSE f[n]]
    OBVIOUS
  <2>3. \A n \in 0..m : f[n] = IF n = 0 THEN Begin ELSE ScanStep(sql, f[n - 1])
    BY <2>1 DEF IsScan
  <2>4. \A n \in 0..m : g[n] = f[n]
    BY <2>2
  <2>5. \A n \in 0..(m + 1) :
          g[n] = IF n = 0 THEN Begin ELSE ScanStep(sql, g[n - 1])
    <3>1. TAKE n \in 0..(m + 1)
    <3>2. CASE n = m + 1
      <4>1. n - 1 = m /\ n # 0 /\ m \in 0..m
        BY <3>2
      <4>2. g[n] = ScanStep(sql, f[m]) /\ g[m] = f[m]
        BY <2>2, <2>4, <3>2, <4>1
      <4> QED
        BY <4>1, <4>2
    <3>3. CASE n # m + 1 /\ n # 0
      <4>1. n \in 0..m /\ n - 1 \in 0..m
        BY <3>3
      <4> QED
        BY <2>3, <2>4, <3>3, <4>1
    <3>4. CASE n # m + 1 /\ n = 0
      <4>1. n \in 0..m
        BY <3>4
      <4> QED
        BY <2>3, <2>4, <3>4, <4>1
    <3> QED
      BY <3>2, <3>3, <3>4
  <2>6. IsScan(g, sql, m + 1)
    BY <2>2, <2>5, Zenon DEF IsScan
  <2> QED
    BY <2>6
<1> HIDE DEF G
<1>3. \A m \in 0..Len(sql) : m \in G
  <2>1. PICK n \in Int : n = Len(sql)
    OBVIOUS
  <2>2. 0 \in G /\ \A m \in 0..(n - 1) : m \in G => m + 1 \in G
    BY <1>1, <1>2, <2>1
  <2>3. \A m \in 0..n : m \in G
    BY <2>2, Forwards
  <2> QED
    BY <2>1, <2>3
<1>4. \E f : IsScan(f, sql, Len(sql))
  BY <1>3 DEF G
<1>5. Scan(sql) = CHOOSE f : IsScan(f, sql, Len(sql))
  BY DEF Scan, IsScan
<1>6. IsScan(Scan(sql), sql, Len(sql))
  BY <1>4, <1>5
<1>7. PICK f : f = Scan(sql)
  OBVIOUS
<1>8. \A n \in 0..Len(sql) : f[n] = IF n = 0 THEN Begin ELSE ScanStep(sql, f[n - 1])
  BY <1>6, <1>7 DEF IsScan
<1>9. 0 \in 0..Len(sql) /\ \A n \in 1..Len(sql) : n \in 0..Len(sql) /\ n # 0
  OBVIOUS
<1> QED
  BY <1>7, <1>8, <1>9, Zenon

(* So has that of the ends of nested comments, and none ends before it     *)
(* begins.                                                                 *)
EndsStep(f, sql, j, d) ==
    IF d = 0 THEN j - 1
    ELSE IF j > Len(sql) THEN Len(sql) + 1
    ELSE IF Has(sql, j, <<"/", "*">>) THEN f[j + 2][d + 1]
    ELSE IF Has(sql, j, <<"*", "/">>) THEN f[j + 2][d - 1]
    ELSE f[j + 1][d]
AreEnds(f, sql, m) == f = [j \in m..(Len(sql) + 2) |-> [d \in Nat |-> EndsStep(f, sql, j, d)]]

LEMMA EndsExist ==
    ASSUME NEW sql, Len(sql) \in Nat
    PROVE  \E f : AreEnds(f, sql, 1)
<1> DEFINE L == Len(sql)
           G == {m \in 1..(L + 1) : \E f : AreEnds(f, sql, m)}
<1>1. L + 1 \in G
  <2> DEFINE f == [j \in (L + 1)..(L + 2) |-> [d \in Nat |-> IF d = 0 THEN j - 1 ELSE L + 1]]
  <2>1. \A j \in (L + 1)..(L + 2) :
           [d \in Nat |-> IF d = 0 THEN j - 1 ELSE L + 1] = [d \in Nat |-> EndsStep(f, sql, j, d)]
    BY DEF EndsStep
  <2>2. AreEnds(f, sql, L + 1)
    BY <2>1, Zenon DEF AreEnds
  <2> HIDE DEF f
  <2> QED
    BY <2>2
<1>2. ASSUME NEW m \in 1..L, m + 1 \in G PROVE m \in G
  <2>1. PICK g : AreEnds(g, sql, m + 1)
    BY <1>2
  <2> DEFINE f == [j \in m..(L + 2) |->
                     IF j = m THEN [d \in Nat |-> EndsStep(g, sql, m, d)] ELSE g[j]]
  <2>2. \A j \in (m + 1)..(L + 2) : f[j] = g[j]
    OBVIOUS
  <2>3. \A j \in m..(L + 2) : \A d \in Nat : EndsStep(f, sql, j, d) = EndsStep(g, sql, j, d)
    <3>1. TAKE j \in m..(L + 2)
    <3>2. TAKE d \in Nat
    <3> HIDE DEF f
    <3>3. CASE j > L
      BY <3>3 DEF EndsStep
    <3>4. CASE j <= L
      <4>1. j + 1 \in (m + 1)..(L + 2) /\ j + 2 \in (m + 1)..(L + 2)
        BY <3>4
      <4>2. f[j + 1] = g[j + 1] /\ f[j + 2] = g[j + 2]
        BY <2>2, <4>1
      <4> QED
        BY <4>2 DEF EndsStep
    <3> QED
      BY <3>3, <3>4
  <2>4. \A j \in m..(L + 2) : f[j] = [d \in Nat |-> EndsStep(g, sql, j, d)]
    <3>1. TAKE j \in m..(L + 2)
    <3>2. CASE j = m
      BY <3>2
    <3>3. CASE j # m
      <4>1. j \in (m + 1)..(L + 2)
        BY <3>3
      <4> HIDE DEF f
      <4>2. g[j] = [d \in Nat |-> EndsStep(g, sql, j, d)]
        BY <2>1, <4>1, Zenon DEF AreEnds
      <4> QED
        BY <2>2, <4>1, <4>2
    <3> QED
      BY <3>2, <3>3
  <2>5. f = [j \in m..(L + 2) |-> f[j]]
    BY Zenon
  <2> HIDE DEF f
  <2>6. \A j \in m..(L + 2) : f[j] = [d \in Nat |-> EndsStep(f, sql, j, d)]
    BY <2>3, <2>4, Zenon
  <2>7. AreEnds(f, sql, m)
    BY <2>5, <2>6, Zenon DEF AreEnds
  <2> QED
    BY <2>7
<1>3. \A m \in 1..((L + 1) - 1) : m + 1 \in G => m \in G
  BY <1>2
<1>4. L + 1 \in Int
  OBVIOUS
<1> HIDE DEF G, L
<1>5. \A m \in 1..(L + 1) : m \in G
  BY ONLY <1>1, <1>3, <1>4, Backwards
<1>6. 1 \in G
  BY <1>5 DEF L
<1> QED
  BY <1>6 DEF G

LEMMA CommentEndsUnfold ==
    ASSUME NEW S, NEW sql \in Seq(S)
    PROVE  \A j \in 1..(Len(sql) + 1), d \in Nat :
              /\ CommentEnds(sql)[j][d] = EndsStep(CommentEnds(sql), sql, j, d)
              /\ CommentEnds(sql)[j][d] \in (j - 1)..(Len(sql) + 1)
<1> DEFINE L == Len(sql)
<1>0. L \in Nat
  BY LenProperties
<1>1. CommentEnds(sql) = CHOOSE f : AreEnds(f, sql, 1)
  BY DEF CommentEnds, AreEnds, EndsStep
<1>2. \E f : AreEnds(f, sql, 1)
  BY <1>0, EndsExist
<1>3. PICK f : f = CommentEnds(sql)
  OBVIOUS
<1>4. AreEnds(f, sql, 1)
  BY <1>1, <1>2, <1>3
<1>5. \A j \in 1..(L + 2) : f[j] = [d \in Nat |-> EndsStep(f, sql, j, d)]
  BY <1>4, Zenon DEF AreEnds
<1>6. \A j \in 1..(L + 2) : \A d \in Nat : f[j][d] = EndsStep(f, sql, j, d)
  BY <1>5
<1> DEFINE G == {m \in 1..(L + 1) :
                   \A j \in m..(L + 1), d \in Nat : f[j][d] \in (j - 1)..(L + 1)}
<1>7. L + 1 \in G
  <2>1. \A j \in (L + 1)..(L + 1) : \A d \in Nat : f[j][d] \in (j - 1)..(L + 1)
    <3>1. TAKE j \in (L + 1)..(L + 1)
    <3>2. TAKE d \in Nat
    <3>3. f[j][d] = EndsStep(f, sql, j, d) /\ j = L + 1
      BY <1>0, <1>6
    <3> QED
      BY <1>0, <3>3 DEF EndsStep
  <2> QED
    BY <1>0, <2>1
<1>8. \A m \in 1..((L + 1) - 1) : m + 1 \in G => m \in G
  <2>1. TAKE m \in 1..((L + 1) - 1)
  <2>2. HAVE m + 1 \in G
  <2>3. \A d \in Nat : f[m][d] \in (m - 1)..(L + 1)
    <3>1. TAKE d \in Nat
    <3>2. m \in 1..(L + 1) /\ m \in 1..(L + 2) /\ m <= L
      BY <1>0
    <3>3. f[m][d] = EndsStep(f, sql, m, d)
      BY <1>6, <3>2
    <3>4. CASE d = 0
      BY <1>0, <3>3, <3>4 DEF EndsStep
    <3>5. CASE d # 0 /\ ~ Has(sql, m, <<"/", "*">>) /\ ~ Has(sql, m, <<"*", "/">>)
      <4>1. EndsStep(f, sql, m, d) = f[m + 1][d] /\ m + 1 \in (m + 1)..(L + 1)
        BY <1>0, <3>2, <3>5 DEF EndsStep
      <4> QED
        BY <1>0, <2>2, <3>3, <4>1
    <3>6. CASE d # 0 /\ Has(sql, m, <<"/", "*">>)
      <4>1. m < L
        BY <3>2, <3>6, HasTwo
      <4>2. EndsStep(f, sql, m, d) = f[m + 2][d + 1] /\ m + 2 \in (m + 1)..(L + 1) /\ d + 1 \in Nat
        BY <1>0, <3>2, <3>6, <4>1 DEF EndsStep
      <4> QED
        BY <1>0, <2>2, <3>3, <4>2
    <3>7. CASE d # 0 /\ ~ Has(sql, m, <<"/", "*">>) /\ Has(sql, m, <<"*", "/">>)
      <4>1. m < L
        BY <3>2, <3>7, HasTwo
      <4>2. EndsStep(f, sql, m, d) = f[m + 2][d - 1] /\ m + 2 \in (m + 1)..(L + 1) /\ d - 1 \in Nat
        BY <1>0, <3>2, <3>7, <4>1 DEF EndsStep
      <4> QED
        BY <1>0, <2>2, <3>3, <4>2
    <3> QED
      BY <3>4, <3>5, <3>6, <3>7
  <2> QED
    BY <1>0, <2>2, <2>3
<1> HIDE DEF G
<1>9. \A m \in 1..(L + 1) : m \in G
  <2>1. L + 1 \in Int
    BY <1>0
  <2> HIDE DEF L
  <2> QED
    BY ONLY <1>7, <1>8, <2>1, Backwards
<1>10. \A j \in 1..(L + 1), d \in Nat : f[j][d] \in (j - 1)..(L + 1)
  <2>1. 1 \in G
    BY <1>0, <1>9
  <2> QED
    BY <2>1 DEF G
<1>11. \A j \in 1..(L + 1) : j \in 1..(L + 2)
  BY <1>0
<1>12. \A j \in 1..(L + 1), d \in Nat : f[j][d] = EndsStep(f, sql, j, d)
  BY <1>6, <1>11
<1> HIDE DEF L
<1>13. \A j \in 1..(L + 1), d \in Nat :
         f[j][d] = EndsStep(f, sql, j, d) /\ f[j][d] \in (j - 1)..(L + 1)
  BY <1>10, <1>12
<1> QED
  BY <1>3, <1>13, Zenon DEF L

(* How a lexeme ends, by what it begins with.                              *)
OpensEscape(sql, i) == Has(sql, i, <<"E", "'">>)
OpensName(sql, i) == sql[i] \in WordSymbols /\ ~ OpensEscape(sql, i)
OpensLine(sql, i) == Has(sql, i, <<"-", "-">>)
OpensComment(sql, i) == Has(sql, i, <<"/", "*">>)
OpensDollar(sql, i) == TagEnd(sql, i) # 0
OpensPercent(sql, i) == Placeholder(sql, i) \/ LiteralPercent(sql, i)
OpensNothing(sql, i) ==
    /\ ~ OpensEscape(sql, i) /\ ~ OpensName(sql, i) /\ ~ OpensLine(sql, i)
    /\ ~ OpensComment(sql, i) /\ ~ OpensDollar(sql, i) /\ ~ OpensPercent(sql, i)
    /\ sql[i] \notin {"'", "dq"}

(* The symbols that lexemes open with.                                     *)
LEMMA Openers ==
    ASSUME NEW S, NEW sql \in Seq(S), NEW i \in 1..Len(sql)
    PROVE  /\ OpensEscape(sql, i) => sql[i] = "E" /\ i < Len(sql)
           /\ OpensLine(sql, i) => sql[i] = "-" /\ i < Len(sql)
           /\ OpensComment(sql, i) => sql[i] = "/" /\ i < Len(sql)
           /\ Placeholder(sql, i) => sql[i] = "%" /\ sql[i + 1] = "s" /\ i < Len(sql)
           /\ LiteralPercent(sql, i) => sql[i] = "%" /\ sql[i + 1] = "%" /\ i < Len(sql)
           /\ NamedPlaceholder(sql, i) => sql[i] = "%" /\ sql[i + 1] = "(" /\ i < Len(sql)
<1>1. i \in 1..(Len(sql) + 1)
  BY LenProperties
<1> QED
  BY <1>1, HasTwo
  DEF OpensEscape, OpensLine, OpensComment, Placeholder, LiteralPercent, NamedPlaceholder

LEMMA DelimiterIs ==
    ASSUME NEW sql, Len(sql) \in Nat, NEW i \in 1..Len(sql), OpensDollar(sql, i)
    PROVE  /\ sql[i] = "$" /\ TagEnd(sql, i) \in (i + 1)..Len(sql)
           /\ sql[TagEnd(sql, i)] = "$"
<1> DEFINE ends == {j \in (i + 1)..Len(sql) :
                      sql[j] = "$" /\ \A k \in (i + 1)..(j - 1) : sql[k] \in WordSymbols}
           e == CHOOSE j \in ends : \A k \in ends : j <= k
<1>1. DelimiterEnd(sql, i) = IF sql[i] = "$" /\ ends # {} THEN e ELSE 0
  BY Zenon DEF DelimiterEnd
<1>2. sql[i] = "$" /\ ends # {} /\ TagEnd(sql, i) = e
  <2>1. TagEnd(sql, i) = DelimiterEnd(sql, i) /\ DelimiterEnd(sql, i) # 0
    BY DEF OpensDollar, TagEnd
  <2> HIDE DEF e, ends
  <2> QED
    BY <1>1, <2>1
<1>3. ends \subseteq (i + 1)..Len(sql)
  OBVIOUS
<1>4. \A j \in ends : j \in (i + 1)..Len(sql) /\ sql[j] = "$"
  OBVIOUS
<1> HIDE DEF ends
<1>5. \E j \in ends : \A k \in ends : j <= k
  <2>1. PICK m \in Int : m = i + 1
    OBVIOUS
  <2>2. PICK n \in Int : n = Len(sql)
    OBVIOUS
  <2>3. ends \subseteq m..n /\ ends # {}
    BY <1>2, <1>3, <2>1, <2>2
  <2> QED
    BY <2>3, LeastPlace
<1>6. e \in ends
  BY <1>5
<1> QED
  BY <1>2, <1>4, <1>6

LEMMA LexemeEndIs ==
    ASSUME NEW S, NEW sql \in Seq(S), NEW i \in 1..Len(sql)
    PROVE  /\ OpensEscape(sql, i) => LexemeEnd(sql, i) = QuoteEnd(sql, i + 1, "'", TRUE)
           /\ OpensName(sql, i) => LexemeEnd(sql, i) = NameEnd(sql, i)
           /\ sql[i] = "'" => LexemeEnd(sql, i) = QuoteEnd(sql, i, "'", FALSE)
           /\ sql[i] = "dq" => LexemeEnd(sql, i) = QuoteEnd(sql, i, "dq", FALSE)
           /\ OpensLine(sql, i) => LexemeEnd(sql, i) = LineEnd(sql, i)
           /\ OpensComment(sql, i) => LexemeEnd(sql, i) = CommentEnd(sql, i)
           /\ OpensDollar(sql, i) =>
                LexemeEnd(sql, i) = DollarEnd(sql, i, TagEnd(sql, i))
           /\ OpensPercent(sql, i) => LexemeEnd(sql, i) = i + 1
           /\ OpensNothing(sql, i) => LexemeEnd(sql, i) = i
<1>0. Len(sql) \in Nat
  BY LenProperties
<1>1. /\ OpensEscape(sql, i) => sql[i] = "E"
      /\ OpensLine(sql, i) => sql[i] = "-"
      /\ OpensComment(sql, i) => sql[i] = "/"
      /\ OpensPercent(sql, i) => sql[i] = "%"
  BY Openers DEF OpensPercent
<1>2. OpensDollar(sql, i) => sql[i] = "$"
  BY <1>0, DelimiterIs
<1> USE <1>1, <1>2
        DEF LexemeEnd, Letters, Digits, WordSymbols, OpensEscape, OpensName, OpensLine,
            OpensComment, OpensDollar, OpensPercent, OpensNothing
<1>3. CASE OpensEscape(sql, i)
  BY <1>3
<1>4. CASE OpensName(sql, i)
  BY <1>4
<1>5. CASE sql[i] = "'"
  BY <1>5
<1>6. CASE sql[i] = "dq"
  BY <1>6
<1>7. CASE OpensLine(sql, i)
  BY <1>7
<1>8. CASE OpensComment(sql, i)
  BY <1>8
<1>9. CASE OpensDollar(sql, i)
  BY <1>9
<1>10. CASE OpensNothing(sql, i)
  BY <1>10
<1>12. CASE OpensPercent(sql, i)
  BY <1>12
<1>11. \/ OpensEscape(sql, i) \/ OpensName(sql, i) \/ sql[i] = "'" \/ sql[i] = "dq"
       \/ OpensLine(sql, i) \/ OpensComment(sql, i) \/ OpensDollar(sql, i)
       \/ OpensPercent(sql, i) \/ OpensNothing(sql, i)
  OBVIOUS
<1> QED
  BY <1>3, <1>4, <1>5, <1>6, <1>7, <1>8, <1>9, <1>10, <1>11, <1>12

(* The places where a quote that was opened at r may close.                *)
Unescaped(sql, r, quote, escapes, j) ==
    sql[j] = quote /\ (escapes => Backslashes(sql, r + 1, j) % 2 = 0)
Quotes(sql, r, quote, escapes, j) == {k \in (r + 1)..j : Unescaped(sql, r, quote, escapes, k)}
Closes(sql, r, quote, escapes, j) ==
    /\ Unescaped(sql, r, quote, escapes, j)
    /\ Cardinality(Quotes(sql, r, quote, escapes, j)) % 2 = 1
    /\ j < Len(sql) => sql[j + 1] # quote

LEMMA QuoteEndIs ==
    ASSUME NEW sql, NEW r, NEW quote, NEW escapes
    PROVE  QuoteEnd(sql, r, quote, escapes) =
             Least({j \in (r + 1)..Len(sql) : Closes(sql, r, quote, escapes, j)}, Len(sql) + 1)
BY DEF QuoteEnd, Closes, Quotes, Unescaped

LEMMA LexemeEndAfter ==
    ASSUME NEW S, NEW sql \in Seq(S), NEW i \in 1..Len(sql)
    PROVE  LexemeEnd(sql, i) \in i..(Len(sql) + 1)
<1> DEFINE L == Len(sql)
<1>0. L \in Nat
  BY LenProperties
<1>1. ASSUME NEW m \in Int, NEW B, B \subseteq m..L, i <= m, NEW o \in i..(L + 1)
      PROVE  Least(B, o) \in i..(L + 1)
  <2>1. PICK n \in Int : n = L
    BY <1>0
  <2>2. B \subseteq m..n
    BY <1>1, <2>1
  <2>3. Least(B, o) = o \/ Least(B, o) \in B
    BY <2>2, LeastIs
  <2>4. \A k \in B : k \in i..(L + 1)
    BY <1>0, <1>1
  <2> QED
    BY <2>3, <2>4
<1>2. ASSUME NEW r \in {i, i + 1}, NEW quote, NEW escapes
      PROVE  QuoteEnd(sql, r, quote, escapes) \in i..(L + 1)
  <2>1. r + 1 \in Int /\ i <= r + 1 /\ L + 1 \in i..(L + 1)
    BY <1>0, <1>2
  <2> QED
    BY <1>1, <2>1, QuoteEndIs
<1>3. NameEnd(sql, i) \in i..(L + 1) /\ LineEnd(sql, i) \in i..(L + 1)
  <2>1. i \in i..(L + 1) /\ i \in Int /\ i <= i
    BY <1>0
  <2> QED
    BY <1>1, <2>1 DEF NameEnd, LineEnd
<1>4. ASSUME OpensComment(sql, i) PROVE CommentEnd(sql, i) \in i..(L + 1)
  <2>1. i < L
    BY <1>0, <1>4, HasTwo DEF OpensComment
  <2>2. i + 2 \in 1..(L + 1) /\ 1 \in Nat
    BY <1>0, <2>1
  <2>3. CommentEnds(sql)[i + 2][1] \in (i + 2 - 1)..(L + 1)
    BY <2>2, CommentEndsUnfold
  <2> QED
    BY <1>0, <2>3 DEF CommentEnd
<1>5. ASSUME OpensDollar(sql, i) PROVE DollarEnd(sql, i, TagEnd(sql, i)) \in i..(L + 1)
  <2>1. PICK o : o = TagEnd(sql, i)
    OBVIOUS
  <2>2. o \in (i + 1)..L
    BY <1>0, <1>5, <2>1, DelimiterIs
  <2>3. PICK tag : tag = SubSeq(sql, i, o)
    OBVIOUS
  <2>4. Len(tag) \in Nat
    <3>1. \A k \in i..o : sql[k] \in S
      BY <1>0, <2>2, ElementOfSeq
    <3> QED
      BY <1>0, <2>2, <2>3, <3>1, SubSeqProperties, LenProperties
  <2>5. o + Len(tag) \in Int /\ i <= o + Len(tag) /\ L + 1 \in i..(L + 1)
    BY <1>0, <2>2, <2>4
  <2> QED
    BY <1>1, <2>1, <2>3, <2>5 DEF DollarEnd
<1>6. i \in i..(L + 1)
  BY <1>0
<1>7. \/ OpensEscape(sql, i) \/ OpensName(sql, i) \/ sql[i] = "'" \/ sql[i] = "dq"
      \/ OpensLine(sql, i) \/ OpensComment(sql, i) \/ OpensDollar(sql, i)
      \/ OpensPercent(sql, i) \/ OpensNothing(sql, i)
  BY DEF OpensNothing
<1> HIDE DEF L
<1>8. CASE OpensEscape(sql, i) \/ sql[i] = "'" \/ sql[i] = "dq"
  <2>1. /\ QuoteEnd(sql, i + 1, "'", TRUE) \in i..(L + 1)
        /\ QuoteEnd(sql, i, "'", FALSE) \in i..(L + 1)
        /\ QuoteEnd(sql, i, "dq", FALSE) \in i..(L + 1)
    BY <1>2
  <2> QED
    BY <1>8, <2>1, LexemeEndIs DEF L
<1>9. CASE OpensName(sql, i) \/ OpensLine(sql, i)
  BY <1>3, <1>9, LexemeEndIs DEF L
<1>10. CASE OpensComment(sql, i)
  BY <1>4, <1>10, LexemeEndIs DEF L
<1>11. CASE OpensDollar(sql, i)
  BY <1>5, <1>11, LexemeEndIs DEF L
<1>12. CASE OpensNothing(sql, i)
  BY <1>6, <1>12, LexemeEndIs, ZenonT(30) DEF L
<1>13. CASE OpensPercent(sql, i)
  <2>1. i + 1 \in i..(L + 1)
    BY <1>0, <1>13, Openers DEF OpensPercent, L
  <2> QED
    BY <1>13, <2>1, LexemeEndIs DEF L
<1> QED
  BY <1>7, <1>8, <1>9, <1>10, <1>11, <1>12, <1>13

(* The recursion from lexeme to lexeme has a solution.                     *)
AreLexemes(f, sql, m) ==
    f = [i \in m..(Len(sql) + 2) |->
           IF i > Len(sql) THEN {} ELSE {i} \cup f[LexemeEnd(sql, i) + 1]]

LEMMA LexemesExist ==
    ASSUME NEW S, NEW sql \in Seq(S)
    PROVE  \E f : AreLexemes(f, sql, 1)
<1> DEFINE L == Len(sql)
           G == {m \in 1..(L + 1) : \E f : AreLexemes(f, sql, m)}
<1>0. L \in Nat
  BY LenProperties
<1>1. L + 1 \in G
  <2> DEFINE f == [i \in (L + 1)..(L + 2) |-> {}]
  <2>1. \A i \in (L + 1)..(L + 2) : i > L
    BY <1>0
  <2>2. AreLexemes(f, sql, L + 1)
    BY <2>1, Zenon DEF AreLexemes
  <2> HIDE DEF f
  <2> QED
    BY <1>0, <2>2
<1>2. ASSUME NEW m \in 1..L, m + 1 \in G PROVE m \in G
  <2>1. PICK g : AreLexemes(g, sql, m + 1)
    BY <1>2
  <2> DEFINE f == [i \in m..(L + 2) |->
                     IF i = m THEN {m} \cup g[LexemeEnd(sql, m) + 1] ELSE g[i]]
  <2>2. \A i \in (m + 1)..(L + 2) : f[i] = g[i]
    BY <1>0
  <2>3. \A i \in m..L : LexemeEnd(sql, i) + 1 \in (m + 1)..(L + 2)
    <3>1. \A i \in 1..L : LexemeEnd(sql, i) \in i..(L + 1)
      BY LexemeEndAfter
    <3> QED
      BY <1>0, <3>1
  <2>4. \A i \in m..(L + 2) :
          f[i] = IF i > L THEN {} ELSE {i} \cup f[LexemeEnd(sql, i) + 1]
    <3>1. TAKE i \in m..(L + 2)
    <3>2. CASE i = m
      <4>1. f[i] = {m} \cup g[LexemeEnd(sql, m) + 1]
        BY <3>2
      <4>2. ~ (i > L) /\ i \in m..L
        BY <1>0, <3>2
      <4> HIDE DEF f
      <4> QED
        BY <2>2, <2>3, <3>2, <4>1, <4>2
    <3>3. CASE i # m
      <4>1. i \in (m + 1)..(L + 2)
        BY <1>0, <3>3
      <4> HIDE DEF f
      <4>2. g[i] = IF i > L THEN {} ELSE {i} \cup g[LexemeEnd(sql, i) + 1]
        BY <2>1, <4>1, Zenon DEF AreLexemes
      <4>3. ~ (i > L) => i \in m..L
        BY <1>0, <3>1
      <4> QED
        BY <2>2, <2>3, <4>1, <4>2, <4>3
    <3> QED
      BY <3>2, <3>3
  <2>5. f = [i \in m..(L + 2) |-> f[i]]
    BY Zenon
  <2> HIDE DEF f
  <2>6. AreLexemes(f, sql, m)
    BY <2>4, <2>5, Zenon DEF AreLexemes
  <2> QED
    BY <1>0, <2>6
<1>3. \A m \in 1..((L + 1) - 1) : m + 1 \in G => m \in G
  BY <1>0, <1>2
<1>4. L + 1 \in Int
  BY <1>0
<1> HIDE DEF G, L
<1>5. \A m \in 1..(L + 1) : m \in G
  BY ONLY <1>1, <1>3, <1>4, Backwards
<1>6. 1 \in G
  BY <1>0, <1>5
<1> QED
  BY <1>6 DEF G

LEMMA LexemesUnfold ==
    ASSUME NEW S, NEW sql \in Seq(S)
    PROVE  /\ \A i \in 1..Len(sql) :
                LexemesFrom(sql)[i] = {i} \cup LexemesFrom(sql)[LexemeEnd(sql, i) + 1]
           /\ \A i \in (Len(sql) + 1)..(Len(sql) + 2) : LexemesFrom(sql)[i] = {}
<1>0. Len(sql) \in Nat
  BY LenProperties
<1>1. LexemesFrom(sql) = CHOOSE f : AreLexemes(f, sql, 1)
  BY DEF LexemesFrom, AreLexemes
<1>2. \E f : AreLexemes(f, sql, 1)
  BY LexemesExist
<1>3. PICK f : f = LexemesFrom(sql)
  OBVIOUS
<1>4. AreLexemes(f, sql, 1)
  BY <1>1, <1>2, <1>3
<1>5. \A i \in 1..(Len(sql) + 2) :
        f[i] = IF i > Len(sql) THEN {} ELSE {i} \cup f[LexemeEnd(sql, i) + 1]
  BY <1>4, Zenon DEF AreLexemes
<1>6. \A i \in 1..Len(sql) : i \in 1..(Len(sql) + 2) /\ ~ (i > Len(sql))
  BY <1>0
<1>7. \A i \in (Len(sql) + 1)..(Len(sql) + 2) : i \in 1..(Len(sql) + 2) /\ i > Len(sql)
  BY <1>0
<1> QED
  BY <1>3, <1>5, <1>6, <1>7, Zenon

(* Lexemes start within the text.                                          *)
LEMMA LexemesWithin ==
    ASSUME NEW S, NEW sql \in Seq(S)
    PROVE  \A i \in 1..(Len(sql) + 1) : LexemesFrom(sql)[i] \subseteq i..Len(sql)
<1> DEFINE L == Len(sql)
           G == {m \in 1..(L + 1) :
                   \A i \in m..(L + 2) : LexemesFrom(sql)[i] \subseteq i..L}
<1>0. L \in Nat
  BY LenProperties
<1>1. L + 1 \in G
  <2>1. \A i \in (L + 1)..(L + 2) : LexemesFrom(sql)[i] = {}
    BY LexemesUnfold
  <2> QED
    BY <1>0, <2>1
<1>2. ASSUME NEW m \in 1..L, m + 1 \in G PROVE m \in G
  <2>1. LexemesFrom(sql)[m] = {m} \cup LexemesFrom(sql)[LexemeEnd(sql, m) + 1]
    BY LexemesUnfold
  <2>2. PICK e : e = LexemeEnd(sql, m)
    OBVIOUS
  <2>3. e \in m..(L + 1)
    BY <2>2, LexemeEndAfter
  <2>4. e + 1 \in (m + 1)..(L + 2)
    BY <1>0, <2>3
  <2>5. LexemesFrom(sql)[e + 1] \subseteq (e + 1)..L
    BY <1>2, <2>4
  <2>6. LexemesFrom(sql)[m] \subseteq m..L
    BY <1>0, <2>1, <2>2, <2>3, <2>5
  <2> QED
    BY <1>0, <1>2, <2>6
<1>3. \A m \in 1..((L + 1) - 1) : m + 1 \in G => m \in G
  BY <1>0, <1>2
<1>4. L + 1 \in Int
  BY <1>0
<1> HIDE DEF G, L
<1>5. \A m \in 1..(L + 1) : m \in G
  BY ONLY <1>1, <1>3, <1>4, Backwards
<1>6. 1 \in G
  BY <1>0, <1>5
<1> QED
  BY <1>0, <1>6 DEF G, L

(* A run of backslashes grows with each one, and ends with anything else.  *)
LEMMA BackslashRun ==
    ASSUME NEW sql, NEW from \in Nat, NEW j \in Nat, from <= j
    PROVE  /\ Backslashes(sql, from, from) = 0
           /\ Backslashes(sql, from, j) \in Nat
           /\ sql[j] # "\\" => Backslashes(sql, from, j + 1) = 0
           /\ sql[j] = "\\" => Backslashes(sql, from, j + 1) = Backslashes(sql, from, j) + 1
<1> DEFINE Run(n) == {k \in from..(n - 1) : \A m \in k..(n - 1) : sql[m] = "\\"}
<1>1. Run(from) = {}
  OBVIOUS
<1>2. IsFiniteSet(Run(j)) /\ Cardinality(Run(j)) \in Nat
  <2>1. IsFiniteSet(from..(j - 1)) /\ Run(j) \subseteq from..(j - 1)
    BY FS_Interval
  <2> HIDE DEF Run
  <2> QED
    BY <2>1, FS_Subset, FS_CardinalityType
<1>3. ASSUME sql[j] # "\\" PROVE Run(j + 1) = {}
  <2>1. SUFFICES ASSUME NEW k \in Run(j + 1) PROVE FALSE
    OBVIOUS
  <2>2. j \in k..((j + 1) - 1)
    OBVIOUS
  <2>3. sql[j] = "\\"
    BY <2>2
  <2> QED
    BY <1>3, <2>3
<1>4. ASSUME sql[j] = "\\" PROVE Run(j + 1) = Run(j) \cup {j} /\ ~ (j \in Run(j))
  <2>1. ASSUME NEW k \in Run(j + 1), k # j PROVE k \in Run(j)
    BY <2>1
  <2>2. ASSUME NEW k \in Run(j) PROVE k \in Run(j + 1)
    BY <1>4
  <2>3. j \in Run(j + 1)
    BY <1>4
  <2>4. ~ (j \in Run(j))
    OBVIOUS
  <2> HIDE DEF Run
  <2> QED
    BY <2>1, <2>2, <2>3, <2>4
<1>5. \A n \in {from, j, j + 1} : Backslashes(sql, from, n) = Cardinality(Run(n))
  BY DEF Backslashes
<1> HIDE DEF Run
<1>6. Cardinality(Run(from)) = 0 /\ (sql[j] # "\\" => Cardinality(Run(j + 1)) = 0)
  BY <1>1, <1>3, FS_EmptySet
<1>7. sql[j] = "\\" => Cardinality(Run(j + 1)) = Cardinality(Run(j)) + 1
  BY <1>2, <1>4, FS_AddElement
<1> QED
  BY <1>2, <1>5, <1>6, <1>7

LEMMA QuotesGrow ==
    ASSUME NEW sql, NEW r \in Nat, NEW quote, NEW escapes, NEW j \in Nat, r < j
    PROVE  /\ Quotes(sql, r, quote, escapes, r) = {}
           /\ Cardinality(Quotes(sql, r, quote, escapes, j)) \in Nat
           /\ Unescaped(sql, r, quote, escapes, j) =>
                Cardinality(Quotes(sql, r, quote, escapes, j)) =
                  Cardinality(Quotes(sql, r, quote, escapes, j - 1)) + 1
           /\ ~ Unescaped(sql, r, quote, escapes, j) =>
                Quotes(sql, r, quote, escapes, j) = Quotes(sql, r, quote, escapes, j - 1)
<1> DEFINE Q(n) == {k \in (r + 1)..n : Unescaped(sql, r, quote, escapes, k)}
<1>1. Q(r) = {}
  OBVIOUS
<1>2. \A n \in Nat : IsFiniteSet(Q(n)) /\ Cardinality(Q(n)) \in Nat
  <2>1. TAKE n \in Nat
  <2>2. IsFiniteSet((r + 1)..n) /\ Q(n) \subseteq (r + 1)..n
    BY FS_Interval
  <2> HIDE DEF Q
  <2> QED
    BY <2>2, FS_Subset, FS_CardinalityType
<1>3. ASSUME Unescaped(sql, r, quote, escapes, j)
      PROVE  Q(j) = Q(j - 1) \cup {j} /\ ~ (j \in Q(j - 1))
  BY <1>3
<1>4. ASSUME ~ Unescaped(sql, r, quote, escapes, j) PROVE Q(j) = Q(j - 1)
  BY <1>4
<1>5. \A n : Quotes(sql, r, quote, escapes, n) = Q(n)
  BY DEF Quotes
<1>6. j - 1 \in Nat
  OBVIOUS
<1> HIDE DEF Q
<1> QED
  BY <1>1, <1>2, <1>3, <1>4, <1>5, <1>6, FS_AddElement

(* The scanner is within the quote that was opened at r, and not between   *)
(* the two symbols of a pair.                                              *)
InQuote(sql, r, quote, escapes, at) ==
    /\ r < at
    /\ \A j \in (r + 1)..(at - 1) : ~ Closes(sql, r, quote, escapes, j)
    /\ at <= Len(sql) =>
         /\ Cardinality(Quotes(sql, r, quote, escapes, at - 1)) % 2 = 0
         /\ escapes => Backslashes(sql, r + 1, at) % 2 = 0

LEMMA QuoteBegins ==
    ASSUME NEW sql, NEW r \in Nat, NEW quote, NEW escapes
    PROVE  InQuote(sql, r, quote, escapes, r + 1)
<1>1. Quotes(sql, r, quote, escapes, r) = {}
  BY QuotesGrow
<1>2. Backslashes(sql, r + 1, r + 1) = 0
  BY BackslashRun
<1>3. (r + 1) - 1 = r
  OBVIOUS
<1> QED
  BY <1>1, <1>2, <1>3, FS_EmptySet DEF InQuote

(* A place within quotes, with what the lemmas about it need.              *)
InQuotes(sql, r, quote, escapes, at) ==
    /\ Len(sql) \in Nat /\ r \in Nat /\ quote # "\\" /\ escapes \in BOOLEAN
    /\ at \in Nat /\ r < at /\ at <= Len(sql) /\ InQuote(sql, r, quote, escapes, at)

LEMMA QuoteMoves ==
    ASSUME NEW sql, Len(sql) \in Nat, NEW r \in Nat, NEW quote, quote # "\\",
           NEW escapes \in BOOLEAN, NEW at \in Nat, r < at, at <= Len(sql),
           InQuote(sql, r, quote, escapes, at)
    PROVE  /\ escapes /\ sql[at] = "\\" /\ at < Len(sql)
                => InQuote(sql, r, quote, escapes, at + 2)
           /\ at < Len(sql) /\ sql[at] = quote /\ sql[at + 1] = quote
                => InQuote(sql, r, quote, escapes, at + 2)
           /\ sql[at] # quote /\ ~ (escapes /\ sql[at] = "\\" /\ at < Len(sql))
                => InQuote(sql, r, quote, escapes, at + 1)
           /\ sql[at] = quote /\ (at < Len(sql) => sql[at + 1] # quote)
                => QuoteEnd(sql, r, quote, escapes) = at
<1> DEFINE L == Len(sql)
           C(j) == Closes(sql, r, quote, escapes, j)
           U(j) == Unescaped(sql, r, quote, escapes, j)
           Q(j) == Cardinality(Quotes(sql, r, quote, escapes, j))
           B(j) == Backslashes(sql, r + 1, j)
<1>0. /\ \A j \in (r + 1)..(at - 1) : ~ C(j)
      /\ Q(at - 1) % 2 = 0
      /\ escapes => B(at) % 2 = 0
  BY DEF InQuote
<1>1. \A j \in Nat : C(j) <=> (U(j) /\ Q(j) % 2 = 1 /\ (j < L => sql[j + 1] # quote))
  BY DEF Closes
<1>2. \A j \in Nat : U(j) <=> sql[j] = quote /\ (escapes => B(j) % 2 = 0)
  BY DEF Unescaped
<1>3. \A j \in Nat : r < j =>
         /\ B(j) \in Nat
         /\ sql[j] # "\\" => B(j + 1) = 0
         /\ sql[j] = "\\" => B(j + 1) = B(j) + 1
  <2>1. TAKE j \in Nat
  <2>2. HAVE r < j
  <2>3. PICK from \in Nat : from = r + 1
    OBVIOUS
  <2>4. from <= j
    BY <2>2, <2>3
  <2> QED
    BY <2>3, <2>4, BackslashRun
<1>4. \A j \in Nat : r < j =>
         /\ Q(j) \in Nat
         /\ U(j) => Q(j) = Q(j - 1) + 1
         /\ ~ U(j) => Q(j) = Q(j - 1)
  <2>1. TAKE j \in Nat
  <2>2. HAVE r < j
  <2>3. /\ Cardinality(Quotes(sql, r, quote, escapes, j)) \in Nat
        /\ Unescaped(sql, r, quote, escapes, j) =>
             Cardinality(Quotes(sql, r, quote, escapes, j)) =
               Cardinality(Quotes(sql, r, quote, escapes, j - 1)) + 1
        /\ ~ Unescaped(sql, r, quote, escapes, j) =>
             Quotes(sql, r, quote, escapes, j) = Quotes(sql, r, quote, escapes, j - 1)
    BY <2>2, QuotesGrow
  <2> QED
    BY <2>3, Zenon
<1>5. Q(at - 1) \in Nat
  <2>1. CASE r < at - 1
    BY <1>4, <2>1
  <2>2. CASE r = at - 1
    <3>1. Quotes(sql, r, quote, escapes, r) = {}
      BY QuotesGrow
    <3> QED
      BY <2>2, <3>1, FS_EmptySet
  <2> QED
    BY <2>1, <2>2
<1>6. ASSUME NEW n \in {at + 1, at + 2}, ~ C(at), n = at + 2 => ~ C(at + 1),
             n <= L => Q(n - 1) % 2 = 0 /\ (escapes => B(n) % 2 = 0)
      PROVE  InQuote(sql, r, quote, escapes, n)
  <2>1. \A j \in (r + 1)..(n - 1) : ~ C(j)
    <3>1. TAKE j \in (r + 1)..(n - 1)
    <3>2. j \in (r + 1)..(at - 1) \/ j = at \/ (j = at + 1 /\ n = at + 2)
      BY <1>6
    <3> QED
      BY <1>0, <1>6, <3>2
  <2>2. r < n
    BY <1>6
  <2> QED
    BY <1>6, <2>1, <2>2 DEF InQuote
<1>7. U(at) <=> sql[at] = quote
  BY <1>0, <1>2
<1>8. /\ at + 1 \in Nat /\ r < at + 1 /\ (at + 1) - 1 = at /\ (at + 1) + 1 = at + 2
      /\ (at + 2) - 1 = at + 1
  OBVIOUS
<1> HIDE DEF C, U, Q, B, L
<1>9. ASSUME escapes, sql[at] = "\\", at < L
      PROVE  InQuote(sql, r, quote, escapes, at + 2)
  <2>1. ~ U(at)
    BY <1>7, <1>9
  <2>2. B(at) \in Nat /\ B(at) % 2 = 0 /\ B(at + 1) = B(at) + 1
    BY <1>0, <1>3, <1>9
  <2>3. B(at + 1) % 2 = 1
    BY <2>2
  <2>4. ~ U(at + 1)
    BY <1>2, <1>8, <1>9, <2>3
  <2>5. Q(at + 1) % 2 = 0
    BY <1>0, <1>4, <1>8, <2>1, <2>4
  <2>6. B(at + 2) % 2 = 0
    <3>1. B(at + 2) = 0 \/ B(at + 2) = B(at + 1) + 1
      <4>1. B((at + 1) + 1) = 0 \/ B((at + 1) + 1) = B(at + 1) + 1
        BY <1>3, <1>8
      <4> QED
        BY <1>8, <4>1
    <3>2. B(at + 2) = 0 \/ B(at + 2) = B(at) + 2
      BY <2>2, <3>1
    <3> QED
      BY <2>2, <3>2
  <2> QED
    BY <1>1, <1>6, <1>8, <2>1, <2>4, <2>5, <2>6
<1>10. ASSUME at < L, sql[at] = quote, sql[at + 1] = quote
       PROVE  InQuote(sql, r, quote, escapes, at + 2)
  <2>1. U(at) /\ ~ C(at)
    BY <1>1, <1>7, <1>10
  <2>2. B(at + 1) = 0 /\ B(at + 2) = 0
    BY <1>3, <1>8, <1>10
  <2>3. U(at + 1)
    BY <1>2, <1>8, <1>10, <2>2
  <2>4. Q(at + 1) = Q(at - 1) + 2
    BY <1>4, <1>5, <1>8, <2>1, <2>3
  <2>5. Q(at + 1) % 2 = 0
    BY <1>0, <1>5, <2>4
  <2>6. ~ C(at + 1)
    BY <1>1, <1>8, <2>5
  <2> QED
    BY <1>6, <1>8, <2>1, <2>2, <2>5, <2>6
<1>11. ASSUME sql[at] # quote, ~ (escapes /\ sql[at] = "\\" /\ at < L)
       PROVE  InQuote(sql, r, quote, escapes, at + 1)
  <2>1. ~ U(at) /\ ~ C(at)
    BY <1>1, <1>7, <1>11
  <2>2. Q(at) % 2 = 0
    BY <1>0, <1>4, <2>1
  <2>3. at + 1 <= L /\ escapes => B(at + 1) % 2 = 0
    <3>1. SUFFICES ASSUME at + 1 <= L, escapes PROVE B(at + 1) % 2 = 0
      OBVIOUS
    <3>2. at < L
      BY <3>1 DEF L
    <3>3. sql[at] # "\\"
      BY <1>11, <3>1, <3>2
    <3>4. B(at + 1) = 0
      BY <1>3, <3>3
    <3> QED
      BY <3>4
  <2> QED
    BY <1>6, <1>8, <2>1, <2>2, <2>3
<1>12. ASSUME sql[at] = quote, at < L => sql[at + 1] # quote
       PROVE  QuoteEnd(sql, r, quote, escapes) = at
  <2>1. Q(at) % 2 = 1
    <3>1. Q(at) = Q(at - 1) + 1
      BY <1>4, <1>7, <1>12
    <3> QED
      BY <1>0, <1>5, <3>1
  <2>2. C(at)
    BY <1>1, <1>7, <1>12, <2>1
  <2> DEFINE D == {j \in (r + 1)..L : C(j)}
  <2>3. D \subseteq (r + 1)..L /\ at \in D
    BY <2>2 DEF L
  <2>4. \A k \in D : at <= k
    <3>1. TAKE k \in D
    <3>2. ~ (k \in (r + 1)..(at - 1))
      BY <1>0
    <3> QED
      BY <3>2 DEF L
  <2>5. QuoteEnd(sql, r, quote, escapes) = Least(D, L + 1)
    BY QuoteEndIs DEF C, L
  <2>6. PICK m \in Int : m = r + 1
    OBVIOUS
  <2>7. L \in Int
    BY DEF L
  <2> HIDE DEF D
  <2>8. D \subseteq m..L
    BY <2>3, <2>6
  <2>9. Least(D, L + 1) = at
    BY ONLY <2>3, <2>4, <2>7, <2>8, m \in Int, LeastFound
  <2> QED
    BY <2>5, <2>9
<1> QED
  BY <1>9, <1>10, <1>11, <1>12 DEF L

LEMMA QuoteGoesOn ==
    ASSUME NEW sql, NEW r, NEW quote, NEW escapes, NEW at, InQuotes(sql, r, quote, escapes, at)
    PROVE  /\ escapes /\ sql[at] = "\\" /\ at < Len(sql)
                => InQuote(sql, r, quote, escapes, at + 2)
           /\ at < Len(sql) /\ sql[at] = quote /\ sql[at + 1] = quote
                => InQuote(sql, r, quote, escapes, at + 2)
           /\ sql[at] # quote /\ ~ (escapes /\ sql[at] = "\\" /\ at < Len(sql))
                => InQuote(sql, r, quote, escapes, at + 1)
           /\ sql[at] = quote /\ (at < Len(sql) => sql[at + 1] # quote)
                => QuoteEnd(sql, r, quote, escapes) = at
<1>1. /\ Len(sql) \in Nat /\ r \in Nat /\ quote # "\\" /\ escapes \in BOOLEAN
      /\ at \in Nat /\ r < at /\ at <= Len(sql) /\ InQuote(sql, r, quote, escapes, at)
  BY DEF InQuotes
<1>2. PICK q \in Nat : q = r
  BY <1>1
<1>3. PICK a \in Nat : a = at
  BY <1>1
<1>4. PICK e \in BOOLEAN : e = escapes
  BY <1>1
<1>5. Len(sql) \in Nat /\ quote # "\\" /\ q < a /\ a <= Len(sql) /\ InQuote(sql, q, quote, e, a)
  BY <1>1, <1>2, <1>3, <1>4
<1>6. /\ e /\ sql[a] = "\\" /\ a < Len(sql) => InQuote(sql, q, quote, e, a + 2)
      /\ a < Len(sql) /\ sql[a] = quote /\ sql[a + 1] = quote
           => InQuote(sql, q, quote, e, a + 2)
      /\ sql[a] # quote /\ ~ (e /\ sql[a] = "\\" /\ a < Len(sql))
           => InQuote(sql, q, quote, e, a + 1)
      /\ sql[a] = quote /\ (a < Len(sql) => sql[a + 1] # quote)
           => QuoteEnd(sql, q, quote, e) = a
  BY ONLY <1>5, q \in Nat, a \in Nat, e \in BOOLEAN, QuoteMoves
<1> QED
  BY ONLY <1>2, <1>3, <1>4, <1>6

LEMMA QuoteUnclosed ==
    ASSUME NEW sql, Len(sql) \in Nat, NEW r \in Nat, NEW quote, NEW escapes,
           InQuote(sql, r, quote, escapes, Len(sql) + 1)
    PROVE  QuoteEnd(sql, r, quote, escapes) = Len(sql) + 1
<1> DEFINE D == {j \in (r + 1)..Len(sql) : Closes(sql, r, quote, escapes, j)}
<1>1. D = {}
  BY DEF InQuote
<1>2. QuoteEnd(sql, r, quote, escapes) = Least(D, Len(sql) + 1)
  BY QuoteEndIs
<1> QED
  BY <1>1, <1>2 DEF Least

(* Within a line comment, a nested comment and a dollar quote.             *)
InLine(sql, i, at) == i < at /\ \A j \in i..(at - 1) : sql[j] # "nl"

InComment(sql, i, at, depth) ==
    depth \in Nat \ {0} /\ CommentEnds(sql)[at][depth] = CommentEnd(sql, i)

InDollar(sql, open, tag, at) ==
    /\ open < at
    /\ \A j \in (open + Len(tag))..Len(sql) :
         SubSeq(sql, j - Len(tag) + 1, j) = tag => at <= j - Len(tag) + 1

LEMMA LineGoesOn ==
    ASSUME NEW sql, Len(sql) \in Nat, NEW i \in 1..Len(sql), NEW at \in Nat,
           InLine(sql, i, at)
    PROVE  /\ at <= Len(sql) /\ sql[at] # "nl" => InLine(sql, i, at + 1)
           /\ at <= Len(sql) /\ sql[at] = "nl" => LineEnd(sql, i) = at
           /\ at = Len(sql) + 1 => LineEnd(sql, i) = Len(sql)
<1> DEFINE D == {j \in i..Len(sql) : sql[j] = "nl" \/ j = Len(sql)}
<1>1. i < at /\ \A j \in i..(at - 1) : sql[j] # "nl"
  BY DEF InLine
<1>2. D \subseteq i..Len(sql) /\ LineEnd(sql, i) = Least(D, i)
  BY DEF LineEnd
<1>3. ASSUME NEW e \in D, \A k \in D : e <= k PROVE LineEnd(sql, i) = e
  <2> HIDE DEF D
  <2>1. PICK m \in Int : m = i
    OBVIOUS
  <2>2. PICK n \in Int : n = Len(sql)
    OBVIOUS
  <2>3. D \subseteq m..n
    BY <1>2, <2>1, <2>2
  <2>4. Least(D, i) = e
    BY ONLY <1>3, <2>3, m \in Int, n \in Int, LeastFound
  <2> QED
    BY <1>2, <2>4
<1>4. at <= Len(sql) /\ sql[at] # "nl" => InLine(sql, i, at + 1)
  <2>1. SUFFICES ASSUME sql[at] # "nl" PROVE InLine(sql, i, at + 1)
    OBVIOUS
  <2>2. \A j \in i..((at + 1) - 1) : j \in i..(at - 1) \/ j = at
    OBVIOUS
  <2>3. i < at + 1
    BY <1>1
  <2> QED
    BY <1>1, <2>1, <2>2, <2>3 DEF InLine
<1>5. ASSUME at <= Len(sql), sql[at] = "nl" PROVE LineEnd(sql, i) = at
  <2>1. at \in D
    BY <1>1, <1>5
  <2>2. \A k \in D : at <= k
    <3>1. TAKE k \in D
    <3>2. SUFFICES ASSUME k < at PROVE FALSE
      OBVIOUS
    <3>3. k \in i..(at - 1) /\ k # Len(sql)
      BY <1>5, <3>2
    <3> QED
      BY <1>1, <3>3
  <2> HIDE DEF D
  <2> QED
    BY <1>3, <2>1, <2>2
<1>6. ASSUME at = Len(sql) + 1 PROVE LineEnd(sql, i) = Len(sql)
  <2>1. Len(sql) \in D
    OBVIOUS
  <2>2. \A k \in D : Len(sql) <= k
    <3>1. TAKE k \in D
    <3>2. k \in i..(at - 1)
      BY <1>6
    <3> QED
      BY <1>1, <3>2
  <2> HIDE DEF D
  <2> QED
    BY <1>3, <2>1, <2>2
<1> QED
  BY <1>4, <1>5, <1>6

LEMMA NameEndIs ==
    ASSUME NEW sql, Len(sql) \in Nat, NEW i \in 1..Len(sql)
    PROVE  /\ NameEnd(sql, i) \in i..Len(sql)
           /\ \A k \in (i + 1)..NameEnd(sql, i) : sql[k] \in GoesOnWith(sql, i)
<1> DEFINE D == {j \in i..Len(sql) : j = Len(sql) \/ sql[j + 1] \notin GoesOnWith(sql, i)}
<1>1. D \subseteq i..Len(sql) /\ Len(sql) \in D /\ NameEnd(sql, i) = Least(D, i)
  BY DEF NameEnd
<1>2. PICK e : e = NameEnd(sql, i)
  OBVIOUS
<1>3. e \in D /\ \A k \in D : e <= k
  <2> HIDE DEF D
  <2>1. PICK m \in Int : m = i
    OBVIOUS
  <2>2. PICK n \in Int : n = Len(sql)
    OBVIOUS
  <2>3. D \subseteq m..n /\ D # {}
    BY <1>1, <2>1, <2>2
  <2>4. Least(D, i) \in D /\ \A k \in D : Least(D, i) <= k
    BY ONLY <2>3, m \in Int, n \in Int, LeastIs
  <2> QED
    BY <1>1, <1>2, <2>4
<1>4. e \in i..Len(sql)
  BY <1>3
<1>5. ASSUME NEW k \in (i + 1)..e PROVE sql[k] \in GoesOnWith(sql, i)
  <2>1. k - 1 \in i..Len(sql) /\ k - 1 < e /\ (k - 1) + 1 = k
    BY <1>4
  <2>2. ~ (k - 1 \in D)
    <3> HIDE DEF D
    <3> QED
      BY <1>3, <1>4, <2>1
  <2> QED
    BY <2>1, <2>2
<1> QED
  BY <1>2, <1>4, <1>5

(* A name without a dollar sign is a word.                                 *)
LEMMA NameIsWord ==
    ASSUME NEW sql, Len(sql) \in Nat, NEW i \in LexemeStarts(sql), i \in 1..Len(sql),
           OpensName(sql, i), ~ DollarInName(sql)
    PROVE  \A k \in (i + 1)..NameEnd(sql, i) : sql[k] \in WordSymbols
<1>1. PICK e \in i..Len(sql) : e = NameEnd(sql, i)
  BY NameEndIs
<1>2. \A k \in (i + 1)..e : sql[k] \in GoesOnWith(sql, i)
  BY <1>1, NameEndIs
<1>3. CASE sql[i] \in Letters
  <2>1. \A k \in i..e : sql[k] # "$"
    BY <1>1, <1>3 DEF DollarInName, OpensName, OpensEscape
  <2>2. \A k \in (i + 1)..e : k \in i..e
    BY <1>1
  <2> QED
    BY <1>1, <1>2, <1>3, <2>1, <2>2 DEF GoesOnWith
<1>4. CASE ~ (sql[i] \in Letters)
  BY <1>1, <1>2, <1>4 DEF GoesOnWith
<1> QED
  BY <1>3, <1>4

LEMMA CommentGoesOn ==
    ASSUME NEW S, NEW sql \in Seq(S), NEW i, NEW depth, NEW at \in 1..(Len(sql) + 1),
           InComment(sql, i, at, depth)
    PROVE  /\ at <= Len(sql) /\ Has(sql, at, <<"/", "*">>)
                => InComment(sql, i, at + 2, depth + 1)
           /\ at <= Len(sql) /\ ~ Has(sql, at, <<"/", "*">>) /\ Has(sql, at, <<"*", "/">>)
                => IF depth = 1 THEN CommentEnd(sql, i) = at + 1
                                ELSE InComment(sql, i, at + 2, depth - 1)
           /\ at <= Len(sql) /\ ~ Has(sql, at, <<"/", "*">>) /\ ~ Has(sql, at, <<"*", "/">>)
                => InComment(sql, i, at + 1, depth)
           /\ at = Len(sql) + 1 => CommentEnd(sql, i) = Len(sql) + 1
<1>0. Len(sql) \in Nat
  BY LenProperties
<1>1. depth \in Nat /\ depth # 0 /\ CommentEnds(sql)[at][depth] = CommentEnd(sql, i)
  BY DEF InComment
<1>2. EndsStep(CommentEnds(sql), sql, at, depth) = CommentEnd(sql, i)
  BY <1>1, CommentEndsUnfold
<1>3. at = Len(sql) + 1 => CommentEnd(sql, i) = Len(sql) + 1
  BY <1>0, <1>1, <1>2 DEF EndsStep
<1>4. ASSUME at <= Len(sql), Has(sql, at, <<"/", "*">>)
      PROVE  InComment(sql, i, at + 2, depth + 1)
  <2>1. CommentEnds(sql)[at + 2][depth + 1] = CommentEnd(sql, i)
    BY <1>0, <1>1, <1>2, <1>4 DEF EndsStep
  <2>2. depth + 1 \in Nat \ {0}
    BY <1>1
  <2> QED
    BY <2>1, <2>2 DEF InComment
<1>5. ASSUME at <= Len(sql), ~ Has(sql, at, <<"/", "*">>), Has(sql, at, <<"*", "/">>)
      PROVE  IF depth = 1 THEN CommentEnd(sql, i) = at + 1
                          ELSE InComment(sql, i, at + 2, depth - 1)
  <2>1. CommentEnds(sql)[at + 2][depth - 1] = CommentEnd(sql, i)
    BY <1>0, <1>1, <1>2, <1>5 DEF EndsStep
  <2>2. CASE depth = 1
    <3>1. at < Len(sql)
      BY <1>0, <1>5, HasTwo
    <3>2. at + 2 \in 1..(Len(sql) + 1) /\ 0 \in Nat
      BY <1>0, <3>1
    <3>3. CommentEnds(sql)[at + 2][0] = EndsStep(CommentEnds(sql), sql, at + 2, 0)
      BY <3>2, CommentEndsUnfold
    <3>4. EndsStep(CommentEnds(sql), sql, at + 2, 0) = at + 1
      BY <1>0 DEF EndsStep
    <3> QED
      BY <2>1, <2>2, <3>3, <3>4
  <2>3. CASE depth # 1
    <3>1. depth - 1 \in Nat \ {0}
      BY <1>1, <2>3
    <3> QED
      BY <2>1, <2>3, <3>1 DEF InComment
  <2> QED
    BY <2>2, <2>3
<1>6. ASSUME at <= Len(sql), ~ Has(sql, at, <<"/", "*">>), ~ Has(sql, at, <<"*", "/">>)
      PROVE  InComment(sql, i, at + 1, depth)
  <2>1. CommentEnds(sql)[at + 1][depth] = CommentEnd(sql, i)
    BY <1>0, <1>1, <1>2, <1>6 DEF EndsStep
  <2> QED
    BY <1>1, <2>1 DEF InComment
<1> QED
  BY <1>3, <1>4, <1>5, <1>6

IsTag(sql, i, open, tag) == tag = SubSeq(sql, i, open) /\ Len(tag) \in Nat \ {0}

LEMMA DollarGoesOn ==
    ASSUME NEW sql, Len(sql) \in Nat, NEW i, NEW open \in 1..Len(sql), NEW tag,
           IsTag(sql, i, open, tag), NEW at \in Nat, InDollar(sql, open, tag, at)
    PROVE  /\ Has(sql, at, tag) => DollarEnd(sql, i, open) = at + Len(tag) - 1
           /\ ~ Has(sql, at, tag) => InDollar(sql, open, tag, at + 1)
           /\ at = Len(sql) + 1 => DollarEnd(sql, i, open) = Len(sql) + 1
<1>0. tag = SubSeq(sql, i, open) /\ Len(tag) \in Nat \ {0}
  BY DEF IsTag
<1>1. PICK n \in Nat : n = Len(tag) /\ n # 0
  BY <1>0
<1> DEFINE D == {j \in (open + n)..Len(sql) : SubSeq(sql, j - n + 1, j) = tag}
<1>2. open < at /\ \A j \in D : at <= j - n + 1
  BY <1>1 DEF InDollar
<1>8. \A j \in D : j \in (open + n)..Len(sql) /\ SubSeq(sql, j - n + 1, j) = tag
  OBVIOUS
<1>9. \A j \in D : j \in Int /\ j <= Len(sql) /\ at <= j - n + 1
  <2> HIDE DEF D
  <2> QED
    BY <1>2, <1>8
<1>3. D \subseteq (open + n)..Len(sql) /\ DollarEnd(sql, i, open) = Least(D, Len(sql) + 1)
  BY <1>0, <1>1 DEF DollarEnd
<1>4. Has(sql, at, tag) <=> at + n - 1 <= Len(sql) /\ SubSeq(sql, at, at + n - 1) = tag
  BY <1>1 DEF Has
<1>5. ASSUME Has(sql, at, tag) PROVE DollarEnd(sql, i, open) = at + n - 1
  <2>1. PICK e \in Int : e = at + n - 1
    OBVIOUS
  <2>2. e \in (open + n)..Len(sql) /\ e - n + 1 = at
    BY <1>2, <1>4, <1>5, <2>1
  <2>3. e \in D
    BY <1>4, <1>5, <2>1, <2>2
  <2>4. \A k \in D : e <= k
    <3>1. TAKE k \in D
    <3> HIDE DEF D
    <3>2. k \in Int /\ at <= k - n + 1
      BY <1>9
    <3> QED
      BY <2>1, <3>2
  <2>5. PICK l \in Int : l = open + n
    OBVIOUS
  <2>6. PICK u \in Int : u = Len(sql)
    OBVIOUS
  <2> HIDE DEF D
  <2>7. D \subseteq l..u
    BY <1>3, <2>5, <2>6
  <2>8. Least(D, Len(sql) + 1) = e
    BY ONLY <2>3, <2>4, <2>7, l \in Int, u \in Int, LeastFound
  <2> QED
    BY <1>1, <1>3, <2>1, <2>8
<1>6. ASSUME ~ Has(sql, at, tag) PROVE InDollar(sql, open, tag, at + 1)
  <2>1. ASSUME NEW j \in D PROVE at + 1 <= j - n + 1
    <3>1. j \in Int /\ j <= Len(sql) /\ at <= j - n + 1 /\ SubSeq(sql, j - n + 1, j) = tag
      <4> HIDE DEF D
      <4> QED
        BY <1>8, <1>9
    <3>2. ASSUME at = j - n + 1 PROVE FALSE
      <4>1. at + n - 1 = j
        BY <3>1, <3>2
      <4>2. at + n - 1 <= Len(sql) /\ SubSeq(sql, at, at + n - 1) = tag
        <5>1. SubSeq(sql, at, j) = tag
          BY <3>1, <3>2
        <5> QED
          BY <3>1, <4>1, <5>1
      <4> QED
        BY <1>4, <1>6, <4>2
    <3> QED
      BY <3>1, <3>2
  <2>2. open < at + 1
    BY <1>2
  <2> QED
    BY <1>1, <2>1, <2>2 DEF InDollar
<1>7. ASSUME at = Len(sql) + 1 PROVE DollarEnd(sql, i, open) = Len(sql) + 1
  <2>1. ASSUME NEW j \in D PROVE FALSE
    <3> HIDE DEF D
    <3>1. j \in Int /\ j <= Len(sql) /\ at <= j - n + 1
      BY <1>9
    <3>2. n \in Nat /\ n # 0 /\ at \in Nat
      BY <1>1
    <3>3. at <= j
      BY ONLY <3>1, <3>2
    <3> QED
      BY ONLY <1>7, <3>1, <3>3, Len(sql) \in Nat
  <2>2. D = {}
    BY <2>1
  <2> QED
    BY <1>3, <2>2 DEF Least
<1> QED
  BY <1>1, <1>5, <1>6, <1>7

(* The scanner's record.                                                   *)
ScanStates ==
    {"normal", "single_quote", "escape_single_quote", "double_quote", "line_comment",
     "block_comment", "dollar_quote"}

ScanTyped(sql, s) ==
    /\ s = [at |-> s.at, state |-> s.state, depth |-> s.depth, delimiter |-> s.delimiter,
            holes |-> s.holes, named |-> s.named]
    /\ s.at \in 1..(Len(sql) + 1) /\ s.state \in ScanStates
    /\ s.holes \subseteq 1..Len(sql) /\ s.named \in BOOLEAN

LEMMA Moved ==
    ASSUME NEW sql, NEW s, ScanTyped(sql, s), NEW n \in Nat, NEW state \in ScanStates,
           s.at + n <= Len(sql) + 1, Len(sql) \in Nat
    PROVE  /\ ScanTyped(sql, Enter(s, n, state)) /\ ScanTyped(sql, Skip(s, n))
           /\ Enter(s, n, state).at = s.at + n /\ Skip(s, n).at = s.at + n
           /\ Enter(s, n, state).state = state /\ Skip(s, n).state = s.state
           /\ Enter(s, n, state).depth = s.depth /\ Skip(s, n).depth = s.depth
           /\ Enter(s, n, state).delimiter = s.delimiter /\ Skip(s, n).delimiter = s.delimiter
           /\ Enter(s, n, state).holes = s.holes /\ Skip(s, n).holes = s.holes
           /\ Enter(s, n, state).named = s.named /\ Skip(s, n).named = s.named
<1>1. PICK at, st, depth, delimiter, holes, named :
        s = [at |-> at, state |-> st, depth |-> depth, delimiter |-> delimiter,
             holes |-> holes, named |-> named]
  BY DEF ScanTyped
<1>2. Enter(s, n, state) =
        [at |-> at + n, state |-> state, depth |-> depth, delimiter |-> delimiter,
         holes |-> holes, named |-> named]
  <2>1. s.at = at
    BY <1>1
  <2>2. Enter(s, n, state) = [s EXCEPT !.at = at + n, !.state = state]
    BY <2>1 DEF Enter
  <2>3. PICK r : r = [s EXCEPT !.at = at + n]
    OBVIOUS
  <2>4. r = [at |-> at + n, state |-> st, depth |-> depth, delimiter |-> delimiter,
             holes |-> holes, named |-> named]
    BY <1>1, <2>3
  <2>5. Enter(s, n, state) = [r EXCEPT !.state = state]
    BY <2>2, <2>3
  <2> QED
    BY <2>4, <2>5
<1>3. Skip(s, n) =
        [at |-> at + n, state |-> st, depth |-> depth, delimiter |-> delimiter,
         holes |-> holes, named |-> named]
  BY <1>1 DEF Skip
<1>4. /\ at \in 1..(Len(sql) + 1) /\ st \in ScanStates /\ holes \subseteq 1..Len(sql)
      /\ named \in BOOLEAN /\ at + n \in 1..(Len(sql) + 1)
  BY <1>1 DEF ScanTyped
<1>5. ScanTyped(sql, Enter(s, n, state))
  BY <1>2, <1>4 DEF ScanTyped
<1>6. ScanTyped(sql, Skip(s, n))
  BY <1>3, <1>4 DEF ScanTyped
<1> QED
  BY <1>1, <1>2, <1>3, <1>5, <1>6

(* What was found up to the lexeme that starts at b, with what is there    *)
(* from b on, is what is in the text.                                      *)
Fine(sql, b) ==
    \A k \in LexemesFrom(sql)[b] : LexemeEnd(sql, k) <= Len(sql) /\ ~ NamedPlaceholder(sql, k)

Pending(sql, s, b) ==
    /\ LexemesFrom(sql)[b] \subseteq LexemeStarts(sql)
    /\ s.holes \cup {k \in LexemesFrom(sql)[b] : Placeholder(sql, k)} = Lexed(sql).holes
    /\ (~ s.named /\ Fine(sql, b)) <=> Lexed(sql).ok

LEMMA PendingMoves ==
    ASSUME NEW S, NEW sql \in Seq(S), NEW i \in 1..Len(sql), NEW s, NEW t,
           Pending(sql, s, i), LexemeEnd(sql, i) <= Len(sql),
           t.holes = s.holes \cup (IF Placeholder(sql, i) THEN {i} ELSE {}),
           t.named <=> (s.named \/ NamedPlaceholder(sql, i))
    PROVE  Pending(sql, t, LexemeEnd(sql, i) + 1)
<1>1. PICK b : b = LexemeEnd(sql, i) + 1
  OBVIOUS
<1>2. LexemesFrom(sql)[i] = {i} \cup LexemesFrom(sql)[b]
  BY <1>1, LexemesUnfold
<1>3. t.holes \cup {k \in LexemesFrom(sql)[b] : Placeholder(sql, k)} =
        s.holes \cup {k \in LexemesFrom(sql)[i] : Placeholder(sql, k)}
  BY <1>2
<1>4. Fine(sql, i) <=> Fine(sql, b) /\ ~ NamedPlaceholder(sql, i)
  BY <1>2 DEF Fine
<1>5. (~ t.named /\ Fine(sql, b)) <=> (~ s.named /\ Fine(sql, i))
  BY <1>4
<1>6. LexemesFrom(sql)[b] \subseteq LexemeStarts(sql)
  BY <1>2 DEF Pending
<1> QED
  BY <1>1, <1>3, <1>5, <1>6, Zenon DEF Pending

(* Where something is pending, a lexeme starts.                            *)
LEMMA PendingStarts ==
    ASSUME NEW S, NEW sql \in Seq(S), NEW i \in 1..Len(sql), NEW s, Pending(sql, s, i)
    PROVE  i \in LexemeStarts(sql)
<1>1. i \in LexemesFrom(sql)[i]
  BY LexemesUnfold
<1> QED
  BY <1>1 DEF Pending

(* The scanner is within the lexeme that starts at i.                      *)
Inside(sql, s, i) ==
    \/ /\ s.state = "escape_single_quote" /\ OpensEscape(sql, i)
       /\ InQuote(sql, i + 1, "'", TRUE, s.at)
    \/ s.state = "single_quote" /\ sql[i] = "'" /\ InQuote(sql, i, "'", FALSE, s.at)
    \/ s.state = "double_quote" /\ sql[i] = "dq" /\ InQuote(sql, i, "dq", FALSE, s.at)
    \/ s.state = "line_comment" /\ OpensLine(sql, i) /\ InLine(sql, i, s.at)
    \/ s.state = "block_comment" /\ OpensComment(sql, i) /\ InComment(sql, i, s.at, s.depth)
    \/ /\ s.state = "dollar_quote" /\ OpensDollar(sql, i)
       /\ s.delimiter = SubSeq(sql, i, TagEnd(sql, i))
       /\ InDollar(sql, TagEnd(sql, i), s.delimiter, s.at)
    \/ /\ s.state = "normal" /\ OpensName(sql, i) /\ s.at <= NameEnd(sql, i)
       /\ sql[s.at - 1] \in WordSymbols

ScanInv(sql, s) ==
    /\ ScanTyped(sql, s)
    /\ \/ s.state = "normal" /\ Pending(sql, s, s.at)
       \/ \E i \in 1..Len(sql) : i < s.at /\ Inside(sql, s, i) /\ Pending(sql, s, i)

(* Nothing that opens a region is a placeholder.                           *)
LEMMA Opening ==
    ASSUME NEW S, NEW sql \in Seq(S), NEW i \in 1..Len(sql), NEW s, Inside(sql, s, i)
    PROVE  sql[i] # "%"
<1>0. Len(sql) \in Nat
  BY LenProperties
<1>1. /\ OpensEscape(sql, i) => sql[i] = "E"
      /\ OpensLine(sql, i) => sql[i] = "-"
      /\ OpensComment(sql, i) => sql[i] = "/"
  BY Openers
<1>2. OpensDollar(sql, i) => sql[i] = "$"
  BY <1>0, DelimiterIs
<1>3. OpensName(sql, i) => sql[i] # "%"
  BY DEF OpensName, WordSymbols, Letters, Digits
<1> QED
  BY <1>1, <1>2, <1>3 DEF Inside

LEMMA GoesOn ==
    ASSUME NEW S, NEW sql \in Seq(S), NEW i \in 1..Len(sql), NEW s, NEW t,
           ScanTyped(sql, t), i < t.at, Pending(sql, s, i),
           t.holes = s.holes, t.named = s.named, Inside(sql, t, i)
    PROVE  ScanInv(sql, t)
<1>1. Pending(sql, t, i)
  BY DEF Pending
<1> QED
  BY <1>1 DEF ScanInv

LEMMA Finishes ==
    ASSUME NEW S, NEW sql \in Seq(S), NEW i \in 1..Len(sql), NEW s, NEW t,
           Pending(sql, s, i), sql[i] # "%",
           ScanTyped(sql, t), t.state = "normal", t.holes = s.holes, t.named = s.named,
           LexemeEnd(sql, i) = t.at - 1
    PROVE  ScanInv(sql, t)
<1>0. Len(sql) \in Nat
  BY LenProperties
<1>1. PICK a : a = t.at
  OBVIOUS
<1>2. a \in 1..(Len(sql) + 1)
  BY <1>1 DEF ScanTyped
<1>3. LexemeEnd(sql, i) <= Len(sql) /\ LexemeEnd(sql, i) + 1 = a
  BY <1>0, <1>1, <1>2
<1>4. ~ Placeholder(sql, i) /\ ~ NamedPlaceholder(sql, i)
  BY Openers
<1>5. Pending(sql, t, LexemeEnd(sql, i) + 1)
  BY <1>3, <1>4, PendingMoves
<1> QED
  BY <1>1, <1>3, <1>5 DEF ScanInv

(* A step within quotes: it stays there, or it is at the closing one.      *)
StepQuoted(sql, s, quote, escapes) ==
    IF escapes /\ sql[s.at] = "\\" /\ s.at < Len(sql) THEN Skip(s, 2)
    ELSE IF Has(sql, s.at, <<quote, quote>>) THEN Skip(s, 2)
    ELSE IF sql[s.at] = quote THEN Enter(s, 1, "normal") ELSE Skip(s, 1)

LEMMA QuotedStep ==
    ASSUME NEW S, NEW sql \in Seq(S), NEW s, ScanTyped(sql, s),
           NEW r, NEW quote, NEW escapes, InQuotes(sql, r, quote, escapes, s.at), NEW t,
           t = StepQuoted(sql, s, quote, escapes)
    PROVE  /\ ScanTyped(sql, t) /\ s.at < t.at /\ t.holes = s.holes /\ t.named = s.named
           /\ \/ t.state = s.state /\ InQuote(sql, r, quote, escapes, t.at)
              \/ /\ t.state = "normal" /\ sql[s.at] = quote /\ t.at = s.at + 1
                 /\ QuoteEnd(sql, r, quote, escapes) = s.at
<1>0. t = IF escapes /\ sql[s.at] = "\\" /\ s.at < Len(sql) THEN Skip(s, 2)
          ELSE IF Has(sql, s.at, <<quote, quote>>) THEN Skip(s, 2)
          ELSE IF sql[s.at] = quote THEN Enter(s, 1, "normal") ELSE Skip(s, 1)
  BY DEF StepQuoted
<1>1. PICK at : at = s.at
  OBVIOUS
<1>2. Len(sql) \in Nat /\ at \in Nat /\ at \in 1..(Len(sql) + 1) /\ at <= Len(sql)
  BY <1>1, LenProperties DEF ScanTyped, InQuotes
<1>3. Has(sql, at, <<quote, quote>>) <=> at < Len(sql) /\ sql[at] = quote /\ sql[at + 1] = quote
  BY <1>2, HasTwo
<1>4. InQuotes(sql, r, quote, escapes, at)
  BY <1>1
<1>5. /\ escapes /\ sql[at] = "\\" /\ at < Len(sql)
           => InQuote(sql, r, quote, escapes, at + 2)
      /\ at < Len(sql) /\ sql[at] = quote /\ sql[at + 1] = quote
           => InQuote(sql, r, quote, escapes, at + 2)
      /\ sql[at] # quote /\ ~ (escapes /\ sql[at] = "\\" /\ at < Len(sql))
           => InQuote(sql, r, quote, escapes, at + 1)
      /\ sql[at] = quote /\ (at < Len(sql) => sql[at + 1] # quote)
           => QuoteEnd(sql, r, quote, escapes) = at
  BY <1>4, QuoteGoesOn
<1>6. "normal" \in ScanStates
  BY DEF ScanStates
<1>7. CASE escapes /\ sql[at] = "\\" /\ at < Len(sql)
  <2>1. t = Skip(s, 2) /\ s.at + 2 <= Len(sql) + 1
    BY <1>0, <1>1, <1>2, <1>7
  <2>2. /\ ScanTyped(sql, t) /\ t.at = at + 2 /\ t.state = s.state /\ t.holes = s.holes
        /\ t.named = s.named
    BY <1>1, <1>2, <1>6, <2>1, Moved
  <2>3. InQuote(sql, r, quote, escapes, at + 2)
    BY ONLY <1>5, <1>7
  <2>4. InQuote(sql, r, quote, escapes, t.at)
    BY ONLY <2>2, <2>3
  <2> QED
    BY ONLY <1>1, <1>2, <2>2, <2>4
<1>8. CASE ~ (escapes /\ sql[at] = "\\" /\ at < Len(sql)) /\ Has(sql, at, <<quote, quote>>)
  <2>1. t = Skip(s, 2) /\ s.at + 2 <= Len(sql) + 1
    BY <1>0, <1>1, <1>2, <1>3, <1>8
  <2>2. /\ ScanTyped(sql, t) /\ t.at = at + 2 /\ t.state = s.state /\ t.holes = s.holes
        /\ t.named = s.named
    BY <1>1, <1>2, <1>6, <2>1, Moved
  <2> QED
    BY <1>1, <1>2, <1>3, <1>5, <1>8, <2>2
<1>9. CASE /\ ~ (escapes /\ sql[at] = "\\" /\ at < Len(sql))
           /\ ~ Has(sql, at, <<quote, quote>>) /\ sql[at] = quote
  <2>1. t = Enter(s, 1, "normal") /\ s.at + 1 <= Len(sql) + 1
    BY <1>0, <1>1, <1>2, <1>9
  <2>2. /\ ScanTyped(sql, t) /\ t.at = at + 1 /\ t.state = "normal" /\ t.holes = s.holes
        /\ t.named = s.named
    BY <1>1, <1>2, <1>6, <2>1, Moved
  <2> QED
    BY <1>1, <1>2, <1>3, <1>5, <1>9, <2>2
<1>10. CASE /\ ~ (escapes /\ sql[at] = "\\" /\ at < Len(sql))
            /\ ~ Has(sql, at, <<quote, quote>>) /\ sql[at] # quote
  <2>1. t = Skip(s, 1) /\ s.at + 1 <= Len(sql) + 1
    BY <1>0, <1>1, <1>2, <1>10
  <2>2. /\ ScanTyped(sql, t) /\ t.at = at + 1 /\ t.state = s.state /\ t.holes = s.holes
        /\ t.named = s.named
    BY <1>1, <1>2, <1>6, <2>1, Moved
  <2> QED
    BY <1>1, <1>2, <1>5, <1>10, <2>2
<1> QED
  BY <1>7, <1>8, <1>9, <1>10

LEMMA QuotedStepHolds ==
    ASSUME NEW S, NEW sql \in Seq(S), NEW s, ScanTyped(sql, s), NEW i \in 1..Len(sql),
           i < s.at, Pending(sql, s, i), sql[i] # "%",
           NEW r, NEW quote, NEW escapes,
           InQuotes(sql, r, quote, escapes, s.at),
           LexemeEnd(sql, i) = QuoteEnd(sql, r, quote, escapes),
           \A u : u.state = s.state /\ InQuote(sql, r, quote, escapes, u.at) => Inside(sql, u, i)
    PROVE  /\ ScanInv(sql, StepQuoted(sql, s, quote, escapes))
           /\ s.at < StepQuoted(sql, s, quote, escapes).at
<1>1. PICK t : t = StepQuoted(sql, s, quote, escapes)
  OBVIOUS
<1>2. /\ ScanTyped(sql, t) /\ s.at < t.at /\ t.holes = s.holes /\ t.named = s.named
      /\ \/ t.state = s.state /\ InQuote(sql, r, quote, escapes, t.at)
         \/ /\ t.state = "normal" /\ sql[s.at] = quote /\ t.at = s.at + 1
            /\ QuoteEnd(sql, r, quote, escapes) = s.at
  BY <1>1, QuotedStep
<1>3. Len(sql) \in Nat /\ s.at \in Nat /\ t.at \in Nat
  BY <1>2, LenProperties DEF ScanTyped
<1>4. i < t.at
  BY <1>2, <1>3
<1>5. CASE t.state = s.state /\ InQuote(sql, r, quote, escapes, t.at)
  <2>1. Inside(sql, t, i)
    BY <1>5
  <2> QED
    BY <1>1, <1>2, <1>4, <2>1, GoesOn
<1>6. CASE /\ t.state = "normal" /\ sql[s.at] = quote /\ t.at = s.at + 1
           /\ QuoteEnd(sql, r, quote, escapes) = s.at
  <2>1. LexemeEnd(sql, i) = s.at
    BY <1>6
  <2>2. LexemeEnd(sql, i) = t.at - 1
    BY ONLY <1>3, <1>6, <2>1
  <2> QED
    BY <1>1, <1>2, <1>6, <2>2, Finishes
<1> QED
  BY <1>2, <1>5, <1>6

LEMMA StepInQuotes ==
    ASSUME NEW S, NEW sql \in Seq(S), NEW s, ScanTyped(sql, s), s.at <= Len(sql),
           NEW i \in 1..Len(sql), i < s.at, Inside(sql, s, i), Pending(sql, s, i),
           s.state \in {"single_quote", "escape_single_quote", "double_quote"}
    PROVE  ScanInv(sql, ScanStep(sql, s)) /\ s.at < ScanStep(sql, s).at
<1>0. Len(sql) \in Nat /\ s.at \in Nat /\ ~ (s.at > Len(sql)) /\ i \in Nat /\ i + 1 \in Nat
  BY LenProperties DEF ScanTyped
<1>1. sql[i] # "%"
  BY Opening
<1>2. CASE s.state = "escape_single_quote"
  <2>1. OpensEscape(sql, i) /\ InQuote(sql, i + 1, "'", TRUE, s.at)
    BY <1>2 DEF Inside
  <2>2. ScanStep(sql, s) = StepQuoted(sql, s, "'", TRUE)
    BY <1>0, <1>2 DEF ScanStep, InString, StepQuoted
  <2>3. i + 1 < s.at
    BY <2>1 DEF InQuote
  <2>4. InQuotes(sql, i + 1, "'", TRUE, s.at)
    BY <1>0, <2>1, <2>3 DEF InQuotes
  <2>5. LexemeEnd(sql, i) = QuoteEnd(sql, i + 1, "'", TRUE)
    BY <2>1, LexemeEndIs
  <2>6. \A u : u.state = s.state /\ InQuote(sql, i + 1, "'", TRUE, u.at) => Inside(sql, u, i)
    BY <1>2, <2>1 DEF Inside
  <2> QED
    BY <1>1, <2>2, <2>4, <2>5, <2>6, QuotedStepHolds
<1>3. CASE s.state = "single_quote"
  <2>1. sql[i] = "'" /\ InQuote(sql, i, "'", FALSE, s.at)
    BY <1>3 DEF Inside
  <2>2. ScanStep(sql, s) = StepQuoted(sql, s, "'", FALSE)
    BY <1>0, <1>3 DEF ScanStep, InString, StepQuoted
  <2>3. InQuotes(sql, i, "'", FALSE, s.at)
    BY <1>0, <2>1 DEF InQuotes
  <2>4. LexemeEnd(sql, i) = QuoteEnd(sql, i, "'", FALSE)
    BY <2>1, LexemeEndIs
  <2>5. \A u : u.state = s.state /\ InQuote(sql, i, "'", FALSE, u.at) => Inside(sql, u, i)
    BY <1>3, <2>1 DEF Inside
  <2> QED
    BY <1>1, <2>2, <2>3, <2>4, <2>5, QuotedStepHolds
<1>4. CASE s.state = "double_quote"
  <2>1. sql[i] = "dq" /\ InQuote(sql, i, "dq", FALSE, s.at)
    BY <1>4 DEF Inside
  <2>2. ScanStep(sql, s) = StepQuoted(sql, s, "dq", FALSE)
    BY <1>0, <1>4 DEF ScanStep, InName, StepQuoted
  <2>3. InQuotes(sql, i, "dq", FALSE, s.at)
    BY <1>0, <2>1 DEF InQuotes
  <2>4. LexemeEnd(sql, i) = QuoteEnd(sql, i, "dq", FALSE)
    BY <2>1, LexemeEndIs
  <2>5. \A u : u.state = s.state /\ InQuote(sql, i, "dq", FALSE, u.at) => Inside(sql, u, i)
    BY <1>4, <2>1 DEF Inside
  <2> QED
    BY <1>1, <2>2, <2>3, <2>4, <2>5, QuotedStepHolds
<1> QED
  BY <1>2, <1>3, <1>4

LEMMA RegionStep ==
    ASSUME NEW S, NEW sql \in Seq(S), NEW i \in 1..Len(sql), NEW s, NEW t,
           ScanTyped(sql, s), ScanTyped(sql, t), i < s.at, s.at < t.at,
           Pending(sql, s, i), Inside(sql, s, i), t.holes = s.holes, t.named = s.named,
           \/ Inside(sql, t, i)
           \/ t.state = "normal" /\ LexemeEnd(sql, i) = t.at - 1
    PROVE  ScanInv(sql, t)
<1>1. i < t.at
  BY LenProperties DEF ScanTyped
<1>2. CASE Inside(sql, t, i)
  BY <1>1, <1>2, GoesOn
<1>3. CASE t.state = "normal" /\ LexemeEnd(sql, i) = t.at - 1
  <2>1. sql[i] # "%"
    BY Opening
  <2> QED
    BY <1>3, <2>1, Finishes
<1> QED
  BY <1>2, <1>3

LEMMA StepInLine ==
    ASSUME NEW S, NEW sql \in Seq(S), NEW s, ScanTyped(sql, s), s.at <= Len(sql),
           NEW i \in 1..Len(sql), i < s.at, Inside(sql, s, i), Pending(sql, s, i),
           s.state = "line_comment"
    PROVE  ScanInv(sql, ScanStep(sql, s)) /\ s.at < ScanStep(sql, s).at
<1>0. Len(sql) \in Nat /\ s.at \in Nat /\ ~ (s.at > Len(sql)) /\ i \in Nat
  BY LenProperties DEF ScanTyped
<1>1. PICK at \in Nat : at = s.at
  BY <1>0
<1>2. PICK t : t = ScanStep(sql, s)
  OBVIOUS
<1>3. t = InLineComment(sql, s)
  BY <1>0, <1>2 DEF ScanStep
<1>4. OpensLine(sql, i) /\ InLine(sql, i, at)
  BY <1>1 DEF Inside
<1>5. at <= Len(sql)
  BY <1>1
<1>6. /\ sql[at] # "nl" => InLine(sql, i, at + 1)
      /\ sql[at] = "nl" => LineEnd(sql, i) = at
  BY <1>0, <1>4, <1>5, LineGoesOn
<1>7. s.at + 1 <= Len(sql) + 1 /\ "normal" \in ScanStates
  BY <1>0 DEF ScanStates
<1>8. CASE sql[at] = "nl"
  <2>1. t = Enter(s, 1, "normal")
    BY <1>1, <1>3, <1>8 DEF InLineComment
  <2>2. /\ ScanTyped(sql, t) /\ t.at = s.at + 1 /\ t.state = "normal" /\ t.holes = s.holes
        /\ t.named = s.named
    BY <1>0, <1>7, <2>1, Moved
  <2>3. LexemeEnd(sql, i) = at
    BY <1>4, <1>6, <1>8, LexemeEndIs
  <2>4. t.at - 1 = at /\ s.at < t.at
    BY <1>1, <2>2
  <2>5. LexemeEnd(sql, i) = t.at - 1
    BY <2>3, <2>4
  <2> QED
    BY <1>2, <2>2, <2>4, <2>5, RegionStep
<1>9. CASE sql[at] # "nl"
  <2>1. t = Skip(s, 1)
    BY <1>1, <1>3, <1>9 DEF InLineComment
  <2>2. /\ ScanTyped(sql, t) /\ t.at = s.at + 1 /\ t.state = s.state /\ t.holes = s.holes
        /\ t.named = s.named
    BY <1>0, <1>7, <2>1, Moved
  <2>3. t.at = at + 1 /\ s.at < t.at
    BY <1>1, <2>2
  <2>4. Inside(sql, t, i)
    BY <1>4, <1>6, <1>9, <2>2, <2>3 DEF Inside
  <2> QED
    BY <1>2, <2>2, <2>3, <2>4, RegionStep
<1> QED
  BY <1>8, <1>9

LEMMA StepInDollar ==
    ASSUME NEW S, NEW sql \in Seq(S), NEW s, ScanTyped(sql, s), s.at <= Len(sql),
           NEW i \in 1..Len(sql), i < s.at, Inside(sql, s, i), Pending(sql, s, i),
           s.state = "dollar_quote"
    PROVE  ScanInv(sql, ScanStep(sql, s)) /\ s.at < ScanStep(sql, s).at
<1>0. Len(sql) \in Nat /\ s.at \in Nat /\ ~ (s.at > Len(sql)) /\ i \in Nat
  BY LenProperties DEF ScanTyped
<1>1. PICK at \in Nat : at = s.at
  BY <1>0
<1>2. PICK t : t = ScanStep(sql, s)
  OBVIOUS
<1>3. PICK open : open = TagEnd(sql, i)
  OBVIOUS
<1>4. PICK tag : tag = SubSeq(sql, i, open)
  OBVIOUS
<1>5. t = IF Has(sql, at, tag) THEN Enter(s, Len(tag), "normal") ELSE Skip(s, 1)
  <2>1. s.delimiter = tag
    BY <1>3, <1>4 DEF Inside
  <2> QED
    BY <1>0, <1>1, <1>2, <2>1 DEF ScanStep, InDollarQuote
<1>6. /\ OpensDollar(sql, i) /\ InDollar(sql, open, tag, at) /\ s.delimiter = tag
  BY <1>1, <1>3, <1>4 DEF Inside
<1>7. open \in (i + 1)..Len(sql)
  BY <1>0, <1>3, <1>6, DelimiterIs
<1>8. PICK n : n = Len(tag)
  OBVIOUS
<1>9. n = open - i + 1 /\ n \in Nat \ {0}
  <2>1. Len(tag) = open - i + 1
    BY <1>0, <1>4, <1>7, SubSeqProperties
  <2> QED
    BY <1>0, <1>7, <1>8, <2>1
<1>10. /\ Has(sql, at, tag) => DollarEnd(sql, i, open) = at + n - 1
       /\ ~ Has(sql, at, tag) => InDollar(sql, open, tag, at + 1)
  <2>1. open \in 1..Len(sql) /\ Len(tag) \in Nat \ {0}
    BY <1>0, <1>7, <1>8, <1>9
  <2>2. PICK o \in 1..Len(sql) : o = open
    BY <2>1
  <2>3. tag = SubSeq(sql, i, o) /\ InDollar(sql, o, tag, at)
    BY <1>4, <1>6, <2>2
  <2>4. IsTag(sql, i, o, tag)
    BY ONLY <2>1, <2>3 DEF IsTag
  <2>5. /\ Has(sql, at, tag) => DollarEnd(sql, i, o) = at + Len(tag) - 1
        /\ ~ Has(sql, at, tag) => InDollar(sql, o, tag, at + 1)
    BY ONLY <1>0, at \in Nat, o \in 1..Len(sql), <2>3, <2>4, DollarGoesOn, ZenonT(30)
  <2> QED
    BY <1>8, <2>2, <2>5
<1>11. "normal" \in ScanStates
  BY DEF ScanStates
<1>12. CASE Has(sql, at, tag)
  <2>1. t = Enter(s, n, "normal")
    BY <1>5, <1>8, <1>12
  <2>2. at + n - 1 <= Len(sql) /\ SubSeq(sql, at, at + n - 1) = tag
    BY <1>8, <1>12 DEF Has
  <2>3. n \in Nat /\ s.at + n <= Len(sql) + 1
    BY ONLY <1>0, <1>1, <1>9, <2>2
  <2>4. /\ ScanTyped(sql, t) /\ t.at = s.at + n /\ t.state = "normal" /\ t.holes = s.holes
        /\ t.named = s.named
    BY <1>0, <1>11, <2>1, <2>3, Moved
  <2>5. LexemeEnd(sql, i) = at + n - 1
    BY <1>3, <1>6, <1>10, <1>12, LexemeEndIs
  <2>6. t.at - 1 = at + n - 1 /\ s.at < t.at
    BY ONLY <1>0, <1>1, <1>9, <2>4
  <2>7. LexemeEnd(sql, i) = t.at - 1
    BY <2>5, <2>6
  <2> QED
    BY <1>2, <2>4, <2>6, <2>7, RegionStep
<1>13. CASE ~ Has(sql, at, tag)
  <2>1. t = Skip(s, 1)
    BY <1>5, <1>13
  <2>2. s.at + 1 <= Len(sql) + 1
    BY <1>0
  <2>3. /\ ScanTyped(sql, t) /\ t.at = s.at + 1 /\ t.state = s.state /\ t.holes = s.holes
        /\ t.named = s.named /\ t.delimiter = s.delimiter
    BY <1>0, <1>11, <2>1, <2>2, Moved
  <2>4. t.at = at + 1 /\ s.at < t.at
    BY <1>1, <2>3
  <2>5. InDollar(sql, open, tag, t.at)
    BY <1>10, <1>13, <2>4
  <2>6. Inside(sql, t, i)
    BY <1>3, <1>4, <1>6, <2>3, <2>5 DEF Inside
  <2> QED
    BY <1>2, <2>3, <2>4, <2>6, RegionStep
<1> QED
  BY <1>12, <1>13

(* The other ways in which the scanner's record changes.                   *)
Deeper(u, depth, state) == [u EXCEPT !.depth = depth, !.state = state]
Dollared(u, at, delimiter) ==
    [u EXCEPT !.at = at, !.state = "dollar_quote", !.delimiter = delimiter]
Holed(u, holes) == [u EXCEPT !.holes = holes]
SawNamed(u) == [u EXCEPT !.named = TRUE]

LEMMA Deepens ==
    ASSUME NEW sql, NEW u, ScanTyped(sql, u), NEW depth, NEW state \in ScanStates
    PROVE  /\ ScanTyped(sql, Deeper(u, depth, state))
           /\ Deeper(u, depth, state).at = u.at /\ Deeper(u, depth, state).state = state
           /\ Deeper(u, depth, state).holes = u.holes
           /\ Deeper(u, depth, state).named = u.named /\ Deeper(u, depth, state).depth = depth
<1>1. PICK ua, us, ud, ul, uh, un :
        u = [at |-> ua, state |-> us, depth |-> ud, delimiter |-> ul, holes |-> uh, named |-> un]
  BY DEF ScanTyped
<1>2. /\ ua \in 1..(Len(sql) + 1) /\ us \in ScanStates /\ uh \subseteq 1..Len(sql)
      /\ un \in BOOLEAN /\ u.at = ua /\ u.state = us /\ u.holes = uh /\ u.named = un
  BY <1>1 DEF ScanTyped
<1>3. PICK a : a = Deeper(u, depth, state)
  OBVIOUS
<1>4. a = [at |-> ua, state |-> state, depth |-> depth, delimiter |-> ul, holes |-> uh,
           named |-> un]
  <2>1. PICK v : v = [u EXCEPT !.depth = depth]
    OBVIOUS
  <2>2. v = [at |-> ua, state |-> us, depth |-> depth, delimiter |-> ul, holes |-> uh,
             named |-> un]
    BY <1>1, <2>1
  <2>3. a = [v EXCEPT !.state = state]
    BY <1>3, <2>1 DEF Deeper
  <2> QED
    BY <2>2, <2>3
<1>5. /\ ScanTyped(sql, a) /\ a.at = ua /\ a.state = state /\ a.holes = uh
      /\ a.named = un /\ a.depth = depth
  BY <1>2, <1>4 DEF ScanTyped
<1> QED
  BY <1>2, <1>3, <1>5

LEMMA Dollars ==
    ASSUME NEW sql, NEW u, ScanTyped(sql, u), NEW at \in 1..(Len(sql) + 1), NEW delimiter
    PROVE  /\ ScanTyped(sql, Dollared(u, at, delimiter))
           /\ Dollared(u, at, delimiter).at = at
           /\ Dollared(u, at, delimiter).state = "dollar_quote"
           /\ Dollared(u, at, delimiter).holes = u.holes
           /\ Dollared(u, at, delimiter).named = u.named
           /\ Dollared(u, at, delimiter).delimiter = delimiter
<1>1. PICK ua, us, ud, ul, uh, un :
        u = [at |-> ua, state |-> us, depth |-> ud, delimiter |-> ul, holes |-> uh, named |-> un]
  BY DEF ScanTyped
<1>2. /\ ua \in 1..(Len(sql) + 1) /\ us \in ScanStates /\ uh \subseteq 1..Len(sql)
      /\ un \in BOOLEAN /\ u.at = ua /\ u.state = us /\ u.holes = uh /\ u.named = un
  BY <1>1 DEF ScanTyped
<1>3. PICK b : b = Dollared(u, at, delimiter)
  OBVIOUS
<1>4. b = [at |-> at, state |-> "dollar_quote", depth |-> ud, delimiter |-> delimiter,
           holes |-> uh, named |-> un]
  <2>1. PICK v : v = [u EXCEPT !.at = at]
    OBVIOUS
  <2>2. v = [at |-> at, state |-> us, depth |-> ud, delimiter |-> ul, holes |-> uh,
             named |-> un]
    BY <1>1, <2>1
  <2>3. PICK w : w = [v EXCEPT !.state = "dollar_quote"]
    OBVIOUS
  <2>4. w = [at |-> at, state |-> "dollar_quote", depth |-> ud, delimiter |-> ul,
             holes |-> uh, named |-> un]
    BY <2>2, <2>3
  <2>5. b = [w EXCEPT !.delimiter = delimiter]
    BY <1>3, <2>1, <2>3 DEF Dollared
  <2> QED
    BY <2>4, <2>5
<1>5. /\ ScanTyped(sql, b) /\ b.at = at /\ b.state = "dollar_quote" /\ b.holes = uh
      /\ b.named = un /\ b.delimiter = delimiter
  BY <1>2, <1>4 DEF ScanTyped, ScanStates
<1> QED
  BY <1>2, <1>3, <1>5

LEMMA Notes ==
    ASSUME NEW sql, NEW u, ScanTyped(sql, u), NEW holes \in SUBSET (1..Len(sql))
    PROVE  /\ ScanTyped(sql, Holed(u, holes))
           /\ Holed(u, holes).at = u.at /\ Holed(u, holes).state = u.state
           /\ Holed(u, holes).holes = holes /\ Holed(u, holes).named = u.named
           /\ ScanTyped(sql, SawNamed(u))
           /\ SawNamed(u).at = u.at /\ SawNamed(u).state = u.state
           /\ SawNamed(u).holes = u.holes /\ SawNamed(u).named = TRUE
<1>1. PICK ua, us, ud, ul, uh, un :
        u = [at |-> ua, state |-> us, depth |-> ud, delimiter |-> ul, holes |-> uh, named |-> un]
  BY DEF ScanTyped
<1>2. /\ ua \in 1..(Len(sql) + 1) /\ us \in ScanStates /\ uh \subseteq 1..Len(sql)
      /\ un \in BOOLEAN /\ u.at = ua /\ u.state = us /\ u.holes = uh /\ u.named = un
  BY <1>1 DEF ScanTyped
<1>3. PICK c : c = Holed(u, holes)
  OBVIOUS
<1>4. c = [at |-> ua, state |-> us, depth |-> ud, delimiter |-> ul, holes |-> holes,
           named |-> un]
  BY <1>1, <1>3 DEF Holed
<1>5. PICK d : d = SawNamed(u)
  OBVIOUS
<1>6. d = [at |-> ua, state |-> us, depth |-> ud, delimiter |-> ul, holes |-> uh,
           named |-> TRUE]
  BY <1>1, <1>5 DEF SawNamed
<1>7. /\ ScanTyped(sql, c) /\ c.at = ua /\ c.state = us /\ c.holes = holes /\ c.named = un
  BY <1>2, <1>4 DEF ScanTyped
<1>8. /\ ScanTyped(sql, d) /\ d.at = ua /\ d.state = us /\ d.holes = uh /\ d.named = TRUE
  BY <1>2, <1>6 DEF ScanTyped
<1> QED
  BY <1>2, <1>3, <1>5, <1>7, <1>8

LEMMA StepInComment ==
    ASSUME NEW S, NEW sql \in Seq(S), NEW s, ScanTyped(sql, s), s.at <= Len(sql),
           NEW i \in 1..Len(sql), i < s.at, Inside(sql, s, i), Pending(sql, s, i),
           s.state = "block_comment"
    PROVE  ScanInv(sql, ScanStep(sql, s)) /\ s.at < ScanStep(sql, s).at
<1>0. Len(sql) \in Nat /\ s.at \in Nat /\ ~ (s.at > Len(sql)) /\ i \in Nat
  BY LenProperties DEF ScanTyped
<1>1. PICK at \in 1..(Len(sql) + 1) : at = s.at
  BY DEF ScanTyped
<1>2. PICK t : t = ScanStep(sql, s)
  OBVIOUS
<1>3. PICK depth : depth = s.depth
  OBVIOUS
<1>4. t = InBlockComment(sql, s)
  BY <1>0, <1>2 DEF ScanStep
<1>5. OpensComment(sql, i) /\ InComment(sql, i, at, depth)
  BY <1>1, <1>3 DEF Inside
<1>6. at <= Len(sql)
  BY <1>1
<1>7. /\ Has(sql, at, <<"/", "*">>) => InComment(sql, i, at + 2, depth + 1)
      /\ ~ Has(sql, at, <<"/", "*">>) /\ Has(sql, at, <<"*", "/">>)
           => IF depth = 1 THEN CommentEnd(sql, i) = at + 1
                           ELSE InComment(sql, i, at + 2, depth - 1)
      /\ ~ Has(sql, at, <<"/", "*">>) /\ ~ Has(sql, at, <<"*", "/">>)
           => InComment(sql, i, at + 1, depth)
  BY <1>5, <1>6, CommentGoesOn
<1>8. "normal" \in ScanStates /\ s.at + 1 <= Len(sql) + 1 /\ s.state \in ScanStates
  BY <1>0 DEF ScanStates
<1>9. CASE Has(sql, at, <<"/", "*">>)
  <2>1. at < Len(sql)
    BY <1>0, <1>1, <1>9, HasTwo
  <2>2. s.at + 2 <= Len(sql) + 1
    BY <1>0, <1>1, <2>1
  <2>3. PICK u : u = Skip(s, 2)
    OBVIOUS
  <2>4. /\ ScanTyped(sql, u) /\ u.at = s.at + 2 /\ u.state = s.state /\ u.holes = s.holes
        /\ u.named = s.named /\ u.depth = s.depth
    BY <1>0, <1>8, <2>2, <2>3, Moved
  <2>5. PICK d : d = depth + 1
    OBVIOUS
  <2>6. t = Deeper(u, d, s.state)
    <3>1. t = [u EXCEPT !.depth = d]
      BY <1>1, <1>3, <1>4, <1>9, <2>3, <2>4, <2>5 DEF InBlockComment
    <3>2. u = [at |-> u.at, state |-> u.state, depth |-> u.depth, delimiter |-> u.delimiter,
               holes |-> u.holes, named |-> u.named]
      BY <2>4 DEF ScanTyped
    <3>3. t = [t EXCEPT !.state = s.state]
      BY <2>4, <3>1, <3>2
    <3> QED
      BY <3>1, <3>3 DEF Deeper
  <2>7. /\ ScanTyped(sql, t) /\ t.depth = depth + 1 /\ t.at = at + 2
        /\ t.state = "block_comment" /\ t.holes = s.holes /\ t.named = s.named /\ s.at < t.at
    <3>1. /\ ScanTyped(sql, t) /\ t.at = u.at /\ t.state = s.state
          /\ t.holes = u.holes /\ t.named = u.named /\ t.depth = d
      BY <1>8, <2>4, <2>6, Deepens
    <3> QED
      BY <1>0, <1>1, <2>4, <2>5, <3>1
  <2>8. Inside(sql, t, i)
    BY <1>5, <1>7, <1>9, <2>7 DEF Inside
  <2> QED
    BY <1>2, <2>7, <2>8, RegionStep
<1>10. CASE ~ Has(sql, at, <<"/", "*">>) /\ Has(sql, at, <<"*", "/">>)
  <2>1. at < Len(sql)
    BY <1>0, <1>1, <1>10, HasTwo
  <2>2. s.at + 2 <= Len(sql) + 1
    BY <1>0, <1>1, <2>1
  <2>3. PICK u : u = Skip(s, 2)
    OBVIOUS
  <2>4. /\ ScanTyped(sql, u) /\ u.at = s.at + 2 /\ u.state = s.state /\ u.holes = s.holes
        /\ u.named = s.named /\ u.depth = s.depth
    BY <1>0, <1>8, <2>2, <2>3, Moved
  <2>5. PICK state \in ScanStates : state = IF depth = 1 THEN "normal" ELSE s.state
    BY <1>8
  <2>6. PICK d : d = depth - 1
    OBVIOUS
  <2>7. /\ ScanTyped(sql, t) /\ t.at = u.at /\ t.state = state
        /\ t.holes = u.holes /\ t.named = u.named /\ t.depth = depth - 1
    <3>1. t = [u EXCEPT !.depth = d, !.state = state]
      BY <1>1, <1>3, <1>4, <1>10, <2>3, <2>4, <2>5, <2>6 DEF InBlockComment
    <3>2. t = Deeper(u, d, state)
      BY <3>1 DEF Deeper
    <3> QED
      BY <2>4, <2>6, <3>2, Deepens
  <2>8. /\ t.at = at + 2 /\ t.holes = s.holes /\ t.named = s.named /\ s.at < t.at
        /\ t.at - 1 = at + 1
    BY <1>0, <1>1, <2>4, <2>7
  <2>9. CASE depth = 1
    <3>1. CommentEnd(sql, i) = at + 1
      BY <1>7, <1>10, <2>9
    <3>2. LexemeEnd(sql, i) = t.at - 1
      BY <1>5, <2>8, <3>1, LexemeEndIs
    <3>3. t.state = "normal"
      BY <2>5, <2>7, <2>9
    <3> QED
      BY <1>2, <2>7, <2>8, <3>2, <3>3, RegionStep
  <2>10. CASE depth # 1
    <3>1. InComment(sql, i, at + 2, depth - 1)
      BY <1>7, <1>10, <2>10
    <3>2. t.state = "block_comment"
      BY <2>5, <2>7, <2>10
    <3>3. Inside(sql, t, i)
      BY <1>5, <2>7, <2>8, <3>1, <3>2 DEF Inside
    <3> QED
      BY <1>2, <2>7, <2>8, <3>3, RegionStep
  <2> QED
    BY <2>9, <2>10
<1>11. CASE ~ Has(sql, at, <<"/", "*">>) /\ ~ Has(sql, at, <<"*", "/">>)
  <2>1. t = Skip(s, 1)
    BY <1>1, <1>4, <1>11 DEF InBlockComment
  <2>2. /\ ScanTyped(sql, t) /\ t.at = s.at + 1 /\ t.state = s.state /\ t.holes = s.holes
        /\ t.named = s.named /\ t.depth = s.depth
    BY <1>0, <1>8, <2>1, Moved
  <2>3. t.at = at + 1 /\ s.at < t.at
    BY <1>1, <2>2
  <2>4. InComment(sql, i, t.at, t.depth)
    BY <1>3, <1>7, <1>11, <2>2, <2>3
  <2>5. Inside(sql, t, i)
    BY <1>5, <2>2, <2>4 DEF Inside
  <2> QED
    BY <1>2, <2>2, <2>3, <2>5, RegionStep
<1> QED
  BY <1>9, <1>10, <1>11

(* What the scanner does outside of quotes and comments.                   *)
StandsAt(sql, s, at) == ScanTyped(sql, s) /\ at \in 1..Len(sql) /\ at = s.at

LEMMA InNormalIs ==
    ASSUME NEW S, NEW sql \in Seq(S), NEW s, NEW at, StandsAt(sql, s, at),
           sql[at] = "$" => TagEnd(sql, at) = DelimiterEnd(sql, at)
    PROVE  /\ OpensEscape(sql, at) /\ ~ AfterName(sql, at)
                => InNormal(sql, s) = Enter(s, 2, "escape_single_quote")
           /\ sql[at] = "'" => InNormal(sql, s) = Enter(s, 1, "single_quote")
           /\ sql[at] = "dq" => InNormal(sql, s) = Enter(s, 1, "double_quote")
           /\ OpensLine(sql, at) => InNormal(sql, s) = Enter(s, 2, "line_comment")
           /\ OpensComment(sql, at)
                => InNormal(sql, s) = [Enter(s, 2, "block_comment") EXCEPT !.depth = 1]
           /\ OpensDollar(sql, at)
                => InNormal(sql, s) = Dollared(s, TagEnd(sql, at) + 1,
                                               SubSeq(sql, at, TagEnd(sql, at)))
           /\ sql[at] \in WordSymbols /\ (OpensEscape(sql, at) => AfterName(sql, at))
                => InNormal(sql, s) = Skip(s, 1)
           /\ LiteralPercent(sql, at) => InNormal(sql, s) = Skip(s, 2)
           /\ Placeholder(sql, at)
                => InNormal(sql, s) = Holed(Skip(s, 2), Skip(s, 2).holes \cup {at})
           /\ OpensNothing(sql, at) /\ NamedPlaceholder(sql, at)
                => InNormal(sql, s) = SawNamed(Skip(s, 1))
           /\ OpensNothing(sql, at) /\ ~ NamedPlaceholder(sql, at)
                => InNormal(sql, s) = Skip(s, 1)
<1>0. /\ Len(sql) \in Nat /\ at \in 1..(Len(sql) + 1)
      /\ ScanTyped(sql, s) /\ at \in 1..Len(sql) /\ at = s.at
  BY LenProperties DEF StandsAt
<1>1. PICK c : c = sql[at]
  OBVIOUS
<1>2. PICK t : t = InNormal(sql, s)
  OBVIOUS
<1>3. PICK end : end = TagEnd(sql, at)
  OBVIOUS
<1>4. /\ OpensEscape(sql, at) => c = "E"
      /\ OpensLine(sql, at) => c = "-"
      /\ OpensComment(sql, at) => c = "/"
      /\ OpensDollar(sql, at) => c = "$"
      /\ Placeholder(sql, at) => c = "%" /\ sql[at + 1] = "s"
      /\ LiteralPercent(sql, at) => c = "%" /\ sql[at + 1] = "%"
      /\ NamedPlaceholder(sql, at) => c = "%"
  BY <1>0, <1>1, Openers, DelimiterIs
<1>5. t = IF OpensEscape(sql, at) /\ ~ AfterName(sql, at) THEN Enter(s, 2, "escape_single_quote")
          ELSE IF c = "'" THEN Enter(s, 1, "single_quote")
          ELSE IF c = "dq" THEN Enter(s, 1, "double_quote")
          ELSE IF OpensLine(sql, at) THEN Enter(s, 2, "line_comment")
          ELSE IF OpensComment(sql, at) THEN [Enter(s, 2, "block_comment") EXCEPT !.depth = 1]
          ELSE IF OpensDollar(sql, at)
          THEN [s EXCEPT !.at = end + 1, !.state = "dollar_quote",
                         !.delimiter = SubSeq(sql, at, end)]
          ELSE IF LiteralPercent(sql, at) THEN Skip(s, 2)
          ELSE IF Placeholder(sql, at) THEN [Skip(s, 2) EXCEPT !.holes = @ \cup {s.at}]
          ELSE IF NamedPlaceholder(sql, at) THEN [Skip(s, 1) EXCEPT !.named = TRUE]
          ELSE Skip(s, 1)
  <2>1. PICK d : d = DelimiterEnd(sql, at)
    OBVIOUS
  <2>2. d = end
    <3>1. CASE c = "$"
      BY <1>1, <1>3, <2>1, <3>1
    <3>2. CASE c # "$"
      BY <1>1, <1>3, <2>1, <3>2 DEF DelimiterEnd, TagEnd
    <3> QED
      BY <3>1, <3>2
  <2> QED
    BY <1>0, <1>1, <1>2, <1>3, <2>1, <2>2, Zenon
       DEF InNormal, OpensEscape, OpensLine, OpensComment, OpensDollar, Tag
<1>6. ASSUME OpensEscape(sql, at), ~ AfterName(sql, at)
      PROVE  t = Enter(s, 2, "escape_single_quote")
  BY <1>5, <1>6
<1>7. ASSUME c = "'" PROVE t = Enter(s, 1, "single_quote")
  BY <1>4, <1>5, <1>7
<1>8. ASSUME c = "dq" PROVE t = Enter(s, 1, "double_quote")
  BY <1>4, <1>5, <1>8
<1>9. ASSUME OpensLine(sql, at) PROVE t = Enter(s, 2, "line_comment")
  BY <1>4, <1>5, <1>9
<1>10. ASSUME OpensComment(sql, at) PROVE t = [Enter(s, 2, "block_comment") EXCEPT !.depth = 1]
  BY <1>4, <1>5, <1>10
<1>11. ASSUME OpensDollar(sql, at) PROVE t = Dollared(s, end + 1, SubSeq(sql, at, end))
  BY <1>4, <1>5, <1>11 DEF Dollared
<1>12. ASSUME c \in WordSymbols, OpensEscape(sql, at) => AfterName(sql, at)
       PROVE  t = Skip(s, 1)
  <2>1. c = "E" \/ c = "s" \/ c = "x" \/ c = "1"
    BY <1>12 DEF Letters, Digits, WordSymbols
  <2>2. /\ c # "'" /\ c # "dq" /\ c # "-" /\ c # "/" /\ c # "$" /\ c # "%"
    BY <2>1
  <2> QED
    BY <1>4, <1>5, <1>12, <2>2
<1>13. ASSUME c = "%"
       PROVE  /\ ~ OpensEscape(sql, at) /\ c # "'" /\ c # "dq" /\ ~ OpensLine(sql, at)
              /\ ~ OpensComment(sql, at) /\ ~ OpensDollar(sql, at)
  BY <1>4, <1>13
<1>14. ASSUME LiteralPercent(sql, at) PROVE t = Skip(s, 2)
  BY <1>4, <1>5, <1>13, <1>14
<1>15. ASSUME Placeholder(sql, at) PROVE t = Holed(Skip(s, 2), Skip(s, 2).holes \cup {at})
  <2>1. ~ LiteralPercent(sql, at)
    BY <1>4, <1>15
  <2>2. t = [Skip(s, 2) EXCEPT !.holes = @ \cup {s.at}]
    BY <1>4, <1>5, <1>13, <1>15, <2>1
  <2> QED
    BY <1>0, <2>2 DEF Holed
<1>16. ASSUME OpensNothing(sql, at)
       PROVE  /\ ~ OpensEscape(sql, at) /\ c # "'" /\ c # "dq" /\ ~ OpensLine(sql, at)
              /\ ~ OpensComment(sql, at) /\ ~ OpensDollar(sql, at)
              /\ ~ LiteralPercent(sql, at) /\ ~ Placeholder(sql, at)
  BY <1>1, <1>16 DEF OpensNothing, OpensPercent
<1>17. ASSUME OpensNothing(sql, at), NamedPlaceholder(sql, at) PROVE t = SawNamed(Skip(s, 1))
  BY <1>5, <1>16, <1>17 DEF SawNamed
<1>18. ASSUME OpensNothing(sql, at), ~ NamedPlaceholder(sql, at) PROVE t = Skip(s, 1)
  BY <1>5, <1>16, <1>18
<1> QED
  BY <1>1, <1>2, <1>3, <1>6, <1>7, <1>8, <1>9, <1>10, <1>11, <1>12, <1>14, <1>15, <1>17, <1>18

LEMMA StepInName ==
    ASSUME NEW S, NEW sql \in Seq(S), NEW s, ScanTyped(sql, s), s.at <= Len(sql),
           NEW i \in 1..Len(sql), i < s.at, Inside(sql, s, i), Pending(sql, s, i),
           s.state = "normal", ~ DollarInName(sql)
    PROVE  ScanInv(sql, ScanStep(sql, s)) /\ s.at < ScanStep(sql, s).at
<1>0. Len(sql) \in Nat /\ s.at \in Nat /\ ~ (s.at > Len(sql)) /\ i \in Nat
  BY LenProperties DEF ScanTyped
<1>1. PICK at \in 1..Len(sql) : at = s.at
  BY DEF ScanTyped
<1>2. PICK t : t = ScanStep(sql, s)
  OBVIOUS
<1>3. t = InNormal(sql, s)
  BY <1>0, <1>2 DEF ScanStep
<1>4. OpensName(sql, i) /\ at <= NameEnd(sql, i) /\ sql[at - 1] \in WordSymbols
  BY <1>1 DEF Inside
<1>5. PICK e \in i..Len(sql) : e = NameEnd(sql, i)
  BY <1>0, NameEndIs
<1>6. \A k \in (i + 1)..e : sql[k] \in WordSymbols
  <2>1. i \in LexemeStarts(sql)
    BY PendingStarts
  <2> QED
    BY <1>0, <1>4, <1>5, <2>1, NameIsWord
<1>7. sql[at] \in WordSymbols
  <2>1. at \in (i + 1)..e
    BY <1>0, <1>1, <1>4, <1>5
  <2> QED
    BY <1>6, <2>1
<1>8. AfterName(sql, at)
  BY <1>0, <1>1, <1>4 DEF AfterName
<1>9. t = Skip(s, 1)
  <2>1. StandsAt(sql, s, at)
    BY <1>1 DEF StandsAt
  <2>2. sql[at] # "$"
    BY <1>7 DEF WordSymbols, Letters, Digits
  <2> QED
    BY <1>3, <1>7, <1>8, <2>1, <2>2, InNormalIs
<1>10. s.at + 1 <= Len(sql) + 1 /\ s.state \in ScanStates
  BY <1>0 DEF ScanStates
<1>11. /\ ScanTyped(sql, t) /\ t.at = s.at + 1 /\ t.state = s.state /\ t.holes = s.holes
       /\ t.named = s.named
  BY <1>0, <1>9, <1>10, Moved
<1>12. t.at - 1 = at /\ s.at < t.at /\ i < t.at
  BY <1>0, <1>1, <1>11
<1>13. CASE at < e
  <2>1. t.at <= NameEnd(sql, i)
    BY <1>0, <1>1, <1>5, <1>11, <1>13
  <2>2. Inside(sql, t, i)
    BY <1>4, <1>7, <1>11, <1>12, <2>1 DEF Inside
  <2> QED
    BY <1>2, <1>11, <1>12, <2>2, GoesOn
<1>14. CASE at = e
  <2>1. LexemeEnd(sql, i) = t.at - 1
    BY <1>4, <1>5, <1>12, <1>14, LexemeEndIs
  <2>2. sql[i] # "%"
    BY Opening
  <2> QED
    BY <1>2, <1>11, <1>12, <2>1, <2>2, Finishes
<1>15. at < e \/ at = e
  BY <1>4, <1>5
<1> QED
  BY <1>13, <1>14, <1>15

LEMMA StepAtBorder ==
    ASSUME NEW S, NEW sql \in Seq(S), NEW s, ScanTyped(sql, s), s.at <= Len(sql),
           s.state = "normal", Pending(sql, s, s.at), ~ HiddenEscape(sql), ~ TagOfDigits(sql)
    PROVE  ScanInv(sql, ScanStep(sql, s)) /\ s.at < ScanStep(sql, s).at
<1>0. Len(sql) \in Nat /\ s.at \in Nat /\ ~ (s.at > Len(sql)) /\ s.at + 1 <= Len(sql) + 1
  BY LenProperties DEF ScanTyped
<1>1. PICK at \in 1..Len(sql) : at = s.at
  BY DEF ScanTyped
<1>2. PICK t : t = ScanStep(sql, s)
  OBVIOUS
<1>3. t = InNormal(sql, s)
  BY <1>0, <1>2 DEF ScanStep
<1>4. Pending(sql, s, at) /\ at \in Nat /\ at \in 1..(Len(sql) + 1)
  BY <1>0, <1>1
<1>17. at \in LexemeStarts(sql)
  BY <1>4, PendingStarts
<1>5. /\ "escape_single_quote" \in ScanStates /\ "single_quote" \in ScanStates
      /\ "double_quote" \in ScanStates /\ "line_comment" \in ScanStates
      /\ "block_comment" \in ScanStates /\ "normal" \in ScanStates
  BY DEF ScanStates
<1>16. /\ OpensEscape(sql, at) /\ ~ AfterName(sql, at)
            => InNormal(sql, s) = Enter(s, 2, "escape_single_quote")
       /\ sql[at] = "'" => InNormal(sql, s) = Enter(s, 1, "single_quote")
       /\ sql[at] = "dq" => InNormal(sql, s) = Enter(s, 1, "double_quote")
       /\ OpensLine(sql, at) => InNormal(sql, s) = Enter(s, 2, "line_comment")
       /\ OpensComment(sql, at)
            => InNormal(sql, s) = [Enter(s, 2, "block_comment") EXCEPT !.depth = 1]
       /\ OpensDollar(sql, at)
            => InNormal(sql, s) = Dollared(s, TagEnd(sql, at) + 1,
                                           SubSeq(sql, at, TagEnd(sql, at)))
       /\ sql[at] \in WordSymbols /\ (OpensEscape(sql, at) => AfterName(sql, at))
            => InNormal(sql, s) = Skip(s, 1)
       /\ LiteralPercent(sql, at) => InNormal(sql, s) = Skip(s, 2)
       /\ Placeholder(sql, at)
            => InNormal(sql, s) = Holed(Skip(s, 2), Skip(s, 2).holes \cup {at})
       /\ OpensNothing(sql, at) /\ NamedPlaceholder(sql, at)
            => InNormal(sql, s) = SawNamed(Skip(s, 1))
       /\ OpensNothing(sql, at) /\ ~ NamedPlaceholder(sql, at)
            => InNormal(sql, s) = Skip(s, 1)
  <2>1. StandsAt(sql, s, at)
    BY <1>1 DEF StandsAt
  <2>2. TagEnd(sql, at) = DelimiterEnd(sql, at)
    BY <1>17 DEF TagOfDigits
  <2> QED
    BY ONLY sql \in Seq(S), <2>1, <2>2, InNormalIs
<1>6. ASSUME Inside(sql, t, at), ScanTyped(sql, t), at < t.at, t.holes = s.holes,
             t.named = s.named
      PROVE  ScanInv(sql, ScanStep(sql, s)) /\ s.at < ScanStep(sql, s).at
  BY <1>1, <1>2, <1>4, <1>6, GoesOn
<1>7. CASE OpensEscape(sql, at)
  <2>1. at < Len(sql) /\ sql[at] = "E"
    BY <1>0, <1>4, <1>7, HasTwo DEF OpensEscape
  <2>2. ~ AfterName(sql, at)
    BY <1>7, <1>17 DEF HiddenEscape, OpensEscape
  <2>3. t = Enter(s, 2, "escape_single_quote") /\ s.at + 2 <= Len(sql) + 1
    BY <1>0, <1>1, <1>3, <1>7, <1>16, <2>1, <2>2
  <2>4. /\ ScanTyped(sql, t) /\ t.at = s.at + 2 /\ t.state = "escape_single_quote"
        /\ t.holes = s.holes /\ t.named = s.named
    BY <1>0, <1>5, <2>3, Moved
  <2>5. PICK r \in Nat : r = at + 1
    BY <1>4
  <2>6. InQuote(sql, r, "'", TRUE, r + 1)
    BY QuoteBegins
  <2>7. t.at = r + 1 /\ at < t.at
    BY <1>0, <1>1, <2>4, <2>5
  <2>8. Inside(sql, t, at)
    BY <1>7, <2>4, <2>5, <2>6, <2>7 DEF Inside
  <2> QED
    BY <1>6, <2>4, <2>7, <2>8
<1>8. CASE sql[at] = "'"
  <2>1. t = Enter(s, 1, "single_quote")
    BY ONLY <1>3, <1>8, <1>16
  <2>2. /\ ScanTyped(sql, t) /\ t.at = s.at + 1 /\ t.state = "single_quote"
        /\ t.holes = s.holes /\ t.named = s.named
    BY <1>0, <1>5, <2>1, Moved
  <2>3. t.at = at + 1 /\ at < t.at
    BY <1>1, <2>2
  <2>4. InQuote(sql, at, "'", FALSE, at + 1)
    BY <1>4, QuoteBegins
  <2>5. Inside(sql, t, at)
    BY <1>8, <2>2, <2>3, <2>4 DEF Inside
  <2> QED
    BY <1>6, <2>2, <2>3, <2>5
<1>9. CASE sql[at] = "dq"
  <2>1. t = Enter(s, 1, "double_quote")
    BY ONLY <1>3, <1>9, <1>16
  <2>2. /\ ScanTyped(sql, t) /\ t.at = s.at + 1 /\ t.state = "double_quote"
        /\ t.holes = s.holes /\ t.named = s.named
    BY <1>0, <1>5, <2>1, Moved
  <2>3. t.at = at + 1 /\ at < t.at
    BY <1>1, <2>2
  <2>4. InQuote(sql, at, "dq", FALSE, at + 1)
    BY <1>4, QuoteBegins
  <2>5. Inside(sql, t, at)
    BY <1>9, <2>2, <2>3, <2>4 DEF Inside
  <2> QED
    BY <1>6, <2>2, <2>3, <2>5
<1>10. CASE OpensLine(sql, at)
  <2>1. at < Len(sql) /\ sql[at] = "-" /\ sql[at + 1] = "-"
    BY <1>0, <1>4, <1>10, HasTwo DEF OpensLine
  <2>2. t = Enter(s, 2, "line_comment") /\ s.at + 2 <= Len(sql) + 1
    BY ONLY <1>0, <1>1, <1>3, <1>10, <1>16, <2>1
  <2>3. /\ ScanTyped(sql, t) /\ t.at = s.at + 2 /\ t.state = "line_comment"
        /\ t.holes = s.holes /\ t.named = s.named
    BY <1>0, <1>5, <2>2, Moved
  <2>4. t.at = at + 2 /\ at < t.at
    BY <1>1, <2>3
  <2>5. \A j \in at..(t.at - 1) : j = at \/ j = at + 1
    BY <2>4
  <2>6. InLine(sql, at, t.at)
    BY <2>1, <2>4, <2>5 DEF InLine
  <2>7. Inside(sql, t, at)
    BY <1>10, <2>3, <2>6 DEF Inside
  <2> QED
    BY <1>6, <2>3, <2>4, <2>7
<1>11. CASE OpensComment(sql, at)
  <2>1. at < Len(sql)
    BY <1>0, <1>4, <1>11, HasTwo DEF OpensComment
  <2>2. PICK u : u = Enter(s, 2, "block_comment")
    OBVIOUS
  <2>3. s.at + 2 <= Len(sql) + 1
    BY <1>0, <1>1, <2>1
  <2>4. /\ ScanTyped(sql, u) /\ u.at = s.at + 2 /\ u.state = "block_comment"
        /\ u.holes = s.holes /\ u.named = s.named
    BY <1>0, <1>5, <2>2, <2>3, Moved
  <2>5. t = [u EXCEPT !.depth = 1]
    BY ONLY <1>3, <1>11, <1>16, <2>2
  <2>6. t = Deeper(u, 1, "block_comment")
    <3>1. u = [at |-> u.at, state |-> u.state, depth |-> u.depth, delimiter |-> u.delimiter,
               holes |-> u.holes, named |-> u.named]
      BY <2>4 DEF ScanTyped
    <3>2. t = [t EXCEPT !.state = "block_comment"]
      BY <2>4, <2>5, <3>1
    <3> QED
      BY <2>5, <3>2 DEF Deeper
  <2>7. /\ ScanTyped(sql, t) /\ t.at = u.at /\ t.state = "block_comment"
        /\ t.holes = u.holes /\ t.named = u.named /\ t.depth = 1
    BY <1>5, <2>4, <2>6, Deepens
  <2>8. t.at = at + 2 /\ at < t.at /\ t.holes = s.holes /\ t.named = s.named
    BY <1>1, <2>4, <2>7
  <2>9. InComment(sql, at, t.at, t.depth)
    BY <2>7, <2>8 DEF InComment, CommentEnd
  <2>10. Inside(sql, t, at)
    BY <1>11, <2>7, <2>9 DEF Inside
  <2> QED
    BY <1>6, <2>7, <2>8, <2>10
<1>12. CASE OpensDollar(sql, at)
  <2>1. PICK open \in (at + 1)..Len(sql) : open = TagEnd(sql, at)
    BY <1>0, <1>12, DelimiterIs
  <2>2. PICK tag : tag = SubSeq(sql, at, open)
    OBVIOUS
  <2>3. PICK to \in 1..(Len(sql) + 1) : to = open + 1
    BY <1>0, <1>1, <2>1
  <2>4. t = Dollared(s, to, tag)
    BY ONLY <1>3, <1>12, <1>16, <2>1, <2>2, <2>3
  <2>5. /\ ScanTyped(sql, t) /\ t.at = to /\ t.state = "dollar_quote"
        /\ t.holes = s.holes /\ t.named = s.named /\ t.delimiter = tag
    BY <2>4, Dollars
  <2>6. at < t.at /\ open < to
    BY <1>0, <2>1, <2>3, <2>5
  <2>7. PICK n : n = Len(tag)
    OBVIOUS
  <2>8. n \in Nat
    <3>1. at \in 1..Len(sql) /\ open \in at..Len(sql)
      BY <1>0, <2>1
    <3>2. Len(tag) = open - at + 1
      BY <2>2, <3>1, SubSeqProperties
    <3> QED
      BY ONLY <2>7, <3>1, <3>2, Len(sql) \in Nat
  <2>9. InDollar(sql, open, tag, to)
    <3>1. \A j \in (open + n)..Len(sql) : to <= j - n + 1
      BY ONLY <1>0, <2>8, <2>3, open \in (at + 1)..Len(sql), at \in Nat
    <3> QED
      BY <2>6, <2>7, <3>1 DEF InDollar
  <2>10. Inside(sql, t, at)
    BY <1>12, <2>1, <2>2, <2>5, <2>9 DEF Inside
  <2> QED
    BY <1>6, <2>5, <2>6, <2>10
<1>13. CASE OpensName(sql, at)
  <2>1. t = Skip(s, 1)
    BY <1>3, <1>13, <1>16 DEF OpensName
  <2>2. /\ ScanTyped(sql, t) /\ t.at = s.at + 1 /\ t.state = "normal"
        /\ t.holes = s.holes /\ t.named = s.named
    BY <1>0, <1>5, <2>1, Moved
  <2>3. t.at - 1 = at /\ at < t.at
    BY <1>1, <2>2
  <2>4. PICK e \in at..Len(sql) : e = NameEnd(sql, at)
    BY <1>0, NameEndIs
  <2>5. CASE at < e
    <3>1. t.at <= NameEnd(sql, at)
      BY <1>1, <2>2, <2>4, <2>5
    <3>2. Inside(sql, t, at)
      BY <1>13, <2>2, <2>3, <3>1 DEF Inside, OpensName
    <3> QED
      BY <1>6, <2>2, <2>3, <3>2
  <2>6. CASE at = e
    <3>1. LexemeEnd(sql, at) = t.at - 1
      BY <1>13, <2>3, <2>4, <2>6, LexemeEndIs
    <3>2. sql[at] # "%"
      BY <1>13 DEF OpensName, WordSymbols, Letters, Digits
    <3>3. ScanInv(sql, t)
      BY <1>4, <2>2, <3>1, <3>2, Finishes
    <3> QED
      BY <1>1, <1>2, <2>3, <3>3
  <2> QED
    BY <2>4, <2>5, <2>6
<1>14. CASE OpensPercent(sql, at)
  <2>1. LexemeEnd(sql, at) = at + 1
    BY <1>14, LexemeEndIs
  <2>2. at < Len(sql) /\ sql[at] = "%" /\ (Placeholder(sql, at) <=> ~ LiteralPercent(sql, at))
        /\ ~ NamedPlaceholder(sql, at)
    BY <1>14, Openers DEF OpensPercent
  <2>3. PICK u : u = Skip(s, 2)
    OBVIOUS
  <2>4. s.at + 2 <= Len(sql) + 1
    BY <1>0, <1>1, <2>2
  <2>5. /\ ScanTyped(sql, u) /\ u.at = s.at + 2 /\ u.state = "normal"
        /\ u.holes = s.holes /\ u.named = s.named
    BY <1>0, <1>5, <2>3, <2>4, Moved
  <2>6. PICK holes \in SUBSET (1..Len(sql)) : holes = u.holes \cup {at}
    BY <2>5 DEF ScanTyped
  <2>7. /\ ScanTyped(sql, Holed(u, holes))
        /\ Holed(u, holes).at = u.at /\ Holed(u, holes).state = u.state
        /\ Holed(u, holes).holes = holes /\ Holed(u, holes).named = u.named
        /\ ScanTyped(sql, SawNamed(u))
        /\ SawNamed(u).at = u.at /\ SawNamed(u).state = u.state
        /\ SawNamed(u).holes = u.holes /\ SawNamed(u).named = TRUE
    BY <2>5, Notes
  <2>8. /\ Placeholder(sql, at) => t = Holed(u, holes)
        /\ LiteralPercent(sql, at) => t = u
    BY ONLY <1>3, <1>16, <2>3, <2>6
  <2>9. ScanTyped(sql, t) /\ t.at = at + 2 /\ t.state = "normal" /\ t.named = s.named
    BY <1>1, <2>2, <2>5, <2>7, <2>8
  <2>10. t.holes = s.holes \cup (IF Placeholder(sql, at) THEN {at} ELSE {})
    BY <2>2, <2>5, <2>6, <2>7, <2>8
  <2>11. Pending(sql, t, LexemeEnd(sql, at) + 1)
    <3>1. LexemeEnd(sql, at) <= Len(sql)
      BY <1>0, <2>1, <2>2
    <3>2. t.named <=> (s.named \/ NamedPlaceholder(sql, at))
      BY <2>2, <2>9
    <3> QED
      BY <1>4, <2>10, <3>1, <3>2, PendingMoves
  <2>12. Pending(sql, t, t.at) /\ s.at < t.at
    BY <1>1, <2>1, <2>9, <2>11
  <2> QED
    BY <1>2, <2>9, <2>12 DEF ScanInv
<1>18. CASE OpensNothing(sql, at)
  <2>1. LexemeEnd(sql, at) = at
    BY <1>18, LexemeEndIs
  <2>2. PICK u : u = Skip(s, 1)
    OBVIOUS
  <2>3. /\ ScanTyped(sql, u) /\ u.at = s.at + 1 /\ u.state = "normal"
        /\ u.holes = s.holes /\ u.named = s.named
    BY <1>0, <1>5, <2>2, Moved
  <2>4. {} \in SUBSET (1..Len(sql))
    OBVIOUS
  <2>5. /\ ScanTyped(sql, SawNamed(u))
        /\ SawNamed(u).at = u.at /\ SawNamed(u).state = u.state
        /\ SawNamed(u).holes = u.holes /\ SawNamed(u).named = TRUE
    BY <2>3, <2>4, Notes
  <2>6. /\ NamedPlaceholder(sql, at) => t = SawNamed(u)
        /\ ~ NamedPlaceholder(sql, at) => t = u
    BY ONLY <1>3, <1>18, <1>16, <2>2
  <2>7. ScanTyped(sql, t) /\ t.at = at + 1 /\ t.state = "normal" /\ t.holes = s.holes
    BY <1>1, <2>3, <2>5, <2>6
  <2>8. t.holes = s.holes \cup (IF Placeholder(sql, at) THEN {at} ELSE {})
    BY <1>18, <2>7 DEF OpensNothing, OpensPercent
  <2>9. t.named <=> (s.named \/ NamedPlaceholder(sql, at))
    <3>1. NamedPlaceholder(sql, at) => t.named
      BY <2>5, <2>6
    <3>2. ~ NamedPlaceholder(sql, at) => t.named = s.named
      BY <2>3, <2>5, <2>6
    <3> QED
      BY <3>1, <3>2, Zenon
  <2>10. Pending(sql, t, LexemeEnd(sql, at) + 1)
    <3>1. LexemeEnd(sql, at) <= Len(sql)
      BY <2>1
    <3> QED
      BY <1>4, <2>8, <2>9, <3>1, PendingMoves
  <2>11. Pending(sql, t, t.at) /\ s.at < t.at
    BY <1>1, <2>1, <2>7, <2>10
  <2> QED
    BY <1>2, <2>7, <2>11 DEF ScanInv
<1>15. \/ OpensEscape(sql, at) \/ OpensName(sql, at) \/ sql[at] = "'" \/ sql[at] = "dq"
       \/ OpensLine(sql, at) \/ OpensComment(sql, at) \/ OpensDollar(sql, at)
       \/ OpensPercent(sql, at) \/ OpensNothing(sql, at)
  BY DEF OpensNothing
<1> QED
  BY <1>7, <1>8, <1>9, <1>10, <1>11, <1>12, <1>13, <1>14, <1>15, <1>18

LEMMA ScanStepKeeps ==
    ASSUME NEW S, NEW sql \in Seq(S), NEW s, ScanInv(sql, s), s.at <= Len(sql),
           ~ DollarInName(sql), ~ TagOfDigits(sql), ~ HiddenEscape(sql)
    PROVE  ScanInv(sql, ScanStep(sql, s)) /\ s.at < ScanStep(sql, s).at
<1>1. ScanTyped(sql, s)
  BY DEF ScanInv
<1>2. CASE s.state = "normal" /\ Pending(sql, s, s.at)
  BY <1>1, <1>2, StepAtBorder
<1>3. ASSUME NEW i \in 1..Len(sql), i < s.at, Inside(sql, s, i), Pending(sql, s, i)
      PROVE  ScanInv(sql, ScanStep(sql, s)) /\ s.at < ScanStep(sql, s).at
  <2>1. CASE s.state \in {"single_quote", "escape_single_quote", "double_quote"}
    BY <1>1, <1>3, <2>1, StepInQuotes
  <2>2. CASE s.state = "line_comment"
    BY <1>1, <1>3, <2>2, StepInLine
  <2>3. CASE s.state = "block_comment"
    BY <1>1, <1>3, <2>3, StepInComment
  <2>4. CASE s.state = "dollar_quote"
    BY <1>1, <1>3, <2>4, StepInDollar
  <2>5. CASE s.state = "normal"
    BY <1>1, <1>3, <2>5, StepInName
  <2> QED
    BY <1>1, <2>1, <2>2, <2>3, <2>4, <2>5 DEF ScanTyped, ScanStates
<1> QED
  BY <1>2, <1>3 DEF ScanInv

LEMMA ScanBegins ==
    ASSUME NEW S, NEW sql \in Seq(S)
    PROVE  ScanInv(sql, Begin) /\ Begin.at = 1
<1>1. PICK s : s = Begin
  OBVIOUS
<1>2. s = [at |-> 1, state |-> "normal", depth |-> 0, delimiter |-> <<>>, holes |-> {},
           named |-> FALSE]
  BY <1>1 DEF Begin
<1>3. Len(sql) \in Nat
  BY LenProperties
<1>4. s.at = 1 /\ s.state = "normal" /\ s.holes = {} /\ s.named = FALSE
  BY <1>2
<1>5. ScanTyped(sql, s)
  BY <1>2, <1>3 DEF ScanTyped, ScanStates
<1>7. Lexed(sql).holes = {k \in LexemesFrom(sql)[1] : Placeholder(sql, k)}
  BY DEF Lexed, LexemeStarts
<1>8. Lexed(sql).ok <=> Fine(sql, 1)
  BY DEF Lexed, LexemeStarts, Fine
<1>9. Pending(sql, s, 1)
  BY <1>4, <1>7, <1>8, Zenon DEF Pending, LexemeStarts
<1> QED
  BY <1>1, <1>4, <1>5, <1>9 DEF ScanInv

LEMMA ScanEnds ==
    ASSUME NEW S, NEW sql \in Seq(S), ~ DollarInName(sql), ~ TagOfDigits(sql), ~ HiddenEscape(sql)
    PROVE  ScanInv(sql, Scan(sql)[Len(sql)]) /\ Scan(sql)[Len(sql)].at = Len(sql) + 1
<1>0. Len(sql) \in Nat
  BY LenProperties
<1>1. PICK f : f = Scan(sql)
  OBVIOUS
<1>2. f[0] = Begin /\ \A n \in 1..Len(sql) : f[n] = ScanStep(sql, f[n - 1])
  BY <1>0, <1>1, ScanUnfolds
<1> DEFINE G == {n \in Nat : ScanInv(sql, f[n]) /\ (f[n].at > n \/ f[n].at = Len(sql) + 1)}
<1>3. 0 \in G
  <2>1. ScanInv(sql, f[0]) /\ f[0].at = 1
    BY <1>2, ScanBegins
  <2> QED
    BY <2>1
<1>4. ASSUME NEW n \in 0..(Len(sql) - 1), n \in G PROVE n + 1 \in G
  <2>1. PICK s : s = f[n]
    OBVIOUS
  <2>2. ScanInv(sql, s) /\ (s.at > n \/ s.at = Len(sql) + 1)
    BY <1>4, <2>1
  <2>3. PICK t : t = f[n + 1]
    OBVIOUS
  <2>4. t = ScanStep(sql, s)
    <3>1. n + 1 \in 1..Len(sql) /\ (n + 1) - 1 = n
      BY <1>0
    <3> QED
      BY <1>2, <2>1, <2>3, <3>1
  <2>5. s.at \in 1..(Len(sql) + 1)
    BY <2>2 DEF ScanInv, ScanTyped
  <2>6. CASE s.at <= Len(sql)
    <3>1. ScanInv(sql, t) /\ s.at < t.at
      BY <2>2, <2>4, <2>6, ScanStepKeeps
    <3>2. t.at \in 1..(Len(sql) + 1)
      BY <3>1 DEF ScanInv, ScanTyped
    <3>3. t.at > n + 1
      BY <1>0, <2>2, <2>5, <2>6, <3>1, <3>2
    <3> QED
      BY <2>3, <3>1, <3>3
  <2>7. CASE s.at = Len(sql) + 1
    <3>1. t = s
      BY <1>0, <2>4, <2>7 DEF ScanStep
    <3>2. t.at = Len(sql) + 1 /\ ScanInv(sql, t)
      BY <2>2, <2>7, <3>1
    <3>3. n + 1 \in Nat
      OBVIOUS
    <3> QED
      BY ONLY <2>3, <3>2, <3>3
  <2> QED
    BY <1>0, <2>5, <2>6, <2>7
<1>5. Len(sql) \in G
  <2> HIDE DEF G
  <2>1. PICK n \in Int : n = Len(sql)
    BY <1>0
  <2>2. 0 \in G /\ \A k \in 0..(n - 1) : k \in G => k + 1 \in G
    BY <1>3, <1>4, <2>1
  <2>3. \A k \in 0..n : k \in G
    BY <2>2, Forwards
  <2>4. n \in 0..n
    BY <1>0, <2>1
  <2> QED
    BY <2>1, <2>3, <2>4
<1>6. ScanInv(sql, f[Len(sql)]) /\ (f[Len(sql)].at > Len(sql) \/ f[Len(sql)].at = Len(sql) + 1)
  BY <1>5
<1>7. f[Len(sql)].at \in 1..(Len(sql) + 1)
  BY <1>6 DEF ScanInv, ScanTyped
<1> QED
  BY <1>0, <1>1, <1>6, <1>7

(* At the end of the text the scanner has found what there is.             *)
LEMMA PendingEnds ==
    ASSUME NEW S, NEW sql \in Seq(S), NEW s, Pending(sql, s, Len(sql) + 1)
    PROVE  s.holes = Lexed(sql).holes /\ (~ s.named <=> Lexed(sql).ok)
<1>1. Len(sql) + 1 \in (Len(sql) + 1)..(Len(sql) + 2)
  BY LenProperties
<1>2. LexemesFrom(sql)[Len(sql) + 1] = {}
  BY <1>1, LexemesUnfold
<1>3. Fine(sql, Len(sql) + 1)
  BY <1>2 DEF Fine
<1>4. {k \in LexemesFrom(sql)[Len(sql) + 1] : Placeholder(sql, k)} = {}
  BY <1>2
<1>5. s.holes \cup {} = Lexed(sql).holes
  BY <1>4 DEF Pending
<1>6. (~ s.named /\ Fine(sql, Len(sql) + 1)) <=> Lexed(sql).ok
  BY DEF Pending
<1> QED
  BY <1>3, <1>5, <1>6

LEMMA Verdict ==
    ASSUME NEW S, NEW sql \in Seq(S), NEW s, ScanInv(sql, s), s.at = Len(sql) + 1
    PROVE  /\ (s.state \in {"normal", "line_comment"} /\ ~ s.named) <=> Lexed(sql).ok
           /\ Lexed(sql).ok => s.holes = Lexed(sql).holes
<1>0. Len(sql) \in Nat
  BY LenProperties
<1>1. CASE s.state = "normal" /\ Pending(sql, s, s.at)
  <2>1. Pending(sql, s, Len(sql) + 1)
    BY <1>1
  <2>2. s.holes = Lexed(sql).holes /\ (~ s.named <=> Lexed(sql).ok)
    BY <2>1, PendingEnds
  <2> QED
    BY <1>1, <2>2
<1>2. ASSUME NEW i \in 1..Len(sql), i < s.at, Inside(sql, s, i), Pending(sql, s, i)
      PROVE  /\ (s.state \in {"normal", "line_comment"} /\ ~ s.named) <=> Lexed(sql).ok
             /\ Lexed(sql).ok => s.holes = Lexed(sql).holes
  <2>1. PICK l \in Nat : l = Len(sql)
    BY <1>0
  <2>2. CASE s.state = "line_comment"
    <3>1. OpensLine(sql, i) /\ InLine(sql, i, l + 1)
      BY <1>2, <2>1, <2>2 DEF Inside
    <3>2. PICK at \in Nat : at = l + 1
      OBVIOUS
    <3>3. LineEnd(sql, i) = Len(sql)
      BY <1>0, <2>1, <3>1, <3>2, LineGoesOn
    <3>4. LexemeEnd(sql, i) = Len(sql)
      BY <3>1, <3>3, LexemeEndIs
    <3>5. ~ Placeholder(sql, i) /\ ~ NamedPlaceholder(sql, i)
      BY <1>2, Opening, Openers
    <3>6. s.holes = s.holes \cup (IF Placeholder(sql, i) THEN {i} ELSE {})
      BY <3>5
    <3>7. LexemeEnd(sql, i) <= Len(sql)
      BY <1>0, <3>4
    <3>8. Pending(sql, s, LexemeEnd(sql, i) + 1)
      BY <1>2, <3>5, <3>6, <3>7, PendingMoves
    <3>9. s.holes = Lexed(sql).holes /\ (~ s.named <=> Lexed(sql).ok)
      BY <3>4, <3>8, PendingEnds
    <3> QED
      BY <2>2, <3>9
  <2>3. CASE s.state = "normal"
    <3>1. s.at <= NameEnd(sql, i)
      BY <1>2, <2>3 DEF Inside
    <3>2. NameEnd(sql, i) \in i..Len(sql)
      BY <1>0, NameEndIs
    <3> QED
      BY <1>0, <3>1, <3>2
  <2>4. CASE s.state # "line_comment" /\ s.state # "normal"
    <3>1. LexemeEnd(sql, i) = Len(sql) + 1
      <4>1. CASE s.state = "escape_single_quote"
        <5>1. PICK r \in Nat : r = i + 1
          OBVIOUS
        <5>2. OpensEscape(sql, i) /\ InQuote(sql, r, "'", TRUE, Len(sql) + 1)
          BY <1>2, <4>1, <5>1 DEF Inside
        <5>3. QuoteEnd(sql, r, "'", TRUE) = Len(sql) + 1
          BY <1>0, <5>2, QuoteUnclosed
        <5> QED
          BY <5>1, <5>2, <5>3, LexemeEndIs
      <4>2. CASE s.state = "single_quote"
        <5>1. sql[i] = "'" /\ InQuote(sql, i, "'", FALSE, Len(sql) + 1) /\ i \in Nat
          <6>0. i \in Nat /\ s.at = Len(sql) + 1
            BY <1>0
          <6>1. sql[i] = "'" /\ InQuote(sql, i, "'", FALSE, s.at)
            BY <1>2, <4>2 DEF Inside
          <6> QED
            BY ONLY <6>0, <6>1
        <5>2. QuoteEnd(sql, i, "'", FALSE) = Len(sql) + 1
          BY <1>0, <5>1, QuoteUnclosed
        <5> QED
          BY <5>1, <5>2, LexemeEndIs
      <4>3. CASE s.state = "double_quote"
        <5>1. sql[i] = "dq" /\ InQuote(sql, i, "dq", FALSE, Len(sql) + 1) /\ i \in Nat
          <6>0. i \in Nat /\ s.at = Len(sql) + 1
            BY <1>0
          <6>1. sql[i] = "dq" /\ InQuote(sql, i, "dq", FALSE, s.at)
            BY <1>2, <4>3 DEF Inside
          <6> QED
            BY ONLY <6>0, <6>1
        <5>2. QuoteEnd(sql, i, "dq", FALSE) = Len(sql) + 1
          BY <1>0, <5>1, QuoteUnclosed
        <5> QED
          BY <5>1, <5>2, LexemeEndIs
      <4>4. CASE s.state = "block_comment"
        <5>1. OpensComment(sql, i) /\ InComment(sql, i, s.at, s.depth)
          BY <1>2, <4>4 DEF Inside
        <5>2. PICK at \in 1..(Len(sql) + 1) : at = s.at /\ at = Len(sql) + 1
          BY <1>0
        <5>3. CommentEnd(sql, i) = Len(sql) + 1
          BY <5>1, <5>2, CommentGoesOn
        <5> QED
          BY <5>1, <5>3, LexemeEndIs
      <4>5. CASE s.state = "dollar_quote"
        <5>1. PICK open \in (i + 1)..Len(sql) : open = TagEnd(sql, i)
          BY <1>0, <1>2, <4>5, DelimiterIs DEF Inside
        <5>2. PICK tag : tag = SubSeq(sql, i, open)
          OBVIOUS
        <5>3. PICK at \in Nat : at = s.at /\ at = Len(sql) + 1
          BY <1>0
        <5>4. OpensDollar(sql, i) /\ InDollar(sql, open, tag, at)
          BY <1>2, <4>5, <5>1, <5>2, <5>3 DEF Inside
        <5>5. i \in 1..Len(sql) /\ open \in i..Len(sql) /\ open \in 1..Len(sql)
          BY <1>0, <5>1
        <5>6. Len(tag) = open - i + 1
          BY <5>2, <5>5, SubSeqProperties
        <5>7. Len(tag) \in Nat \ {0}
          BY ONLY <1>0, <5>5, <5>6
        <5>8. IsTag(sql, i, open, tag)
          BY <5>2, <5>7 DEF IsTag
        <5>9. PICK o \in 1..Len(sql) : o = open
          BY <5>5
        <5>10. IsTag(sql, i, o, tag) /\ InDollar(sql, o, tag, at) /\ at = Len(sql) + 1
          BY <5>3, <5>4, <5>8, <5>9
        <5>11. DollarEnd(sql, i, o) = Len(sql) + 1
          BY ONLY <1>0, <5>10, o \in 1..Len(sql), at \in Nat, DollarGoesOn
        <5> QED
          BY <5>1, <5>4, <5>9, <5>11, LexemeEndIs
      <4> QED
        BY <1>2, <2>4, <4>1, <4>2, <4>3, <4>4, <4>5 DEF Inside
    <3>2. i \in LexemesFrom(sql)[i]
      BY LexemesUnfold
    <3>3. ~ Fine(sql, i)
      BY <1>0, <3>1, <3>2 DEF Fine
    <3>4. ~ Lexed(sql).ok
      BY <1>2, <3>3 DEF Pending
    <3> QED
      BY <2>4, <3>4
  <2> QED
    BY <2>2, <2>3, <2>4
<1> QED
  BY <1>1, <1>2 DEF ScanInv

LEMMA LexedHoles ==
    ASSUME NEW S, NEW sql \in Seq(S)
    PROVE  Cardinality(Lexed(sql).holes) \in Nat
<1>0. Len(sql) \in Nat /\ 1 \in 1..(Len(sql) + 1)
  BY LenProperties
<1>1. LexemesFrom(sql)[1] \subseteq 1..Len(sql)
  BY <1>0, LexemesWithin
<1>2. Lexed(sql).holes \subseteq 1..Len(sql)
  BY <1>1 DEF Lexed, LexemeStarts
<1>3. IsFiniteSet(1..Len(sql))
  BY <1>0, FS_Interval
<1> QED
  BY <1>2, <1>3, FS_Subset, FS_CardinalityType

(* sql_for_validation() of sql/transaction.py: of every text, it accepts   *)
(* those whose strings and comments end as PostgreSQL would read them and  *)
(* that have a placeholder for each parameter, and replaces just these.    *)
THEOREM ScannerIsRight ==
    ASSUME NEW S, NEW sql \in Seq(S)
    PROVE  ScannerAgrees(sql)
<1>1. SUFFICES ASSUME ~ DollarInName(sql), ~ TagOfDigits(sql), ~ HiddenEscape(sql)
               PROVE  LET lexed == Lexed(sql)
                          count == Cardinality(lexed.holes)
                          scanned == SqlForValidation(sql, count)
                      IN /\ scanned.ok = lexed.ok
                         /\ scanned.ok => scanned.holes = lexed.holes
                         /\ ~ SqlForValidation(sql, count + 1).ok
  BY DEF ScannerAgrees
<1>2. PICK s : s = Scan(sql)[Len(sql)]
  OBVIOUS
<1>3. ScanInv(sql, s) /\ s.at = Len(sql) + 1
  BY <1>1, <1>2, ScanEnds
<1>4. /\ (s.state \in {"normal", "line_comment"} /\ ~ s.named) <=> Lexed(sql).ok
      /\ Lexed(sql).ok => s.holes = Lexed(sql).holes
  BY <1>3, Verdict
<1>5. PICK count : count = Cardinality(Lexed(sql).holes)
  OBVIOUS
<1>6. count \in Nat /\ count + 1 # count
  BY <1>5, LexedHoles
<1>7. \A n : /\ SqlForValidation(sql, n).ok <=>
                  /\ s.state \in {"normal", "line_comment"} /\ ~ s.named
                  /\ Cardinality(s.holes) = n
             /\ SqlForValidation(sql, n).ok \in BOOLEAN
             /\ SqlForValidation(sql, n).holes = s.holes
  BY <1>2 DEF SqlForValidation
<1>8. Lexed(sql).ok \in BOOLEAN
  BY DEF Lexed
<1>9. SqlForValidation(sql, count).ok <=> Lexed(sql).ok
  BY <1>4, <1>5, <1>7
<1>10. SqlForValidation(sql, count).ok = Lexed(sql).ok
  BY <1>7, <1>8, <1>9
<1>11. SqlForValidation(sql, count).ok => SqlForValidation(sql, count).holes = Lexed(sql).holes
  BY <1>4, <1>7, <1>9
<1>12. ~ SqlForValidation(sql, count + 1).ok
  BY <1>4, <1>5, <1>6, <1>7
<1> QED
  BY <1>5, <1>10, <1>11, <1>12

=============================================================================
