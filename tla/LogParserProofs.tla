--------------------------- MODULE LogParserProofs ---------------------------
(***************************************************************************)
(* Theorems about LogParser for every number of parsers, rows and          *)
(* disturbances, every set of kinds and every detail table: what is copied *)
(* and how often, what a row that ends the parser holds back, and that one *)
(* parser implements EventLog.                                             *)
(***************************************************************************)
EXTENDS LogParser, SequenceTheorems, FiniteSetTheorems, TLAPS

Types == TypeOK /\ BatchShape

-----------------------------------------------------------------------------
(* Lemmas about the sequences and sets the module is built from.           *)

(* What is left of a result set after its first row has been worked off.   *)
LEMMA TailFacts ==
  ASSUME NEW S, NEW s \in Seq(S), s # <<>>
  PROVE  /\ Len(s) \in Nat \ {0}
         /\ Head(s) = s[1] /\ s[1] \in S
         /\ Tail(s) \in Seq(S)
         /\ Len(Tail(s)) = Len(s) - 1
         /\ \A k \in 1..Len(Tail(s)) : Tail(s)[k] = s[k + 1]
         /\ Tail(s) = <<>> <=> Len(s) = 1
<1> DEFINE t == Tail(s)
<1>1. Len(s) \in Nat \ {0}
  BY EmptySeq
<1>2. /\ Head(s) \in S /\ t \in Seq(S) /\ Len(t) = Len(s) - 1
      /\ \A k \in 1..Len(t) : t[k] = s[k + 1]
  BY HeadTailProperties
<1>3. Head(s) = s[1] /\ s[1] \in S
  BY <1>1, ElementOfSeq
<1>4. t = <<>> <=> Len(s) = 1
  <2> HIDE DEF t
  <2>1. t = <<>> => Len(t) = 0
    BY EmptySeq
  <2>2. t # <<>> => Len(t) \in Nat \ {0}
    BY <1>2, EmptySeq
  <2> QED
    BY <1>1, <1>2, <2>1, <2>2
<1> QED
  BY <1>1, <1>2, <1>3, <1>4

(* The rows the SELECT matches are finitely many.                          *)
LEMMA SelectedFinite ==
  ASSUME TypeOK
  PROVE  /\ Selected \subseteq Open /\ Open \subseteq Stored /\ Stored \subseteq Rows
         /\ IsFiniteSet(Selected)
         /\ Cardinality(Selected) \in Nat
<1>1. Selected \subseteq Open /\ Open \subseteq Stored
  BY DEF Selected, Open
<1>2. Len(law) \in Nat /\ Stored \subseteq Rows
  BY ParserAssumption, LenProperties DEF TypeOK, Stored, Rows
<1>3. IsFiniteSet(Stored)
  BY <1>2, FS_Interval DEF Stored
<1>4. IsFiniteSet(Selected)
  BY <1>1, <1>3, FS_Subset
<1> QED
  BY <1>1, <1>2, <1>4, FS_CardinalityType

(* A stored result lists every matching row once, ordered by cDate.        *)
LEMMA ResultFacts ==
  ASSUME TypeOK, NEW s \in Results
  PROVE  /\ s \in Seq(Rows)
         /\ Len(s) = Cardinality(Selected)
         /\ \A k \in 1..Len(s) : s[k] \in Selected
         /\ \A j, k \in 1..Len(s) :
              j < k => s[j] # s[k] /\ law[s[j]].cDate <= law[s[k]].cDate
         /\ \A i \in Selected : \E k \in 1..Len(s) : s[k] = i
<1> DEFINE n == Cardinality(Selected)
<1>1. n \in Nat /\ IsFiniteSet(Selected) /\ Selected \subseteq Rows
  BY SelectedFinite
<1>2. s \in [1..n -> Selected]
  BY DEF Results
<1>3. s \in Seq(Rows) /\ Len(s) = n
  BY <1>1, <1>2
<1>4. \A j, k \in 1..n :
        j < k => s[j] # s[k] /\ law[s[j]].cDate <= law[s[k]].cDate
  BY <1>2 DEF Results
<1>5. s \in Injection(1..n, Selected)
  <2>1. \A j, k \in 1..n : s[j] = s[k] => j = k
    <3> SUFFICES ASSUME NEW j \in 1..n, NEW k \in 1..n, s[j] = s[k], j # k
                 PROVE  FALSE
      OBVIOUS
    <3>1. j < k \/ k < j
      BY <1>1
    <3> QED
      BY <3>1, <1>4
  <2> QED
    BY <1>2, <2>1 DEF Injection, IsInjective
<1>6. s \in Surjection(1..n, Selected)
  <2>1. IsFiniteSet(1..n) /\ Cardinality(1..n) = n
    BY <1>1, FS_Interval
  <2> QED
    BY <1>1, <1>5, <2>1, FS_Injection
<1>7. \A i \in Selected : \E k \in 1..n : s[k] = i
  BY <1>6 DEF Surjection
<1> QED
  BY <1>2, <1>3, <1>4, <1>7

(* What main() leaves behind when it goes on to the next row.              *)
LEMMA NextRowFacts ==
  ASSUME Types, NEW p \in Parsers, pc[p] \in {"insert", "mark"}, NextRow(p)
  PROVE  /\ batch[p] # <<>> /\ Len(batch[p]) \in Nat \ {0}
         /\ Current(p) = batch[p][1] /\ Current(p) \in Stored
         /\ pc' \in [Parsers -> {"down", "poll", "insert", "mark"}]
         /\ batch' \in [Parsers -> Seq(Rows)]
         /\ \A q \in Parsers : q # p => pc'[q] = pc[q] /\ batch'[q] = batch[q]
         /\ Len(batch'[p]) = Len(batch[p]) - 1
         /\ \A k \in 1..Len(batch'[p]) : batch'[p][k] = batch[p][k + 1]
         /\ pc'[p] \in {"poll", "insert"}
         /\ pc'[p] = "insert" <=> batch'[p] # <<>>
<1>1. batch[p] # <<>> /\ batch[p] \in Seq(Rows)
  BY DEF Types, TypeOK, BatchShape
<1>2. /\ Len(batch[p]) \in Nat \ {0}
      /\ Current(p) = batch[p][1]
      /\ Tail(batch[p]) \in Seq(Rows)
      /\ Len(Tail(batch[p])) = Len(batch[p]) - 1
      /\ \A k \in 1..Len(Tail(batch[p])) : Tail(batch[p])[k] = batch[p][k + 1]
      /\ Tail(batch[p]) = <<>> <=> Len(batch[p]) = 1
  BY <1>1, TailFacts DEF Current
<1>3. Current(p) \in Stored
  BY <1>1, <1>2 DEF Types, BatchShape, WellFormed
<1>4. /\ batch' = [batch EXCEPT ![p] = Tail(batch[p])]
      /\ pc' = [pc EXCEPT ![p] = IF Len(batch[p]) = 1 THEN "poll" ELSE "insert"]
  BY DEF NextRow, Goto
<1>5. /\ pc \in [Parsers -> {"down", "poll", "insert", "mark"}]
      /\ batch \in [Parsers -> Seq(Rows)]
  BY DEF Types, TypeOK
<1>6. /\ pc' \in [Parsers -> {"down", "poll", "insert", "mark"}]
      /\ batch' \in [Parsers -> Seq(Rows)]
      /\ \A q \in Parsers : q # p => pc'[q] = pc[q] /\ batch'[q] = batch[q]
      /\ batch'[p] = Tail(batch[p])
      /\ pc'[p] = IF Len(batch[p]) = 1 THEN "poll" ELSE "insert"
  BY <1>2, <1>4, <1>5
<1> QED
  BY <1>1, <1>2, <1>3, <1>6

(* The same for the end of the process.                                    *)
LEMMA ExitFacts ==
  ASSUME TypeOK, NEW p \in Parsers, Exit(p)
  PROVE  /\ pc' \in [Parsers -> {"down", "poll", "insert", "mark"}]
         /\ batch' \in [Parsers -> Seq(Rows)]
         /\ conn' \in [Parsers -> BOOLEAN]
         /\ \A q \in Parsers :
              q # p => pc'[q] = pc[q] /\ batch'[q] = batch[q] /\ conn'[q] = conn[q]
         /\ pc'[p] = "down" /\ batch'[p] = <<>> /\ conn'[p] = FALSE
  BY DEF Exit, Goto, TypeOK

(* The same for a SELECT that is answered.                                 *)
LEMMA PollFacts ==
  ASSUME TypeOK, NEW p \in Parsers, Poll(p), conn[p]
  PROVE  \E s \in Results :
           /\ pc' \in [Parsers -> {"down", "poll", "insert", "mark"}]
           /\ batch' \in [Parsers -> Seq(Rows)]
           /\ \A q \in Parsers : q # p => pc'[q] = pc[q] /\ batch'[q] = batch[q]
           /\ batch'[p] = s
           /\ pc'[p] = IF Len(s) = 0 THEN "poll" ELSE "insert"
           /\ conn' = conn
<1>1. PICK s \in Results :
        /\ batch' = [batch EXCEPT ![p] = s]
        /\ pc' = [pc EXCEPT ![p] = IF Len(s) = 0 THEN "poll" ELSE "insert"]
        /\ conn' = conn
  BY DEF Poll, Goto
<1>2. s \in Seq(Rows)
  BY ResultFacts
<1> QED
  BY <1>1, <1>2 DEF TypeOK

-----------------------------------------------------------------------------
(* Type correctness, with the shape of the batches.                        *)

LEMMA TypesInit == Init => Types
<1> SUFFICES ASSUME Init PROVE Types
  OBVIOUS
<1>1. TypeOK
  BY ParserAssumption, EmptySeq DEF Init, TypeOK, NoRows, Rows
<1>2. BatchShape
  BY EmptySeq DEF Init, BatchShape, WellFormed, Stored
<1> QED
  BY <1>1, <1>2 DEF Types

(* The raw log after a row has been appended to it.                        *)
LEMMA AcceptFacts ==
  ASSUME TypeOK, NEW k \in Kinds, Accept(k)
  PROVE  /\ law' \in Seq(Row)
         /\ Len(law') = Len(law) + 1 /\ Len(law') <= MaxRows /\ Len(law) \in Nat
         /\ \A i \in 1..Len(law) : law'[i] = law[i]
         /\ law'[Len(law')].kind = k /\ law'[Len(law')].state = "N"
         /\ law'[Len(law')].cDate >= LastDate
<1>1. law \in Seq(Row) /\ Len(law) \in Nat /\ Len(law) < MaxRows /\ MaxRows \in Nat
  BY ParserAssumption, LenProperties DEF TypeOK, Accept
<1>2. LastDate \in Nat
  <2>1. CASE law = <<>>
    BY <2>1 DEF LastDate
  <2>2. CASE law # <<>>
    <3>1. Len(law) \in 1..Len(law)
      BY <1>1, <2>2, EmptySeq
    <3>2. law[Len(law)] \in Row
      BY <1>1, <3>1, ElementOfSeq
    <3> QED
      BY <2>2, <3>2 DEF LastDate, Row
  <2> QED
    BY <2>1, <2>2
<1>3. PICK t \in {LastDate, LastDate + 1} :
        law' = Append(law, [kind |-> k, state |-> "N", cDate |-> t, rCount |-> 0])
  BY DEF Accept
<1> DEFINE r == [kind |-> k, state |-> "N", cDate |-> t, rCount |-> 0]
<1>4. r \in Row
  BY <1>2, <1>3 DEF Row
<1>5. /\ law' \in Seq(Row)
      /\ Len(law') = Len(law) + 1
      /\ \A i \in 1..Len(law) : law'[i] = law[i]
      /\ law'[Len(law) + 1] = r
  <2> HIDE DEF r
  <2> QED
    BY <1>1, <1>3, <1>4, AppendProperties DEF r
<1> QED
  BY <1>1, <1>2, <1>3, <1>5

(* A parser that does not move keeps the shape of its batch.               *)
LEMMA OtherBatch ==
  ASSUME BatchShape, NEW q \in Parsers, Stored' = Stored,
         pc'[q] = pc[q], batch'[q] = batch[q]
  PROVE  /\ pc'[q] \in {"insert", "mark"} <=> batch'[q] # <<>>
         /\ WellFormed(batch[q])'
<1>1. WellFormed(batch[q]) /\ (pc[q] \in {"insert", "mark"} <=> batch[q] # <<>>)
  BY DEF BatchShape
<1>2. pc'[q] \in {"insert", "mark"} <=> batch'[q] # <<>>
  BY <1>1
<1>3. WellFormed(batch[q])'
  BY <1>1 DEF WellFormed
<1> QED
  BY <1>2, <1>3

(* One type-correct state leads to another, action by action.              *)
LEMMA TypesNext == Types /\ [Next]_vars => Types'
<1> SUFFICES ASSUME Types, [Next]_vars PROVE Types'
  OBVIOUS
<1> USE ParserAssumption
<1>0. /\ TypeOK /\ BatchShape
      /\ law \in Seq(Row) /\ Len(law) \in Nat /\ Len(law) <= MaxRows
      /\ Stored \subseteq Rows
  BY LenProperties, SelectedFinite DEF Types, TypeOK
<1>1. ASSUME ServerInsert PROVE Types'
  <2>1. PICK k \in Kinds : Accept(k)
    BY <1>1 DEF ServerInsert
  <2>2. law' \in Seq(Row) /\ Len(law') = Len(law) + 1 /\ Len(law') <= MaxRows
    BY <1>0, <2>1, AcceptFacts
  <2>3. UNCHANGED <<detail, pc, batch, conn, attempts, disturbed>>
    BY <1>1 DEF ServerInsert
  <2>4. TypeOK'
    BY <1>0, <2>2, <2>3 DEF TypeOK, Rows
  <2>5. Stored \subseteq Stored'
    BY <1>0, <2>2 DEF Stored
  <2>6. BatchShape'
    BY <1>0, <2>3, <2>5 DEF BatchShape, WellFormed
  <2> QED
    BY <2>4, <2>6 DEF Types
<1>2. ASSUME NEW p \in Parsers, Start(p) PROVE Types'
  <2>1. /\ pc' = [pc EXCEPT ![p] = "poll"] /\ pc[p] = "down"
        /\ pc \in [Parsers -> {"down", "poll", "insert", "mark"}]
        /\ batch' = batch /\ Stored' = Stored
    BY <1>0, <1>2 DEF Start, Goto, TypeOK, Stored
  <2>2. TypeOK'
    BY <1>0, <1>2 DEF TypeOK, Start, Goto, Rows
  <2>3. ASSUME NEW q \in Parsers
        PROVE  pc'[q] \in {"insert", "mark"} <=> pc[q] \in {"insert", "mark"}
    BY <2>1
  <2>4. BatchShape'
    BY <1>0, <2>1, <2>3 DEF BatchShape, WellFormed
  <2> QED
    BY <2>2, <2>4 DEF Types
<1>3. ASSUME NEW p \in Parsers, Exit(p),
             UNCHANGED <<law, detail, attempts>>, disturbed' \in [Parsers -> 0..MaxDisturb]
      PROVE  Types'
  <2>1. TypeOK'
    BY <1>0, <1>3, ExitFacts DEF TypeOK, Rows
  <2>2. ASSUME NEW q \in Parsers
        PROVE  /\ pc'[q] \in {"insert", "mark"} <=> batch'[q] # <<>>
               /\ WellFormed(batch[q])' 
    <3>0. Stored' = Stored
      BY <1>3 DEF Stored
    <3>1. CASE q = p
      <4>1. pc'[q] = "down" /\ batch'[q] = <<>> /\ Len(batch'[q]) = 0
        BY <1>0, <1>3, <3>1, ExitFacts, EmptySeq
      <4> QED
        BY <4>1 DEF WellFormed
    <3>2. CASE q # p
      <4>1. pc'[q] = pc[q] /\ batch'[q] = batch[q]
        BY <1>0, <1>3, <3>2, ExitFacts
      <4> QED
        BY <1>0, <3>0, <4>1, OtherBatch
    <3> QED
      BY <3>1, <3>2
  <2> QED
    BY <2>1, <2>2 DEF Types, BatchShape
<1>4. ASSUME NEW p \in Parsers, pc[p] \in {"insert", "mark"}, NextRow(p),
             law' \in Seq(Row), Len(law') = Len(law),
             detail' \in [Rows -> [Parsers -> Nat]],
             conn' \in [Parsers -> BOOLEAN],
             attempts' \in [Rows -> 0..AttemptCap],
             disturbed' \in [Parsers -> 0..MaxDisturb]
      PROVE  Types'
  <2>1. TypeOK'
    BY <1>0, <1>4, NextRowFacts DEF TypeOK, Rows, Types
  <2>2. ASSUME NEW q \in Parsers
        PROVE  /\ pc'[q] \in {"insert", "mark"} <=> batch'[q] # <<>>
               /\ WellFormed(batch[q])'
    <3>0. Stored' = Stored
      BY <1>4 DEF Stored
    <3>1. CASE q = p
      <4>1. /\ Len(batch[p]) \in Nat \ {0}
            /\ Len(batch'[p]) = Len(batch[p]) - 1
            /\ \A k \in 1..Len(batch'[p]) : batch'[p][k] = batch[p][k + 1]
            /\ pc'[p] \in {"poll", "insert"}
            /\ pc'[p] = "insert" <=> batch'[p] # <<>>
        BY <1>4, NextRowFacts
      <4>2. \A k \in 1..Len(batch'[p]) : k \in Nat /\ k + 1 \in 1..Len(batch[p])
        BY <4>1
      <4>3. \A k \in 1..Len(batch'[p]) : batch'[p][k] \in Stored
        BY <1>0, <4>1, <4>2 DEF BatchShape, WellFormed
      <4>4. \A j, k \in 1..Len(batch'[p]) : j < k => batch'[p][j] # batch'[p][k]
        BY <1>0, <4>1, <4>2 DEF BatchShape, WellFormed
      <4> QED
        BY <3>0, <3>1, <4>1, <4>3, <4>4 DEF WellFormed
    <3>2. CASE q # p
      <4>1. pc'[q] = pc[q] /\ batch'[q] = batch[q]
        BY <1>4, <3>2, NextRowFacts
      <4> QED
        BY <1>0, <3>0, <4>1, OtherBatch
    <3> QED
      BY <3>1, <3>2
  <2> QED
    BY <2>1, <2>2 DEF Types, BatchShape
<1>5. ASSUME NEW p \in Parsers, Poll(p) PROVE Types'
  <2>1. CASE conn[p]
    <3>1. PICK s \in Results :
            /\ pc' \in [Parsers -> {"down", "poll", "insert", "mark"}]
            /\ batch' \in [Parsers -> Seq(Rows)]
            /\ \A q \in Parsers : q # p => pc'[q] = pc[q] /\ batch'[q] = batch[q]
            /\ batch'[p] = s
            /\ pc'[p] = IF Len(s) = 0 THEN "poll" ELSE "insert"
            /\ conn' = conn
      BY <1>0, <1>5, <2>1, PollFacts
    <3>2. UNCHANGED <<law, detail, attempts, disturbed>> /\ Stored' = Stored
      BY <1>5 DEF Poll, Stored
    <3>3. s \in Seq(Rows) /\ WellFormed(s)
      BY <1>0, ResultFacts, SelectedFinite DEF WellFormed
    <3>4. s # <<>> <=> Len(s) # 0
      BY <3>3, EmptySeq
    <3>5. TypeOK'
      BY <1>0, <3>1, <3>2 DEF TypeOK, Rows
    <3>6. ASSUME NEW q \in Parsers
          PROVE  /\ pc'[q] \in {"insert", "mark"} <=> batch'[q] # <<>>
                 /\ WellFormed(batch[q])'
      <4>1. CASE q = p
        <5>1. pc'[q] \in {"insert", "mark"} <=> s # <<>>
          BY <3>1, <3>4, <4>1
        <5> QED
          BY <3>1, <3>2, <3>3, <4>1, <5>1, Zenon DEF WellFormed
      <4>2. CASE q # p
        BY <1>0, <3>1, <3>2, <4>2, OtherBatch
      <4> QED
        BY <4>1, <4>2
    <3> QED
      BY <3>5, <3>6 DEF Types, BatchShape
  <2>2. CASE ~conn[p]
    BY <1>0, <1>3, <1>5, <2>2 DEF Poll, TypeOK
  <2> QED
    BY <2>1, <2>2
<1>6. ASSUME NEW p \in Parsers, DieOfRow(p) PROVE Types'
  BY <1>0, <1>3, <1>6 DEF DieOfRow, TypeOK
<1>7. ASSUME NEW p \in Parsers, AddDetail(p) PROVE detail' \in [Rows -> [Parsers -> Nat]]
  <2>1. detail' = [detail EXCEPT ![Current(p)] =
                     [detail[Current(p)] EXCEPT ![p] = @ + 1]]
    BY <1>7 DEF AddDetail
  <2>2. Current(p) \in Rows => detail[Current(p)] \in [Parsers -> Nat]
    BY <1>0 DEF TypeOK
  <2>3. Current(p) \in Rows =>
          [detail[Current(p)] EXCEPT ![p] = @ + 1] \in [Parsers -> Nat]
    BY <2>2
  <2> QED
    BY <1>0, <2>1, <2>3 DEF TypeOK
<1>8. ASSUME NEW p \in Parsers, GiveUpRow(p) PROVE attempts' \in [Rows -> 0..AttemptCap]
  <2> DEFINE i == Current(p)
             n == IF attempts[i] < AttemptCap THEN attempts[i] + 1 ELSE attempts[i]
  <2>1. attempts' = [attempts EXCEPT ![i] = n]
    BY <1>8 DEF GiveUpRow
  <2>2. attempts \in [Rows -> 0..AttemptCap]
    BY <1>0 DEF TypeOK
  <2>3. i \in Rows => n \in 0..AttemptCap
    BY <2>2
  <2> QED
    BY <2>1, <2>2, <2>3
<1>9. ASSUME NEW p \in Parsers, Disturb(p) PROVE disturbed' \in [Parsers -> 0..MaxDisturb]
  BY <1>0, <1>9 DEF Disturb, CanDisturb, TypeOK
<1>10. ASSUME NEW p \in Parsers, InsertRefused(p) PROVE Types'
  BY <1>0, <1>4, <1>8, <1>10 DEF InsertRefused, GiveUpRow, TypeOK
<1>11. ASSUME NEW p \in Parsers, MarkRow(p) PROVE Types'
  <2>1. Current(p) \in 1..Len(law)
    BY <1>11, NextRowFacts DEF MarkRow, Stored
  <2>2. law[Current(p)] \in Row
    BY <1>0, <2>1, ElementOfSeq
  <2>3. law' = [law EXCEPT ![Current(p)] = [law[Current(p)] EXCEPT !.state = "C"]]
    BY <1>11 DEF MarkRow
  <2>4. [law[Current(p)] EXCEPT !.state = "C"] \in Row
    BY <2>2 DEF Row
  <2>5. law' \in Seq(Row) /\ Len(law') = Len(law)
    BY <1>0, <2>1, <2>3, <2>4, ExceptSeq
  <2> QED
    BY <1>0, <1>4, <1>11, <2>5 DEF MarkRow, TypeOK
<1>12. ASSUME NEW p \in Parsers, MarkRefused(p) PROVE Types'
  BY <1>0, <1>4, <1>8, <1>12 DEF MarkRefused, GiveUpRow, TypeOK
<1>13. ASSUME NEW p \in Parsers, Kill(p) PROVE Types'
  BY <1>0, <1>3, <1>9, <1>13 DEF Kill
<1>14. ASSUME NEW p \in Parsers, ConnLost(p) PROVE Types'
  <2>1. TypeOK'
    BY <1>0, <1>9, <1>14 DEF TypeOK, ConnLost, Rows
  <2>2. BatchShape'
    BY <1>0, <1>14 DEF BatchShape, WellFormed, ConnLost, Stored
  <2> QED
    BY <2>1, <2>2 DEF Types
<1>15. ASSUME NEW p \in Parsers, InsertDetail(p) PROVE Types'
  <2>1. /\ pc' = [pc EXCEPT ![p] = "mark"] /\ pc[p] = "insert"
        /\ pc \in [Parsers -> {"down", "poll", "insert", "mark"}]
        /\ batch' = batch /\ Stored' = Stored
    BY <1>0, <1>15 DEF InsertDetail, Goto, TypeOK, Stored
  <2>2. TypeOK'
    BY <1>0, <1>7, <1>15, <2>1 DEF TypeOK, InsertDetail, Rows
  <2>3. ASSUME NEW q \in Parsers
        PROVE  pc'[q] \in {"insert", "mark"} <=> pc[q] \in {"insert", "mark"}
    BY <2>1
  <2>4. BatchShape'
    BY <1>0, <2>1, <2>3 DEF BatchShape, WellFormed
  <2> QED
    BY <2>2, <2>4 DEF Types
<1>16. ASSUME NEW p \in Parsers, InsertAnswerLost(p) PROVE Types'
  <2>1. detail' \in [Rows -> [Parsers -> Nat]] /\ conn' \in [Parsers -> BOOLEAN]
    BY <1>0, <1>7, <1>16 DEF InsertAnswerLost, TypeOK
  <2> QED
    BY <1>0, <1>4, <1>8, <1>9, <1>16, <2>1 DEF InsertAnswerLost, GiveUpRow
<1>17. ASSUME NEW p \in Parsers, StatementFails(p) PROVE Types'
  BY <1>0, <1>4, <1>8, <1>9, <1>17 DEF StatementFails, GiveUpRow, TypeOK
<1>18. CASE UNCHANGED vars
  BY <1>0, <1>18 DEF vars, Types, TypeOK, BatchShape, WellFormed, Rows, Stored
<1> QED
  BY <1>1, <1>2, <1>5, <1>6, <1>10, <1>11, <1>12, <1>13, <1>14, <1>15,
     <1>16, <1>17, <1>18 DEF Next, ParserStep, Trouble

(* Every reachable state is typed: the raw log, its copies, and the        *)
(* positions, result sets and connections of all parsers.                  *)
THEOREM TypeCorrect == Spec => []TypeOK
<1>1. Spec => []Types
  BY TypesInit, TypesNext, PTL DEF Spec
<1>2. Types => TypeOK
  BY DEF Types
<1> QED
  BY <1>1, <1>2, PTL

-----------------------------------------------------------------------------
(* Closed rows have copies, and copies are accounted for.                  *)

CopyInv == CopiesOfStored /\ ClosedHasDetail /\ CopiesAccounted

(* The row a parser works on is a stored row.                              *)
LEMMA CurrentFacts ==
  ASSUME Types, NEW p \in Parsers, pc[p] \in {"insert", "mark"}
  PROVE  /\ Len(batch[p]) \in Nat \ {0}
         /\ Current(p) = batch[p][1]
         /\ Current(p) \in Stored /\ Current(p) \in Rows
<1>1. batch[p] # <<>> /\ batch[p] \in Seq(Rows) /\ WellFormed(batch[p])
  BY DEF Types, TypeOK, BatchShape
<1>2. Len(batch[p]) \in Nat \ {0} /\ Current(p) = batch[p][1]
  BY <1>1, TailFacts DEF Current
<1> QED
  BY <1>1, <1>2, SelectedFinite DEF WellFormed, Types

(* The INSERT adds one row to the detail table and changes no other.       *)
LEMMA AddDetailFacts ==
  ASSUME Types, NEW p \in Parsers, pc[p] \in {"insert", "mark"}, AddDetail(p)
  PROVE  \A i \in Rows, q \in Parsers :
           detail'[i][q] = IF i = Current(p) /\ q = p THEN detail[i][q] + 1
                                                      ELSE detail[i][q]
<1>1. Current(p) \in Rows /\ detail \in [Rows -> [Parsers -> Nat]]
  BY CurrentFacts DEF Types, TypeOK
<1>2. detail' = [detail EXCEPT ![Current(p)] =
                   [detail[Current(p)] EXCEPT ![p] = @ + 1]]
  BY DEF AddDetail
<1> QED
  BY <1>1, <1>2

(* The UPDATE closes one row and changes nothing else of the raw log.      *)
LEMMA MarkFacts ==
  ASSUME Types, NEW p \in Parsers, MarkRow(p)
  PROVE  /\ Stored' = Stored
         /\ \A i \in Stored :
              /\ law'[i].state = IF i = Current(p) THEN "C" ELSE law[i].state
              /\ law'[i].kind = law[i].kind /\ law'[i].cDate = law[i].cDate
<1>1. Current(p) \in 1..Len(law) /\ law \in Seq(Row)
  BY CurrentFacts DEF MarkRow, Types, TypeOK, Stored
<1>2. law[Current(p)] \in Row
  BY <1>1, ElementOfSeq
<1> DEFINE r == [law[Current(p)] EXCEPT !.state = "C"]
<1>3. /\ r \in Row /\ r.state = "C"
      /\ r.kind = law[Current(p)].kind /\ r.cDate = law[Current(p)].cDate
  BY <1>2 DEF Row
<1>4. law' = [law EXCEPT ![Current(p)] = r]
  BY DEF MarkRow
<1>5. /\ Len(law') = Len(law)
      /\ \A i \in 1..Len(law) : law'[i] = IF i = Current(p) THEN r ELSE law[i]
  <2> HIDE DEF r
  <2> QED
    BY <1>1, <1>3, <1>4, ExceptSeq
<1> QED
  BY <1>3, <1>5 DEF Stored

(* A disturbance of one parser is counted for that parser.                 *)
LEMMA DisturbFacts ==
  ASSUME Types, NEW p \in Parsers, Disturb(p)
  PROVE  \A q \in Parsers :
           disturbed'[q] = IF q = p THEN disturbed[q] + 1 ELSE disturbed[q]
  BY DEF Types, TypeOK, Disturb

LEMMA CopyInit == Init => CopyInv
<1> SUFFICES ASSUME Init PROVE CopyInv
  OBVIOUS
<1>1. \A i \in Rows, p \in Parsers : detail[i][p] = 0
  BY DEF Init, NoRows
<1>2. Stored = {} /\ \A p \in Parsers : pc[p] = "down" /\ Len(batch[p]) = 0
  BY EmptySeq DEF Init, Stored
<1> QED
  BY <1>1, <1>2 DEF CopyInv, CopiesOfStored, ClosedHasDetail, CopiesAccounted

(* A step that makes parser p leave the row it works on, adding at most a  *)
(* copy of that row, keeps CopyInv when the row is settled or paid for.    *)
LEMMA CopyNextRow ==
  ASSUME Types, CopyInv, NEW p \in Parsers, pc[p] \in {"insert", "mark"}, NextRow(p),
         Stored' = Stored,
         \A i \in Stored : \/ law'[i].state = law[i].state
                           \/ /\ i = Current(p) /\ law'[i].state = "C"
                              /\ detail[i][p] > 0,
         \A i \in Rows, q \in Parsers :
           /\ detail'[i][q] \in Nat /\ detail[i][q] <= detail'[i][q]
           /\ (i = Current(p) /\ q = p) \/ detail'[i][q] = detail[i][q],
         \A q \in Parsers : /\ disturbed'[q] \in Nat /\ disturbed[q] <= disturbed'[q]
                            /\ q = p \/ conn'[q] = conn[q],
         \/ detail'[Current(p)][p] <= disturbed'[p]
         \/ law'[Current(p)].state = "C" /\ detail'[Current(p)][p] <= disturbed'[p] + 1
  PROVE  CopyInv'
<1> DEFINE c == Current(p)
<1>1. /\ c = batch[p][1] /\ c \in Stored /\ c \in Rows /\ Stored \subseteq Rows
      /\ Len(batch[p]) \in Nat \ {0}
  BY CurrentFacts, SelectedFinite DEF Types
<1>2. /\ pc'[p] \in {"poll", "insert"}
      /\ \A q \in Parsers : q # p => pc'[q] = pc[q] /\ batch'[q] = batch[q]
      /\ Len(batch'[p]) = Len(batch[p]) - 1
      /\ \A k \in 1..Len(batch'[p]) : batch'[p][k] = batch[p][k + 1]
  BY NextRowFacts
<1>3. \A i \in Rows, q \in Parsers : detail[i][q] \in Nat /\ disturbed[q] \in Nat
  BY DEF Types, TypeOK
<1>4. \A q \in Parsers : WellFormed(batch[q])
  BY DEF Types, BatchShape
<1>5. CopiesOfStored'
  <2>1. ASSUME NEW i \in Rows, NEW q \in Parsers, i \notin Stored PROVE detail'[i][q] = 0
    BY <1>1, <2>1 DEF CopyInv, CopiesOfStored
  <2>2. ASSUME NEW q \in Parsers, pc'[q] = "mark" PROVE detail'[Head(batch'[q])][q] > 0
    <3>1. q # p
      BY <1>2, <2>2
    <3>2. pc[q] = "mark" /\ Head(batch'[q]) = Current(q)
      BY <1>2, <2>2, <3>1 DEF Current
    <3>3. Current(q) \in Rows
      BY <3>2, CurrentFacts
    <3>4. detail[Current(q)][q] > 0
      BY <3>2 DEF CopyInv, CopiesOfStored
    <3> QED
      BY <1>3, <3>2, <3>3, <3>4
  <2> QED
    BY <2>1, <2>2 DEF CopiesOfStored, Current
<1>6. ClosedHasDetail'
  <2> SUFFICES ASSUME NEW i \in Stored, law'[i].state = "C"
               PROVE  \E q \in Parsers : detail'[i][q] > 0
    BY DEF ClosedHasDetail
  <2>1. PICK q \in Parsers : detail[i][q] > 0
    BY DEF CopyInv, ClosedHasDetail
  <2> QED
    BY <1>1, <1>3, <2>1
<1>7. ASSUME NEW i \in Stored, NEW q \in Parsers
      PROVE  detail'[i][q] <= disturbed'[q] + (IF Settled(i, q)' THEN 1 ELSE 0)
  <2>1. detail[i][q] <= disturbed[q] + (IF Settled(i, q) THEN 1 ELSE 0)
    BY DEF CopyInv, CopiesAccounted
  <2>2. i \in Rows
    BY <1>1
  <2>3. CASE i = c /\ q = p
    <3>1. law'[i].state = "C" => Settled(i, q)'
      BY DEF Settled
    <3> QED
      BY <1>3, <2>2, <2>3, <3>1
  <2>4. CASE ~(i = c /\ q = p)
    <3>1. Settled(i, q) => Settled(i, q)'
      <4>1. CASE law[i].state = "C"
        BY <4>1 DEF Settled
      <4>2. CASE pc[q] = "mark" /\ conn[q] /\ Current(q) = i
        <5>1. q # p
          BY <2>4, <4>2
        <5> QED
          BY <1>2, <4>2, <5>1 DEF Settled, Current
      <4> QED
        BY <4>1, <4>2 DEF Settled
    <3>2. detail'[i][q] = detail[i][q]
      BY <2>2, <2>4
    <3> QED
      BY <1>3, <2>1, <2>2, <3>1, <3>2
  <2> QED
    BY <2>3, <2>4
<1>8. ASSUME NEW q \in Parsers, NEW k \in 1..Len(batch'[q]), pc'[q] = "insert" \/ k > 1
      PROVE  detail'[batch'[q][k]][q] <= disturbed'[q]
  <2>1. CASE q = p
    <3>1. /\ k \in Nat /\ k + 1 \in 1..Len(batch[p]) /\ k + 1 > 1
          /\ 1 \in 1..Len(batch[p]) /\ batch'[p][k] = batch[p][k + 1]
      BY <1>1, <1>2, <2>1
    <3>2. batch[p][k + 1] \in Stored /\ batch[p][k + 1] # c
      BY <1>1, <1>4, <3>1 DEF WellFormed
    <3>3. detail[batch[p][k + 1]][p] <= disturbed[p]
      BY <3>1 DEF CopyInv, CopiesAccounted
    <3>4. detail'[batch[p][k + 1]][p] = detail[batch[p][k + 1]][p]
      BY <1>1, <3>2
    <3>5. batch[p][k + 1] \in Rows
      BY <1>1, <3>2
    <3> QED
      BY <1>3, <2>1, <3>1, <3>3, <3>4, <3>5
  <2>2. CASE q # p
    <3>1. batch'[q] = batch[q] /\ pc'[q] = pc[q]
      BY <1>2, <2>2
    <3>2. k \in 1..Len(batch[q]) /\ (pc[q] = "insert" \/ k > 1)
      BY <1>8, <3>1
    <3>3. batch[q][k] \in Rows
      BY <1>1, <1>4, <3>2 DEF WellFormed
    <3>4. detail[batch[q][k]][q] <= disturbed[q]
      BY <3>2 DEF CopyInv, CopiesAccounted
    <3> QED
      BY <1>3, <2>2, <3>1, <3>3, <3>4
  <2> QED
    BY <2>1, <2>2
<1>9. CopiesAccounted'
  BY <1>7, <1>8 DEF CopiesAccounted
<1> QED
  BY <1>5, <1>6, <1>9 DEF CopyInv

(* The end of a process keeps CopyInv: only an end between the INSERT and  *)
(* the UPDATE leaves a copy behind, and such an end is a disturbance.      *)
LEMMA CopyExit ==
  ASSUME Types, CopyInv, NEW p \in Parsers, Exit(p), UNCHANGED <<law, detail>>,
         \A q \in Parsers : disturbed'[q] \in Nat /\ disturbed[q] <= disturbed'[q],
         pc[p] = "mark" => disturbed'[p] = disturbed[p] + 1
  PROVE  CopyInv'
<1>1. /\ pc'[p] = "down" /\ batch'[p] = <<>> /\ Len(batch'[p]) = 0
      /\ \A q \in Parsers :
           q # p => pc'[q] = pc[q] /\ batch'[q] = batch[q] /\ conn'[q] = conn[q]
  BY ExitFacts, EmptySeq DEF Types
<1>2. \A i \in Rows, q \in Parsers : detail[i][q] \in Nat /\ disturbed[q] \in Nat
  BY DEF Types, TypeOK
<1>3. Stored' = Stored /\ Stored \subseteq Rows
  BY SelectedFinite DEF Stored, Types
<1>4. CopiesOfStored'
  <2>1. ASSUME NEW q \in Parsers, pc'[q] = "mark" PROVE detail'[Head(batch'[q])][q] > 0
    <3>1. pc[q] = "mark" /\ batch'[q] = batch[q]
      BY <1>1, <2>1
    <3> QED
      BY <3>1 DEF CopyInv, CopiesOfStored, Current
  <2> QED
    BY <1>3, <2>1 DEF CopyInv, CopiesOfStored, Current
<1>5. ClosedHasDetail'
  BY <1>3 DEF CopyInv, ClosedHasDetail
<1>6. ASSUME NEW i \in Stored, NEW q \in Parsers
      PROVE  detail[i][q] <= disturbed'[q] + (IF Settled(i, q)' THEN 1 ELSE 0)
  <2>1. detail[i][q] <= disturbed[q] + (IF Settled(i, q) THEN 1 ELSE 0)
    BY DEF CopyInv, CopiesAccounted
  <2>2. i \in Rows
    BY <1>3
  <2>3. Settled(i, q) => Settled(i, q)' \/ disturbed'[q] = disturbed[q] + 1
    <3>1. CASE law[i].state = "C"
      BY <3>1 DEF Settled
    <3>2. CASE q = p /\ pc[q] = "mark"
      BY <3>2
    <3>3. CASE q # p
      BY <1>1, <3>3 DEF Settled, Current
    <3> QED
      BY <3>1, <3>2, <3>3 DEF Settled
  <2> QED
    BY <1>2, <2>1, <2>2, <2>3
<1>7. ASSUME NEW q \in Parsers, NEW k \in 1..Len(batch'[q]), pc'[q] = "insert" \/ k > 1
      PROVE  detail[batch'[q][k]][q] <= disturbed'[q]
  <2>1. q # p
    BY <1>1, <1>7
  <2>2. batch'[q] = batch[q] /\ pc'[q] = pc[q]
    BY <1>1, <2>1
  <2>3. batch[q][k] \in Rows
    BY <1>3, <1>7, <2>2 DEF Types, BatchShape, WellFormed
  <2>4. detail[batch[q][k]][q] <= disturbed[q]
    BY <1>7, <2>2 DEF CopyInv, CopiesAccounted
  <2> QED
    BY <1>2, <2>2, <2>3, <2>4
<1>8. CopiesAccounted'
  BY <1>3, <1>6, <1>7 DEF CopiesAccounted
<1> QED
  BY <1>4, <1>5, <1>8 DEF CopyInv

(* Every step keeps CopyInv.                                               *)
LEMMA CopyNext == Types /\ Types' /\ CopyInv /\ [Next]_vars => CopyInv'
<1> SUFFICES ASSUME Types, Types', CopyInv, [Next]_vars PROVE CopyInv'
  OBVIOUS
<1>0. /\ TypeOK /\ BatchShape /\ Stored \subseteq Rows
      /\ CopiesOfStored /\ ClosedHasDetail /\ CopiesAccounted
      /\ \A i \in Rows, q \in Parsers : detail[i][q] \in Nat
      /\ \A q \in Parsers : disturbed[q] \in Nat /\ disturbed'[q] \in Nat
  BY SelectedFinite DEF Types, TypeOK, CopyInv
<1>1. ASSUME ServerInsert PROVE CopyInv'
  <2>1. PICK k \in Kinds : Accept(k)
    BY <1>1 DEF ServerInsert
  <2>2. /\ Len(law) \in Nat /\ Len(law') = Len(law) + 1
        /\ \A i \in Stored : law'[i] = law[i]
        /\ law'[Len(law')].state = "N"
    BY <1>0, <2>1, AcceptFacts DEF Stored
  <2>3. UNCHANGED <<detail, pc, batch, conn, attempts, disturbed>>
    BY <1>1 DEF ServerInsert
  <2>4. Stored' = Stored \cup {Len(law')} /\ Len(law') \notin Stored
    BY <2>2 DEF Stored
  <2>5. Stored' \subseteq Rows
    BY ParserAssumption, <2>2 DEF Types, TypeOK, Stored, Rows
  <2>6. CopiesOfStored'
    BY <1>0, <2>3, <2>4 DEF CopiesOfStored, Current
  <2>7. ClosedHasDetail'
    BY <1>0, <2>2, <2>3, <2>4 DEF ClosedHasDetail
  <2>8. ASSUME NEW i \in Stored', NEW q \in Parsers
        PROVE  detail[i][q] <= disturbed[q] + (IF Settled(i, q)' THEN 1 ELSE 0)
    <3>1. CASE i \in Stored
      <4>1. Settled(i, q)' <=> Settled(i, q)
        BY <2>2, <2>3, <3>1 DEF Settled, Current
      <4> QED
        BY <1>0, <3>1, <4>1 DEF CopiesAccounted
    <3>2. CASE i \notin Stored
      <4>1. detail[i][q] = 0
        BY <1>0, <2>5, <3>2 DEF CopiesOfStored
      <4> QED
        BY <1>0, <2>5, <4>1
    <3> QED
      BY <3>1, <3>2
  <2>9. CopiesAccounted'
    BY <1>0, <2>3, <2>8 DEF CopiesAccounted
  <2> QED
    BY <2>6, <2>7, <2>9 DEF CopyInv
<1>2. ASSUME NEW p \in Parsers, Start(p) PROVE CopyInv'
  <2>1. /\ UNCHANGED <<law, detail, batch, disturbed>> /\ Stored' = Stored
        /\ pc[p] = "down" /\ pc'[p] = "poll" /\ Len(batch[p]) = 0
        /\ \A q \in Parsers : q # p => pc'[q] = pc[q] /\ conn'[q] = conn[q]
    BY <1>0, <1>2, EmptySeq DEF Start, Goto, TypeOK, BatchShape, Stored
  <2>2. CopiesOfStored'
    BY <1>0, <2>1 DEF CopiesOfStored, Current
  <2>3. ClosedHasDetail'
    BY <1>0, <2>1 DEF ClosedHasDetail
  <2>4. ASSUME NEW i \in Stored, NEW q \in Parsers PROVE Settled(i, q)' <=> Settled(i, q)
    BY <2>1 DEF Settled, Current
  <2>5. ASSUME NEW q \in Parsers, NEW k \in 1..Len(batch[q]), pc'[q] = "insert" \/ k > 1
        PROVE  pc[q] = "insert" \/ k > 1
    BY <2>1, <2>5
  <2>6. CopiesAccounted'
    BY <1>0, <2>1, <2>4, <2>5 DEF CopiesAccounted
  <2> QED
    BY <2>2, <2>3, <2>6 DEF CopyInv
<1>3. ASSUME NEW p \in Parsers, Poll(p) PROVE CopyInv'
  <2>0. pc[p] = "poll" /\ UNCHANGED <<law, detail, disturbed>> /\ Stored' = Stored
    BY <1>3 DEF Poll, Stored
  <2>1. CASE conn[p]
    <3>1. PICK s \in Results :
            /\ \A q \in Parsers : q # p => pc'[q] = pc[q] /\ batch'[q] = batch[q]
            /\ batch'[p] = s
            /\ pc'[p] = IF Len(s) = 0 THEN "poll" ELSE "insert"
            /\ conn' = conn
      BY <1>0, <1>3, <2>1, PollFacts
    <3>2. CopiesOfStored'
      BY <1>0, <2>0, <3>1 DEF CopiesOfStored, Current
    <3>3. ClosedHasDetail'
      BY <1>0, <2>0 DEF ClosedHasDetail
    <3>4. ASSUME NEW i \in Stored, NEW q \in Parsers PROVE Settled(i, q) => Settled(i, q)'
      BY <2>0, <3>1 DEF Settled, Current
    <3>5. ASSUME NEW q \in Parsers, NEW k \in 1..Len(batch'[q]), pc'[q] = "insert" \/ k > 1
          PROVE  detail[batch'[q][k]][q] <= disturbed[q]
      <4>1. CASE q = p
        <5>1. s[k] \in Selected
          BY <1>0, <3>1, <3>5, <4>1, ResultFacts
        <5>2. s[k] \in Stored /\ law[s[k]].state = "N"
          BY <5>1 DEF Selected, Open
        <5>3. ~Settled(s[k], p)
          BY <2>0, <5>2 DEF Settled
        <5> QED
          BY <1>0, <3>1, <4>1, <5>2, <5>3 DEF CopiesAccounted
      <4>2. CASE q # p
        <5>1. batch'[q] = batch[q] /\ pc'[q] = pc[q]
          BY <3>1, <4>2
        <5> QED
          BY <1>0, <3>5, <5>1 DEF CopiesAccounted
      <4> QED
        BY <4>1, <4>2
    <3>6. CopiesAccounted'
      BY <1>0, <2>0, <3>4, <3>5 DEF CopiesAccounted
    <3> QED
      BY <3>2, <3>3, <3>6 DEF CopyInv
  <2>2. CASE ~conn[p]
    <3>1. Exit(p)
      BY <1>3, <2>2 DEF Poll
    <3> QED
      BY <1>0, <2>0, <3>1, CopyExit
  <2> QED
    BY <2>1, <2>2
<1>4. ASSUME NEW p \in Parsers, DieOfRow(p) PROVE CopyInv'
  <2>1. pc[p] = "insert" /\ Exit(p) /\ UNCHANGED <<law, detail, disturbed>>
    BY <1>4 DEF DieOfRow
  <2> QED
    BY <1>0, <2>1, CopyExit
<1>5. ASSUME NEW p \in Parsers, InsertDetail(p) PROVE CopyInv'
  <2> DEFINE c == Current(p)
  <2>1. /\ UNCHANGED <<law, batch, conn, disturbed>> /\ Stored' = Stored
        /\ pc[p] = "insert" /\ pc'[p] = "mark" /\ conn[p]
        /\ \A q \in Parsers : q # p => pc'[q] = pc[q]
    BY <1>0, <1>5 DEF InsertDetail, Goto, TypeOK, Stored, Accepted
  <2>2. \A i \in Rows, q \in Parsers :
          detail'[i][q] = IF i = c /\ q = p THEN detail[i][q] + 1 ELSE detail[i][q]
    BY <1>5, AddDetailFacts DEF InsertDetail
  <2>3. /\ c = batch[p][1] /\ c \in Stored /\ c \in Rows
        /\ Len(batch[p]) \in Nat \ {0} /\ WellFormed(batch[p])
    BY <1>0, <2>1, CurrentFacts DEF BatchShape
  <2>4. CopiesOfStored'
    <3>1. ASSUME NEW q \in Parsers, pc'[q] = "mark" PROVE detail'[Head(batch[q])][q] > 0
      <4>1. CASE q = p
        BY <1>0, <2>2, <2>3, <4>1 DEF Current
      <4>2. CASE q # p
        <5>1. pc[q] = "mark" /\ Current(q) \in Rows /\ detail[Current(q)][q] > 0
          BY <1>0, <2>1, <3>1, <4>2, CurrentFacts DEF CopiesOfStored
        <5> QED
          BY <2>2, <4>2, <5>1 DEF Current
      <4> QED
        BY <4>1, <4>2
    <3> QED
      BY <1>0, <2>1, <2>2, <2>3, <3>1 DEF CopiesOfStored, Current
  <2>5. ClosedHasDetail'
    <3> SUFFICES ASSUME NEW i \in Stored, law[i].state = "C"
                 PROVE  \E q \in Parsers : detail'[i][q] > 0
      BY <2>1 DEF ClosedHasDetail
    <3>1. PICK q \in Parsers : detail[i][q] > 0
      BY <1>0 DEF ClosedHasDetail
    <3> QED
      BY <1>0, <2>2, <3>1
  <2>6. ASSUME NEW i \in Stored, NEW q \in Parsers
        PROVE  detail'[i][q] <= disturbed[q] + (IF Settled(i, q)' THEN 1 ELSE 0)
    <3>1. CASE i = c /\ q = p
      <4>1. Settled(i, q)'
        BY <2>1, <3>1 DEF Settled, Current
      <4>2. detail[i][q] <= disturbed[q]
        BY <1>0, <2>1, <2>3, <3>1 DEF CopiesAccounted
      <4> QED
        BY <1>0, <2>2, <2>3, <3>1, <4>1, <4>2
    <3>2. CASE ~(i = c /\ q = p)
      <4>1. Settled(i, q) => Settled(i, q)'
        BY <2>1 DEF Settled, Current
      <4>2. detail'[i][q] = detail[i][q]
        BY <1>0, <2>2, <3>2
      <4> QED
        BY <1>0, <4>1, <4>2 DEF CopiesAccounted
    <3> QED
      BY <3>1, <3>2
  <2>7. ASSUME NEW q \in Parsers, NEW k \in 1..Len(batch[q]), pc'[q] = "insert" \/ k > 1
        PROVE  detail'[batch[q][k]][q] <= disturbed[q]
    <3>1. pc[q] = "insert" \/ k > 1
      BY <2>1, <2>7
    <3>2. batch[q][k] \in Stored
      BY <1>0 DEF BatchShape, WellFormed
    <3>3. ~(batch[q][k] = c /\ q = p)
      BY <2>1, <2>3, <2>7 DEF WellFormed
    <3> QED
      BY <1>0, <2>2, <3>1, <3>2, <3>3 DEF CopiesAccounted
  <2>8. CopiesAccounted'
    BY <2>1, <2>6, <2>7 DEF CopiesAccounted
  <2> QED
    BY <2>4, <2>5, <2>8 DEF CopyInv
<1>6. ASSUME NEW p \in Parsers, pc[p] \in {"insert", "mark"}, NextRow(p),
             UNCHANGED <<law, detail>>,
             \A q \in Parsers : disturbed[q] <= disturbed'[q] /\ (q = p \/ conn'[q] = conn[q]),
             detail[Current(p)][p] <= disturbed'[p]
      PROVE  CopyInv'
  <2>1. Stored' = Stored
    BY <1>6 DEF Stored
  <2> QED
    BY <1>0, <1>6, <2>1, CurrentFacts, CopyNextRow
<1>7. ASSUME NEW p \in Parsers, pc[p] = "insert" PROVE detail[Current(p)][p] <= disturbed[p]
  BY <1>0, <1>7, CurrentFacts DEF CopiesAccounted
<1>8. ASSUME NEW p \in Parsers, pc[p] = "mark"
      PROVE  /\ detail[Current(p)][p] <= disturbed[p] + 1
             /\ law[Current(p)].state # "C" /\ ~conn[p] => detail[Current(p)][p] <= disturbed[p]
             /\ detail[Current(p)][p] > 0
  <2>1. Current(p) \in Stored
    BY <1>8, CurrentFacts
  <2>2. detail[Current(p)][p] <= disturbed[p] + (IF Settled(Current(p), p) THEN 1 ELSE 0)
    BY <1>0, <2>1 DEF CopiesAccounted
  <2> QED
    BY <1>0, <1>8, <2>1, <2>2 DEF Settled, CopiesOfStored
<1>9. ASSUME NEW p \in Parsers, InsertRefused(p) PROVE CopyInv'
  <2>1. pc[p] = "insert" /\ NextRow(p) /\ UNCHANGED <<law, detail, conn, disturbed>>
    BY <1>9 DEF InsertRefused, GiveUpRow
  <2>2. detail[Current(p)][p] <= disturbed'[p]
    BY <1>7, <2>1
  <2>3. \A q \in Parsers : disturbed[q] <= disturbed'[q] /\ (q = p \/ conn'[q] = conn[q])
    BY <1>0, <2>1
  <2> QED
    BY <1>6, <2>1, <2>2, <2>3
<1>10. ASSUME NEW p \in Parsers, MarkRow(p) PROVE CopyInv'
  <2>1. /\ pc[p] = "mark" /\ NextRow(p) /\ UNCHANGED <<detail, conn, disturbed>>
        /\ Current(p) \in Stored
    BY <1>10, CurrentFacts DEF MarkRow
  <2>2. /\ Stored' = Stored
        /\ \A i \in Stored :
             law'[i].state = IF i = Current(p) THEN "C" ELSE law[i].state
    BY <1>10, MarkFacts
  <2>3. detail[Current(p)][p] <= disturbed[p] + 1 /\ detail[Current(p)][p] > 0
    BY <1>8, <2>1
  <2>4. \A i \in Stored : \/ law'[i].state = law[i].state
                          \/ /\ i = Current(p) /\ law'[i].state = "C"
                             /\ detail[i][p] > 0
    BY <2>2, <2>3
  <2>5. law'[Current(p)].state = "C" /\ detail'[Current(p)][p] <= disturbed'[p] + 1
    BY <2>1, <2>2, <2>3
  <2>6. \A i \in Rows, q \in Parsers :
          /\ detail'[i][q] \in Nat /\ detail[i][q] <= detail'[i][q]
          /\ (i = Current(p) /\ q = p) \/ detail'[i][q] = detail[i][q]
    BY <1>0, <2>1
  <2>7. \A q \in Parsers : /\ disturbed'[q] \in Nat /\ disturbed[q] <= disturbed'[q]
                           /\ q = p \/ conn'[q] = conn[q]
    BY <2>1 DEF Types, TypeOK
  <2> QED
    BY <2>1, <2>2, <2>4, <2>5, <2>6, <2>7, CopyNextRow
<1>11. ASSUME NEW p \in Parsers, MarkRefused(p) PROVE CopyInv'
  <2>1. /\ pc[p] = "mark" /\ ~conn[p] /\ NextRow(p)
        /\ UNCHANGED <<law, detail, conn, disturbed>>
        /\ Current(p) \in Stored /\ Stored' = Stored
    BY <1>11, CurrentFacts DEF MarkRefused, GiveUpRow, Stored
  <2>2. \/ detail'[Current(p)][p] <= disturbed'[p]
        \/ law'[Current(p)].state = "C" /\ detail'[Current(p)][p] <= disturbed'[p] + 1
    BY <1>8, <2>1
  <2>3. \A q \in Parsers : /\ disturbed'[q] \in Nat /\ disturbed[q] <= disturbed'[q]
                           /\ q = p \/ conn'[q] = conn[q]
    BY <2>1 DEF Types, TypeOK
  <2> QED
    BY <1>0, <2>1, <2>2, <2>3, CopyNextRow
<1>12. ASSUME NEW p \in Parsers, Disturb(p)
       PROVE  \A q \in Parsers :
                /\ disturbed'[q] = IF q = p THEN disturbed[q] + 1 ELSE disturbed[q]
                /\ disturbed'[q] \in Nat /\ disturbed[q] <= disturbed'[q]
  BY <1>12, DisturbFacts DEF Types, TypeOK
<1>13. ASSUME NEW p \in Parsers, Kill(p) PROVE CopyInv'
  BY <1>0, <1>12, <1>13, CopyExit DEF Kill
<1>14. ASSUME NEW p \in Parsers, ConnLost(p) PROVE CopyInv'
  <2>1. /\ UNCHANGED <<law, detail, pc, batch>> /\ Stored' = Stored
        /\ \A q \in Parsers : q # p => conn'[q] = conn[q]
        /\ \A q \in Parsers :
             /\ disturbed'[q] = IF q = p THEN disturbed[q] + 1 ELSE disturbed[q]
             /\ disturbed'[q] \in Nat /\ disturbed[q] <= disturbed'[q]
    BY <1>0, <1>12, <1>14 DEF ConnLost, TypeOK, Stored
  <2>2. CopiesOfStored'
    BY <1>0, <2>1 DEF CopiesOfStored, Current
  <2>3. ClosedHasDetail'
    BY <1>0, <2>1 DEF ClosedHasDetail
  <2>4. ASSUME NEW i \in Stored, NEW q \in Parsers
        PROVE  detail[i][q] <= disturbed'[q] + (IF Settled(i, q)' THEN 1 ELSE 0)
    <3>1. detail[i][q] <= disturbed[q] + (IF Settled(i, q) THEN 1 ELSE 0)
      BY <1>0 DEF CopiesAccounted
    <3>2. q # p => (Settled(i, q) => Settled(i, q)')
      BY <2>1 DEF Settled, Current
    <3> QED
      BY <1>0, <2>1, <3>1, <3>2
  <2>5. ASSUME NEW q \in Parsers, NEW k \in 1..Len(batch[q]), pc[q] = "insert" \/ k > 1
        PROVE  detail[batch[q][k]][q] <= disturbed'[q]
    <3>1. batch[q][k] \in Rows
      BY <1>0 DEF BatchShape, WellFormed
    <3>2. detail[batch[q][k]][q] <= disturbed[q]
      BY <1>0, <2>5 DEF CopiesAccounted
    <3> QED
      BY <1>0, <2>1, <3>1, <3>2
  <2>6. CopiesAccounted'
    BY <2>1, <2>4, <2>5 DEF CopiesAccounted
  <2> QED
    BY <2>2, <2>3, <2>6 DEF CopyInv
<1>15. ASSUME NEW p \in Parsers, InsertAnswerLost(p) PROVE CopyInv'
  <2>1. /\ pc[p] = "insert" /\ NextRow(p) /\ law' = law /\ Stored' = Stored
        /\ Current(p) \in Rows
        /\ \A q \in Parsers : q = p \/ conn'[q] = conn[q]
    BY <1>0, <1>15, CurrentFacts DEF InsertAnswerLost, GiveUpRow, Stored, TypeOK
  <2>2. \A q \in Parsers :
          /\ disturbed'[q] = IF q = p THEN disturbed[q] + 1 ELSE disturbed[q]
          /\ disturbed'[q] \in Nat /\ disturbed[q] <= disturbed'[q]
    BY <1>12, <1>15 DEF InsertAnswerLost
  <2>3. \A i \in Rows, q \in Parsers :
          detail'[i][q] = IF i = Current(p) /\ q = p THEN detail[i][q] + 1 ELSE detail[i][q]
    BY <1>15, <2>1, AddDetailFacts DEF InsertAnswerLost
  <2>4. detail'[Current(p)][p] <= disturbed'[p]
    BY <1>0, <1>7, <2>1, <2>2, <2>3
  <2>5. \A i \in Rows, q \in Parsers :
          /\ detail'[i][q] \in Nat /\ detail[i][q] <= detail'[i][q]
          /\ (i = Current(p) /\ q = p) \/ detail'[i][q] = detail[i][q]
    BY <1>0, <2>3
  <2> QED
    BY <2>1, <2>2, <2>4, <2>5, CopyNextRow
<1>16. ASSUME NEW p \in Parsers, StatementFails(p) PROVE CopyInv'
  <2>1. /\ pc[p] \in {"insert", "mark"} /\ NextRow(p)
        /\ UNCHANGED <<law, detail, conn>> /\ Current(p) \in Rows
    BY <1>16, CurrentFacts DEF StatementFails, GiveUpRow
  <2>2. \A q \in Parsers :
          /\ disturbed'[q] = IF q = p THEN disturbed[q] + 1 ELSE disturbed[q]
          /\ disturbed'[q] \in Nat /\ disturbed[q] <= disturbed'[q]
    BY <1>12, <1>16 DEF StatementFails
  <2>3. detail[Current(p)][p] <= disturbed'[p]
    BY <1>0, <1>7, <1>8, <2>1, <2>2
  <2> QED
    BY <1>6, <2>1, <2>2, <2>3
<1>17. CASE UNCHANGED vars
  BY <1>0, <1>17 DEF vars, CopyInv, CopiesOfStored, ClosedHasDetail,
     CopiesAccounted, Settled, Current, Stored
<1> QED
  BY <1>1, <1>2, <1>3, <1>4, <1>5, <1>9, <1>10, <1>11, <1>13, <1>14, <1>15,
     <1>16, <1>17 DEF Next, ParserStep, Trouble

LEMMA CopyCorrect == Spec => [](Types /\ CopyInv)
<1>1. Init => Types /\ CopyInv
  BY TypesInit, CopyInit
<1>2. (Types /\ CopyInv) /\ [Next]_vars => (Types /\ CopyInv)'
  BY TypesNext, CopyNext
<1> QED
  BY <1>1, <1>2, PTL DEF Spec

(* No interleaving of any number of parsers, kills, drops and failed       *)
(* statements closes a raw row (line 174) before a detail row made from it *)
(* is in the database (line 167).                                          *)
THEOREM ClosedRowsHaveDetail == Spec => []ClosedHasDetail
<1>1. CopyInv => ClosedHasDetail
  BY DEF CopyInv
<1> QED
  BY <1>1, CopyCorrect, PTL

(* One parser copies one raw row at most once more than it was disturbed.  *)
THEOREM DuplicatesAreBounded == Spec => []DuplicatesBounded
<1>1. Types /\ CopyInv => DuplicatesBounded
  <2> SUFFICES ASSUME Types, CopyInv, NEW i \in Rows, NEW p \in Parsers
               PROVE  detail[i][p] <= disturbed[p] + 1
    BY DEF DuplicatesBounded
  <2>1. detail[i][p] \in Nat /\ disturbed[p] \in Nat
    BY DEF Types, TypeOK
  <2>2. CASE i \in Stored
    BY <2>1, <2>2 DEF CopyInv, CopiesAccounted
  <2>3. CASE i \notin Stored
    BY <2>1, <2>3 DEF CopyInv, CopiesOfStored
  <2> QED
    BY <2>2, <2>3
<1> QED
  BY <1>1, CopyCorrect, PTL

-----------------------------------------------------------------------------
(* The surplus copies of one parser, over the whole table, and the         *)
(* disturbances that paid for them.                                        *)

LEMMA SurplusFinite ==
  ASSUME Types, CopyInv, NEW p \in Parsers
  PROVE  /\ IsFiniteSet(SurplusCopies(p)) /\ Cardinality(SurplusCopies(p)) \in Nat
         /\ IsFiniteSet(Recopyable(p)) /\ Cardinality(Recopyable(p)) \in Nat
         /\ disturbed[p] \in Nat
<1>1. disturbed[p] \in Nat /\ \A i \in Rows : detail[i][p] \in Nat
  BY DEF Types, TypeOK
<1>2. \A i \in Rows : detail[i][p] <= disturbed[p] + 1
  <2> SUFFICES ASSUME NEW i \in Rows PROVE detail[i][p] <= disturbed[p] + 1
    OBVIOUS
  <2>1. CASE i \in Stored
    BY <1>1, <2>1 DEF CopyInv, CopiesAccounted
  <2>2. CASE i \notin Stored
    BY <1>1, <2>2 DEF CopyInv, CopiesOfStored
  <2> QED
    BY <2>1, <2>2
<1> DEFINE all == Rows \X (2..(disturbed[p] + 1))
<1>3. IsFiniteSet(all)
  <2>1. IsFiniteSet(Rows) /\ IsFiniteSet(2..(disturbed[p] + 1))
    BY <1>1, ParserAssumption, FS_Interval DEF Rows
  <2> QED
    BY <2>1, FS_Product
<1>4. SurplusCopies(p) \subseteq all
  BY <1>1, <1>2 DEF SurplusCopies
<1>5. IsFiniteSet(Stored) /\ Recopyable(p) \subseteq Stored
  <2>1. Len(law) \in Nat
    BY LenProperties DEF Types, TypeOK
  <2> QED
    BY <2>1, FS_Interval DEF Stored, Recopyable
<1> QED
  BY <1>1, <1>3, <1>4, <1>5, FS_Subset, FS_CardinalityType

LEMMA SurplusKept ==
  ASSUME NEW p \in Parsers, \A i \in Rows : detail'[i][p] = detail[i][p]
  PROVE  SurplusCopies(p)' = SurplusCopies(p)
BY DEF SurplusCopies, Rows

(* One more copy of a row is a surplus copy unless it is the first.        *)
LEMMA SurplusGrows ==
  ASSUME Types, CopyInv, NEW p \in Parsers, NEW c \in Rows,
         \A i \in Rows :
           detail'[i][p] = IF i = c THEN detail[i][p] + 1 ELSE detail[i][p]
  PROVE  Cardinality(SurplusCopies(p)') =
           Cardinality(SurplusCopies(p)) + (IF detail[c][p] = 0 THEN 0 ELSE 1)
<1> DEFINE k == detail[c][p] + 1
<1>1. \A i \in Rows : detail[i][p] \in Nat
  BY DEF Types, TypeOK
<1>2. CASE detail[c][p] = 0
  <2>1. \A i \in Rows : 2..detail'[i][p] = 2..detail[i][p]
    BY <1>1, <1>2
  <2>2. SurplusCopies(p)' = SurplusCopies(p)
    BY <2>1 DEF SurplusCopies, Rows
  <2> QED
    BY <1>2, <2>2, SurplusFinite
<1>3. CASE detail[c][p] # 0
  <2>1. 2..detail'[c][p] = (2..detail[c][p]) \cup {k}
    BY <1>1, <1>3
  <2>2. \A i \in Rows \ {c} : 2..detail'[i][p] = 2..detail[i][p]
    BY <1>1
  <2>3. SurplusCopies(p)' = UNION {{i} \X (2..detail'[i][p]) : i \in Rows}
    BY DEF SurplusCopies, Rows
  <2>4. SurplusCopies(p)' = SurplusCopies(p) \cup {<<c, k>>}
    <3>1. ASSUME NEW x \in SurplusCopies(p)' PROVE x \in SurplusCopies(p) \cup {<<c, k>>}
      <4>1. PICK i \in Rows : x \in {i} \X (2..detail'[i][p])
        BY <2>3
      <4>2. CASE i = c
        BY <2>1, <4>1, <4>2 DEF SurplusCopies
      <4>3. CASE i # c
        BY <2>2, <4>1, <4>3 DEF SurplusCopies
      <4> QED
        BY <4>2, <4>3
    <3>2. ASSUME NEW x \in SurplusCopies(p) PROVE x \in SurplusCopies(p)'
      <4>1. PICK i \in Rows : x \in {i} \X (2..detail[i][p])
        BY DEF SurplusCopies
      <4>2. x \in {i} \X (2..detail'[i][p])
        BY <2>1, <2>2, <4>1
      <4> QED
        BY <2>3, <4>2
    <3>3. <<c, k>> \in SurplusCopies(p)'
      BY <2>1, <2>3
    <3> QED
      BY <3>1, <3>2, <3>3
  <2>5. <<c, k>> \notin SurplusCopies(p)
    BY <1>1 DEF SurplusCopies
  <2> QED
    BY <1>3, <2>4, <2>5, SurplusFinite, FS_AddElement
<1> QED
  BY <1>2, <1>3

(* What a step has to show of one parser.                                  *)
Paid(p) == Cardinality(SurplusCopies(p)) + Cardinality(Recopyable(p)) <= disturbed[p]

LEMMA PaidKept ==
  ASSUME Types, CopyInv, Types', NEW p \in Parsers, Paid(p),
         \A i \in Rows : detail'[i][p] = detail[i][p],
         Recopyable(p)' \subseteq Recopyable(p), disturbed[p] <= disturbed'[p]
  PROVE  Paid(p)'
<1>1. SurplusCopies(p)' = SurplusCopies(p)
  BY SurplusKept
<1>2. /\ Cardinality(Recopyable(p)') \in Nat
      /\ Cardinality(Recopyable(p)') <= Cardinality(Recopyable(p))
  BY SurplusFinite, FS_Subset, FS_CardinalityType
<1>3. /\ Cardinality(SurplusCopies(p)) \in Nat /\ Cardinality(Recopyable(p)) \in Nat
      /\ disturbed[p] \in Nat /\ disturbed'[p] \in Nat
  BY SurplusFinite DEF Types, TypeOK
<1> QED
  BY <1>1, <1>2, <1>3 DEF Paid

(* A disturbance pays for one more row.                                    *)
LEMMA PaidByDisturbance ==
  ASSUME Types, CopyInv, NEW p \in Parsers, NEW c, Paid(p),
         \A i \in Rows : detail'[i][p] = detail[i][p],
         Recopyable(p)' \subseteq Recopyable(p) \cup {c},
         disturbed'[p] = disturbed[p] + 1
  PROVE  Paid(p)'
<1>1. SurplusCopies(p)' = SurplusCopies(p)
  BY SurplusKept
<1>0. IsFiniteSet(Recopyable(p)) /\ Cardinality(Recopyable(p)) \in Nat
  BY SurplusFinite
<1> DEFINE r == Recopyable(p)
<1>2. /\ IsFiniteSet(r \cup {c})
      /\ Cardinality(r \cup {c}) \in Nat
      /\ Cardinality(r \cup {c}) <= Cardinality(r) + 1
  <2> HIDE DEF r
  <2>1. IsFiniteSet(r) /\ Cardinality(r) \in Nat
    BY <1>0 DEF r
  <2>2. /\ IsFiniteSet(r \cup {c})
        /\ Cardinality(r \cup {c}) = IF c \in r THEN Cardinality(r) ELSE Cardinality(r) + 1
    BY <2>1, FS_AddElement
  <2> QED
    BY <2>1, <2>2
<1>3. /\ Cardinality(Recopyable(p)') \in Nat
      /\ Cardinality(Recopyable(p)') <= Cardinality(r \cup {c})
  BY <1>2, FS_Subset, FS_CardinalityType
<1>4. /\ Cardinality(SurplusCopies(p)) \in Nat /\ Cardinality(Recopyable(p)) \in Nat
      /\ disturbed[p] \in Nat
  BY SurplusFinite
<1> QED
  BY <1>1, <1>2, <1>3, <1>4 DEF Paid

(* The copy of a row that had been copied before was paid for then.        *)
LEMMA PaidBefore ==
  ASSUME Types, CopyInv, NEW p \in Parsers, NEW c \in Rows, Paid(p),
         \A i \in Rows :
           detail'[i][p] = IF i = c THEN detail[i][p] + 1 ELSE detail[i][p],
         detail[c][p] > 0 => c \in Recopyable(p),
         \/ /\ Recopyable(p)' \subseteq Recopyable(p) \ {c}
            /\ disturbed'[p] = disturbed[p]
         \/ /\ Recopyable(p)' \subseteq Recopyable(p) \cup {c}
            /\ disturbed'[p] = disturbed[p] + 1
  PROVE  Paid(p)'
<1> DEFINE r == Recopyable(p)
<1>1. Cardinality(SurplusCopies(p)') =
        Cardinality(SurplusCopies(p)) + (IF detail[c][p] = 0 THEN 0 ELSE 1)
  BY SurplusGrows
<1>2. /\ Cardinality(SurplusCopies(p)) \in Nat /\ IsFiniteSet(r) /\ Cardinality(r) \in Nat
      /\ disturbed[p] \in Nat /\ detail[c][p] \in Nat
  BY SurplusFinite DEF Types, TypeOK
<1>3. /\ IsFiniteSet(r \ {c}) /\ Cardinality(r \ {c}) \in Nat
      /\ IsFiniteSet(r \cup {c}) /\ Cardinality(r \cup {c}) \in Nat
      /\ Cardinality(r \ {c}) = IF c \in r THEN Cardinality(r) - 1 ELSE Cardinality(r)
      /\ Cardinality(r \cup {c}) = IF c \in r THEN Cardinality(r) ELSE Cardinality(r) + 1
  BY <1>2, FS_AddElement, FS_RemoveElement, FS_CardinalityType
<1>4. CASE r' \subseteq r \ {c} /\ disturbed'[p] = disturbed[p]
  <2>1. Cardinality(r') \in Nat /\ Cardinality(r') <= Cardinality(r \ {c})
    BY <1>3, <1>4, FS_Subset, FS_CardinalityType
  <2> QED
    BY <1>1, <1>2, <1>3, <1>4, <2>1 DEF Paid
<1>5. CASE r' \subseteq r \cup {c} /\ disturbed'[p] = disturbed[p] + 1
  <2>1. Cardinality(r') \in Nat /\ Cardinality(r') <= Cardinality(r \cup {c})
    BY <1>3, <1>5, FS_Subset, FS_CardinalityType
  <2> QED
    BY <1>1, <1>2, <1>3, <1>5, <2>1 DEF Paid
<1> QED
  BY <1>4, <1>5

(* Going on to the next row, and a step of another parser.                 *)
LEMMA RemainingNextRow ==
  ASSUME Types, NEW p \in Parsers, pc[p] \in {"insert", "mark"}, NextRow(p)
  PROVE  /\ Remaining(p)' \subseteq Remaining(p) /\ pc'[p] # "mark"
         /\ Current(p) \notin Remaining(p)'
         /\ pc[p] = "insert" => Current(p) \in Remaining(p)
<1>1. /\ Len(batch[p]) \in Nat \ {0} /\ Current(p) = batch[p][1]
      /\ Len(batch'[p]) = Len(batch[p]) - 1
      /\ \A k \in 1..Len(batch'[p]) : batch'[p][k] = batch[p][k + 1]
      /\ pc'[p] \in {"poll", "insert"}
  BY NextRowFacts
<1>2. WellFormed(batch[p])
  BY DEF Types, BatchShape
<1>3. ASSUME NEW i \in Remaining(p)'
      PROVE  \E k \in 2..Len(batch[p]) : i = batch[p][k]
  <2>1. PICK k \in 1..Len(batch'[p]) : i = batch'[p][k]
    BY <1>3 DEF Remaining
  <2>2. k + 1 \in 2..Len(batch[p]) /\ i = batch[p][k + 1]
    BY <1>1, <2>1
  <2> QED
    BY <2>2
<1>4. Remaining(p)' \subseteq Remaining(p)
  BY <1>1, <1>3 DEF Remaining
<1>5. ASSUME NEW k \in 2..Len(batch[p]) PROVE batch[p][k] # batch[p][1]
  <2>1. 1 \in 1..Len(batch[p]) /\ k \in 1..Len(batch[p]) /\ 1 < k
    BY <1>1
  <2> QED
    BY <1>2, <2>1 DEF WellFormed
<1>6. Current(p) \notin Remaining(p)'
  BY <1>1, <1>3, <1>5
<1>7. pc[p] = "insert" => Current(p) \in Remaining(p)
  BY <1>1 DEF Remaining
<1> QED
  BY <1>1, <1>4, <1>6, <1>7

(* A parser that does not move: its rows stay as they are, and no closed   *)
(* row is opened again.                                                    *)
LEMMA PaidByOthers ==
  ASSUME Types, CopyInv, Types', NEW q \in Parsers, Paid(q),
         \A i \in Rows : detail'[i][q] = detail[i][q],
         Stored \subseteq Stored', disturbed'[q] = disturbed[q],
         \A i \in Stored : law'[i].state = "N" => law[i].state = "N",
         pc'[q] = pc[q], batch'[q] = batch[q], conn'[q] = conn[q]
  PROVE  Paid(q)'
<1>1. Stored' \subseteq Rows
  BY ParserAssumption, LenProperties DEF Types, TypeOK, Stored, Rows
<1>2. Recopyable(q)' \subseteq Recopyable(q)
  <2> SUFFICES ASSUME NEW i \in Recopyable(q)' PROVE i \in Recopyable(q)
    OBVIOUS
  <2>1. i \in Rows /\ detail[i][q] > 0
    BY <1>1 DEF Recopyable
  <2>2. i \in Stored
    BY <2>1 DEF CopyInv, CopiesOfStored
  <2>3. law[i].state = "N" \/ i \in Remaining(q)
    BY <2>2 DEF Recopyable, Remaining
  <2>4. ~(pc[q] = "mark" /\ conn[q] /\ Current(q) = i)
    BY DEF Recopyable, Current
  <2> QED
    BY <2>1, <2>2, <2>3, <2>4 DEF Recopyable
<1>3. disturbed[q] \in Nat
  BY SurplusFinite
<1> QED
  BY <1>2, <1>3, PaidKept

(* A parser that leaves its row behind may have that one to copy again.    *)
LEMMA RecopyableNextRow ==
  ASSUME Types, NEW p \in Parsers, pc[p] \in {"insert", "mark"}, NextRow(p),
         Stored' = Stored,
         \A i \in Rows \ {Current(p)} : detail'[i][p] = detail[i][p],
         \A i \in Stored \ {Current(p)} : law'[i].state = law[i].state
  PROVE  /\ Recopyable(p)' \subseteq Recopyable(p) \cup {Current(p)}
         /\ law'[Current(p)].state = "C" => Current(p) \notin Recopyable(p)'
<1>1. /\ Remaining(p)' \subseteq Remaining(p) /\ Current(p) \notin Remaining(p)'
  BY RemainingNextRow
<1>2. Stored \subseteq Rows
  BY SelectedFinite DEF Types
<1>3. ASSUME NEW i \in Recopyable(p)', i # Current(p) PROVE i \in Recopyable(p)
  <2>1. /\ i \in Stored /\ detail'[i][p] > 0
        /\ law'[i].state = "N" \/ i \in Remaining(p)'
    BY DEF Recopyable
  <2> QED
    BY <1>1, <1>2, <1>3, <2>1 DEF Recopyable
<1>4. law'[Current(p)].state = "C" => Current(p) \notin Recopyable(p)'
  BY <1>1 DEF Recopyable
<1> QED
  BY <1>3, <1>4

(* The end of a process leaves at most the row whose UPDATE was due.       *)
LEMMA RecopyableExit ==
  ASSUME Types, NEW p \in Parsers, Exit(p), UNCHANGED <<law, detail>>
  PROVE  /\ Recopyable(p)' \subseteq Recopyable(p) \cup {Current(p)}
         /\ pc[p] # "mark" => Recopyable(p)' \subseteq Recopyable(p)
<1>1. batch'[p] = <<>> /\ Len(batch'[p]) = 0
  BY ExitFacts, EmptySeq DEF Types
<1>2. Remaining(p)' = {}
  BY <1>1 DEF Remaining
<1>3. Stored' = Stored
  BY DEF Stored
<1>4. ASSUME NEW i \in Recopyable(p)', i # Current(p) \/ pc[p] # "mark"
      PROVE  i \in Recopyable(p)
  <2>1. i \in Stored /\ detail[i][p] > 0 /\ law[i].state = "N"
    BY <1>2, <1>3 DEF Recopyable
  <2> QED
    BY <1>4, <2>1 DEF Recopyable
<1> QED
  BY <1>4

LEMMA SurplusInit == Init => SurplusPaidFor
<1> SUFFICES ASSUME Init, NEW p \in Parsers
             PROVE  Cardinality(SurplusCopies(p)) + Cardinality(Recopyable(p)) <= disturbed[p]
  BY DEF SurplusPaidFor
<1>1. Stored = {} /\ \A i \in Rows : detail[i][p] = 0
  BY EmptySeq DEF Init, NoRows, Stored
<1>2. \A i \in Rows : 2..detail[i][p] = {}
  BY <1>1
<1>3. SurplusCopies(p) = {} /\ Recopyable(p) = {}
  BY <1>1, <1>2 DEF SurplusCopies, Recopyable
<1>4. disturbed[p] = 0
  BY DEF Init
<1>5. Cardinality(SurplusCopies(p)) = 0 /\ Cardinality(Recopyable(p)) = 0
  BY <1>3, FS_EmptySet, Zenon
<1> QED
  BY <1>4, <1>5

(* Every step keeps the account.                                           *)
LEMMA SurplusNext ==
  Types /\ Types' /\ CopyInv /\ SurplusPaidFor /\ [Next]_vars => SurplusPaidFor'
<1> SUFFICES ASSUME Types, Types', CopyInv, SurplusPaidFor, [Next]_vars,
                    NEW q \in Parsers
             PROVE  Paid(q)'
  BY DEF SurplusPaidFor, Paid
<1>0. /\ TypeOK /\ BatchShape /\ Stored \subseteq Rows /\ Paid(q)
      /\ \A i \in Rows, p \in Parsers : detail[i][p] \in Nat
      /\ \A p \in Parsers : disturbed[p] \in Nat
  BY SelectedFinite DEF Types, TypeOK, SurplusPaidFor, Paid
<1>1. ASSUME ServerInsert PROVE Paid(q)'
  <2>1. PICK k \in Kinds : Accept(k)
    BY <1>1 DEF ServerInsert
  <2>2. /\ Len(law) \in Nat /\ Len(law') = Len(law) + 1
        /\ \A i \in Stored : law'[i] = law[i]
    BY <1>0, <2>1, AcceptFacts DEF Stored
  <2>3. UNCHANGED <<detail, pc, batch, conn, attempts, disturbed>>
    BY <1>1 DEF ServerInsert
  <2>4. Stored \subseteq Stored'
    BY <2>2 DEF Stored
  <2> QED
    BY <1>0, <2>2, <2>3, <2>4, PaidByOthers
<1>2. ASSUME NEW p \in Parsers, Start(p) PROVE Paid(q)'
  <2>1. /\ UNCHANGED <<law, detail, batch, disturbed>> /\ Stored' = Stored
        /\ pc[p] = "down" /\ pc'[p] = "poll"
        /\ p # q => pc'[q] = pc[q] /\ conn'[q] = conn[q]
    BY <1>0, <1>2 DEF Start, Goto, TypeOK, Stored
  <2>2. CASE p # q
    BY <1>0, <2>1, <2>2, PaidByOthers
  <2>3. CASE p = q
    <3>1. Len(batch[q]) = 0
      BY <1>0, <2>1, <2>3, EmptySeq DEF BatchShape
    <3>2. Recopyable(q)' \subseteq Recopyable(q)
      BY <2>1, <2>3, <3>1 DEF Recopyable, Remaining
    <3> QED
      BY <1>0, <2>1, <3>2, PaidKept
  <2> QED
    BY <2>2, <2>3
<1>3. ASSUME NEW p \in Parsers, p # q, UNCHANGED <<law, detail>>,
             pc'[q] = pc[q], batch'[q] = batch[q], conn'[q] = conn[q],
             disturbed'[q] = disturbed[q]
      PROVE  Paid(q)'
  BY <1>0, <1>3, PaidByOthers DEF Stored
<1>4. ASSUME NEW p \in Parsers, Poll(p) PROVE Paid(q)'
  <2>0. pc[p] = "poll" /\ UNCHANGED <<law, detail, disturbed>> /\ Stored' = Stored
    BY <1>4 DEF Poll, Stored
  <2>1. CASE conn[p]
    <3>1. PICK s \in Results :
            /\ \A o \in Parsers : o # p => pc'[o] = pc[o] /\ batch'[o] = batch[o]
            /\ batch'[p] = s
            /\ pc'[p] = IF Len(s) = 0 THEN "poll" ELSE "insert"
            /\ conn' = conn
      BY <1>0, <1>4, <2>1, PollFacts
    <3>2. CASE p = q
      <4>1. ASSUME NEW i \in Remaining(q)' PROVE law[i].state = "N"
        <5>1. PICK k \in 1..Len(s) : i = s[k]
          BY <3>1, <3>2, <4>1 DEF Remaining
        <5> QED
          BY <1>0, <5>1, ResultFacts DEF Selected, Open
      <4>2. Recopyable(q)' \subseteq Recopyable(q)
        BY <2>0, <3>2, <4>1 DEF Recopyable
      <4> QED
        BY <1>0, <2>0, <4>2, PaidKept
    <3>3. CASE p # q
      BY <1>3, <2>0, <3>1, <3>3
    <3> QED
      BY <3>2, <3>3
  <2>2. CASE ~conn[p]
    <3>1. Exit(p)
      BY <1>4, <2>2 DEF Poll
    <3>2. CASE p = q
      BY <1>0, <2>0, <3>1, <3>2, RecopyableExit, PaidKept
    <3>3. CASE p # q
      BY <1>0, <1>3, <2>0, <3>1, <3>3, ExitFacts
    <3> QED
      BY <3>2, <3>3
  <2> QED
    BY <2>1, <2>2
<1>5. ASSUME NEW p \in Parsers, DieOfRow(p) PROVE Paid(q)'
  <2>1. pc[p] = "insert" /\ Exit(p) /\ UNCHANGED <<law, detail, disturbed>>
    BY <1>5 DEF DieOfRow
  <2>2. CASE p = q
    BY <1>0, <2>1, <2>2, RecopyableExit, PaidKept
  <2>3. CASE p # q
    BY <1>0, <1>3, <2>1, <2>3, ExitFacts
  <2> QED
    BY <2>2, <2>3
<1>6. ASSUME NEW p \in Parsers, Kill(p) PROVE Paid(q)'
  <2>1. Exit(p) /\ UNCHANGED <<law, detail>> /\ Disturb(p)
    BY <1>6 DEF Kill
  <2>2. CASE p = q
    BY <1>0, <2>1, <2>2, RecopyableExit, DisturbFacts, PaidByDisturbance
  <2>3. CASE p # q
    BY <1>0, <1>3, <2>1, <2>3, ExitFacts, DisturbFacts
  <2> QED
    BY <2>2, <2>3
<1>7. ASSUME NEW p \in Parsers, ConnLost(p) PROVE Paid(q)'
  <2>1. /\ UNCHANGED <<law, detail, pc, batch>> /\ Disturb(p) /\ Stored' = Stored
        /\ p # q => conn'[q] = conn[q]
    BY <1>0, <1>7 DEF ConnLost, Stored, TypeOK
  <2>2. CASE p = q
    <3>1. Recopyable(q)' \subseteq Recopyable(q) \cup {Current(q)}
      BY <2>1 DEF Recopyable, Remaining
    <3> QED
      BY <1>0, <2>1, <2>2, <3>1, DisturbFacts, PaidByDisturbance
  <2>3. CASE p # q
    BY <1>0, <1>3, <2>1, <2>3, DisturbFacts
  <2> QED
    BY <2>2, <2>3
<1>8. ASSUME NEW p \in Parsers, InsertDetail(p) PROVE Paid(q)'
  <2>1. /\ UNCHANGED <<law, batch, conn, disturbed>> /\ Stored' = Stored
        /\ pc[p] = "insert" /\ pc'[p] = "mark" /\ conn[p]
        /\ p # q => pc'[q] = pc[q]
    BY <1>0, <1>8 DEF InsertDetail, Goto, TypeOK, Stored, Accepted
  <2>2. \A i \in Rows : detail'[i][q] = IF i = Current(p) /\ p = q THEN detail[i][q] + 1
                                                               ELSE detail[i][q]
    BY <1>8, <2>1, AddDetailFacts DEF InsertDetail
  <2>3. CASE p # q
    BY <1>0, <2>1, <2>2, <2>3, PaidByOthers
  <2>4. CASE p = q
    <3>1. /\ Current(q) \in Stored /\ Current(q) \in Rows
          /\ Current(q) = batch[q][1] /\ Len(batch[q]) \in Nat \ {0}
      BY <2>1, <2>4, CurrentFacts
    <3>2. Current(q) \in Remaining(q)
      BY <2>1, <2>4, <3>1 DEF Remaining
    <3>3. detail[Current(q)][q] > 0 => Current(q) \in Recopyable(q)
      BY <2>1, <2>4, <3>1, <3>2 DEF Recopyable
    <3>4. Remaining(q)' \subseteq Remaining(q)
      BY <2>1, <2>4 DEF Remaining
    <3>5. ASSUME NEW i \in Recopyable(q)' PROVE i \in Recopyable(q) \ {Current(q)}
      <4>1. i # Current(q)
        BY <2>1, <2>4 DEF Recopyable, Current
      <4>2. i \in Stored /\ detail[i][q] > 0
        BY <1>0, <2>1, <2>2, <4>1 DEF Recopyable
      <4>3. law[i].state = "N" \/ i \in Remaining(q)
        BY <2>1, <3>4 DEF Recopyable
      <4> QED
        BY <4>1, <4>2, <4>3 DEF Recopyable
    <3> QED
      BY <1>0, <2>1, <2>2, <2>4, <3>1, <3>3, <3>5, PaidBefore
  <2> QED
    BY <2>3, <2>4
<1>9. ASSUME NEW p \in Parsers, InsertRefused(p) \/ MarkRefused(p) PROVE Paid(q)'
  <2>1. /\ UNCHANGED <<law, detail, conn, disturbed>> /\ Stored' = Stored
        /\ NextRow(p) /\ pc[p] \in {"insert", "mark"}
        /\ pc[p] = "mark" => ~conn[p]
    BY <1>9 DEF InsertRefused, MarkRefused, GiveUpRow, Stored
  <2>2. CASE p # q
    <3>1. pc'[q] = pc[q] /\ batch'[q] = batch[q]
      BY <2>1, <2>2, NextRowFacts
    <3> QED
      BY <1>3, <2>1, <2>2, <3>1
  <2>3. CASE p = q
    <3>1. Recopyable(q)' \subseteq Recopyable(q) \cup {Current(q)}
      BY <2>1, <2>3, RecopyableNextRow
    <3>2. Current(q) \notin Remaining(q)' /\ Current(q) \in Stored
      BY <2>1, <2>3, RemainingNextRow, CurrentFacts
    <3>3. pc[q] = "insert" => Current(q) \in Remaining(q)
      BY <2>1, <2>3, RemainingNextRow
    <3>4. Current(q) \in Recopyable(q)' => Current(q) \in Recopyable(q)
      BY <2>1, <2>3, <3>2 DEF Recopyable
    <3>5. Recopyable(q)' \subseteq Recopyable(q)
      BY <3>1, <3>4
    <3> QED
      BY <1>0, <2>1, <3>5, PaidKept
  <2> QED
    BY <2>2, <2>3
<1>10. ASSUME NEW p \in Parsers, MarkRow(p) PROVE Paid(q)'
  <2>1. UNCHANGED <<detail, conn, disturbed>> /\ NextRow(p) /\ pc[p] = "mark"
    BY <1>10 DEF MarkRow
  <2>2. /\ Stored' = Stored /\ Current(p) \in Stored
        /\ \A i \in Stored : law'[i].state = IF i = Current(p) THEN "C" ELSE law[i].state
    BY <1>10, <2>1, MarkFacts, CurrentFacts
  <2>3. CASE p # q
    <3>1. pc'[q] = pc[q] /\ batch'[q] = batch[q]
      BY <2>1, <2>3, NextRowFacts
    <3> QED
      BY <1>0, <2>1, <2>2, <3>1, PaidByOthers
  <2>4. CASE p = q
    <3>1. Recopyable(q)' \subseteq Recopyable(q)
      BY <2>1, <2>2, <2>4, RecopyableNextRow
    <3> QED
      BY <1>0, <2>1, <3>1, PaidKept
  <2> QED
    BY <2>3, <2>4
<1>11. ASSUME NEW p \in Parsers, StatementFails(p) PROVE Paid(q)'
  <2>1. /\ UNCHANGED <<law, detail, conn>> /\ Stored' = Stored /\ Disturb(p)
        /\ NextRow(p) /\ pc[p] \in {"insert", "mark"}
    BY <1>11 DEF StatementFails, GiveUpRow, Stored
  <2>2. CASE p # q
    <3>1. pc'[q] = pc[q] /\ batch'[q] = batch[q] /\ disturbed'[q] = disturbed[q]
      BY <2>1, <2>2, NextRowFacts, DisturbFacts
    <3> QED
      BY <1>3, <2>1, <2>2, <3>1
  <2>3. CASE p = q
    <3>1. Recopyable(q)' \subseteq Recopyable(q) \cup {Current(q)}
      BY <2>1, <2>3, RecopyableNextRow
    <3>2. disturbed'[q] = disturbed[q] + 1
      BY <2>1, <2>3, DisturbFacts
    <3> QED
      BY <1>0, <2>1, <3>1, <3>2, PaidByDisturbance
  <2> QED
    BY <2>2, <2>3
<1>12. ASSUME NEW p \in Parsers, InsertAnswerLost(p) PROVE Paid(q)'
  <2>1. /\ law' = law /\ Stored' = Stored /\ Disturb(p) /\ AddDetail(p)
        /\ NextRow(p) /\ pc[p] = "insert" /\ (p # q => conn'[q] = conn[q])
    BY <1>0, <1>12 DEF InsertAnswerLost, GiveUpRow, Stored, TypeOK
  <2>2. \A i \in Rows : detail'[i][q] = IF i = Current(p) /\ p = q THEN detail[i][q] + 1
                                                               ELSE detail[i][q]
    BY <2>1, AddDetailFacts
  <2>3. disturbed'[q] = IF p = q THEN disturbed[q] + 1 ELSE disturbed[q]
    BY <2>1, DisturbFacts
  <2>4. CASE p # q
    <3>1. pc'[q] = pc[q] /\ batch'[q] = batch[q]
      BY <2>1, <2>4, NextRowFacts
    <3> QED
      BY <1>0, <2>1, <2>2, <2>3, <2>4, <3>1, PaidByOthers
  <2>5. CASE p = q
    <3>1. /\ Current(q) \in Stored /\ Current(q) \in Rows
          /\ Current(q) \in Remaining(q)
      BY <2>1, <2>5, CurrentFacts, RemainingNextRow
    <3>2. detail[Current(q)][q] > 0 => Current(q) \in Recopyable(q)
      BY <2>1, <2>5, <3>1 DEF Recopyable
    <3>3. Recopyable(q)' \subseteq Recopyable(q) \cup {Current(q)}
      BY <2>1, <2>2, <2>5, RecopyableNextRow
    <3> QED
      BY <1>0, <2>2, <2>3, <2>5, <3>1, <3>2, <3>3, PaidBefore
  <2> QED
    BY <2>4, <2>5
<1>13. CASE UNCHANGED vars
  <2>1. UNCHANGED <<law, detail, pc, batch, conn, disturbed>> /\ Stored' = Stored
    BY <1>13 DEF vars, Stored
  <2> QED
    BY <1>0, <2>1, PaidByOthers
<1> QED
  BY <1>1, <1>2, <1>4, <1>5, <1>6, <1>7, <1>8, <1>9, <1>10, <1>11, <1>12, <1>13
     DEF Next, ParserStep, Trouble

(* Over the whole detail table one parser leaves at most one surplus row   *)
(* for every time it was killed, cut off or refused, however many rows     *)
(* were in the batch it was working on.                                    *)
THEOREM SurplusBounded == Spec => []OneSurplusPerDisturbance
<1>1. Init => Types /\ CopyInv /\ SurplusPaidFor
  BY TypesInit, CopyInit, SurplusInit
<1>2. Types /\ CopyInv /\ SurplusPaidFor /\ [Next]_vars
        => Types' /\ CopyInv' /\ SurplusPaidFor'
  BY TypesNext, CopyNext, SurplusNext
<1>3. Types /\ CopyInv /\ SurplusPaidFor => OneSurplusPerDisturbance
  <2> SUFFICES ASSUME Types, CopyInv, SurplusPaidFor, NEW p \in Parsers
               PROVE  Cardinality(SurplusCopies(p)) <= disturbed[p]
    BY DEF OneSurplusPerDisturbance
  <2> QED
    BY SurplusFinite DEF SurplusPaidFor
<1> QED
  BY <1>1, <1>2, <1>3, PTL DEF Spec

-----------------------------------------------------------------------------
(* A row that ends the parser holds back every younger row: dates, the     *)
(* order of batches, NothingPassesPoison.                                  *)

PoisonInv == DatesAscend /\ PoisonFirst /\ NothingPassesPoison

(* Nothing stands before row i that a parser cannot get past.              *)
Free(i) ==
  /\ law[i].kind # "poison"
  /\ \A j \in Stored : law[j].kind = "poison" => ~(law[j].cDate < law[i].cDate)

(* A step that only changes the state of rows.                             *)
SameEvents ==
  /\ Stored' = Stored
  /\ \A i \in Stored : law'[i].kind = law[i].kind /\ law'[i].cDate = law[i].cDate

(* The row a parser works on is a stored row.                              *)
LEMMA RowFacts ==
  ASSUME Types
  PROVE  /\ \A i \in Stored : law[i] \in Row /\ law[i].cDate \in Nat /\ i \in Rows
         /\ \A p \in Parsers : \A k \in 1..Len(batch[p]) : batch[p][k] \in Stored
<1>1. law \in Seq(Row) /\ Stored \subseteq Rows
  BY SelectedFinite DEF Types, TypeOK
<1>2. \A i \in Stored : law[i] \in Row
  BY <1>1, ElementOfSeq DEF Stored
<1>3. \A i \in Stored : law[i].cDate \in Nat
  BY <1>2 DEF Row
<1> QED
  BY <1>1, <1>2, <1>3 DEF Types, BatchShape, WellFormed

(* The SELECT returns every open row of an older date first, and a poison  *)
(* row is always open.                                                     *)
LEMMA ResultsPoisonFirst ==
  ASSUME Types, NothingPassesPoison, NEW s \in Results
  PROVE  OlderPoisonFirst(s)
<1> SUFFICES ASSUME NEW k \in 1..Len(s), NEW j \in Stored, law[j].kind = "poison",
                    law[j].cDate < law[s[k]].cDate
             PROVE  \E m \in 1..(k - 1) : s[m] = j
  BY DEF OlderPoisonFirst
<1>1. TypeOK /\ Len(s) \in Nat
  BY ResultFacts, LenProperties DEF Types
<1>2. law[j].state = "N" /\ law[j] \in Row
  BY RowFacts DEF NothingPassesPoison
<1>3. j \in Selected
  BY <1>2 DEF Selected, Open, Row, RetryLimit
<1>4. PICK m \in 1..Len(s) : s[m] = j
  BY <1>1, <1>3, ResultFacts
<1>5. s[k] \in Stored /\ law[s[k]].cDate \in Nat /\ law[j].cDate \in Nat
  BY <1>1, ResultFacts, SelectedFinite, RowFacts
<1>6. m < k
  <2>1. m # k
    BY <1>4, <1>5
  <2>2. ~(k < m)
    BY <1>1, <1>4, <1>5, ResultFacts
  <2> QED
    BY <1>1, <2>1, <2>2
<1> QED
  BY <1>1, <1>4, <1>6

(* The row a parser works on is free unless it is a poison row itself.     *)
LEMMA CurrentIsFree ==
  ASSUME Types, PoisonInv, NEW p \in Parsers, pc[p] \in {"insert", "mark"},
         law[Current(p)].kind # "poison"
  PROVE  Free(Current(p))
<1>1. Current(p) = batch[p][1] /\ 1 \in 1..Len(batch[p])
  BY CurrentFacts
<1>2. OlderPoisonFirst(batch[p])
  BY DEF PoisonInv, PoisonFirst
<1>3. ~ \E m \in 1..(1 - 1) : TRUE
  OBVIOUS
<1> QED
  BY <1>1, <1>2, <1>3 DEF OlderPoisonFirst, Free

(* OlderPoisonFirst of batch s in the next state.                          *)
PoisonFirstNext(s) ==
  \A k \in 1..Len(s) : \A j \in Stored :
    law'[j].kind = "poison" /\ law'[j].cDate < law'[s[k]].cDate
      => \E m \in 1..(k - 1) : s[m] = j

(* A batch that is kept keeps its poison rows first, and so does one that  *)
(* has lost a first row that was no poison row.                            *)
LEMMA KeptPoisonFirst ==
  ASSUME SameEvents, NEW s, \A k \in 1..Len(s) : s[k] \in Stored, OlderPoisonFirst(s)
  PROVE  PoisonFirstNext(s)
  BY DEF SameEvents, OlderPoisonFirst, PoisonFirstNext

(* The next row of a batch: only the first, no poison row, has gone.       *)
LEMMA TailPoisonFirst ==
  ASSUME SameEvents, NEW s, \A k \in 1..Len(s) : s[k] \in Stored, OlderPoisonFirst(s),
         Len(s) \in Nat \ {0}, law[s[1]].kind # "poison",
         NEW t, Len(t) = Len(s) - 1, \A k \in 1..Len(t) : t[k] = s[k + 1]
  PROVE  PoisonFirstNext(t)
<1> SUFFICES ASSUME NEW k \in 1..Len(t), NEW j \in Stored,
                    law'[j].kind = "poison", law'[j].cDate < law'[t[k]].cDate
             PROVE  \E m \in 1..(k - 1) : t[m] = j
  BY DEF PoisonFirstNext
<1>1. k \in Nat /\ k + 1 \in 1..Len(s) /\ t[k] = s[k + 1]
  OBVIOUS
<1>2. PICK m \in 1..((k + 1) - 1) : s[m] = j
  <2>1. PoisonFirstNext(s)
    BY KeptPoisonFirst
  <2> QED
    BY <1>1, <2>1 DEF PoisonFirstNext
<1>3. m # 1
  BY <1>2 DEF SameEvents
<1>4. m - 1 \in 1..(k - 1) /\ m - 1 \in 1..Len(t) /\ (m - 1) + 1 = m
  BY <1>1, <1>2, <1>3
<1>5. t[m - 1] = j
  BY <1>2, <1>4
<1> QED
  BY <1>4, <1>5

(* What the parser that moves may do to its batch.                         *)
KeepsBatch(p) ==
  /\ batch'[p] = batch[p]
  /\ pc'[p] = "mark" => pc[p] \in {"insert", "mark"} /\ law[Current(p)].kind # "poison"

TakesNext(p) ==
  /\ pc[p] \in {"insert", "mark"}
  /\ law[Current(p)].kind # "poison"
  /\ NextRow(p)

(* A step of any parser keeps PoisonFirst.                                 *)
LEMMA PoisonFirstStep ==
  ASSUME Types, Types', PoisonInv, SameEvents,
         \A p \in Parsers :
           \/ KeepsBatch(p)
           \/ TakesNext(p)
           \/ pc'[p] # "mark" /\ batch'[p] = <<>>
           \/ pc'[p] # "mark" /\ batch'[p] \in Results
  PROVE  PoisonFirst'
<1> SUFFICES ASSUME NEW p \in Parsers
             PROVE  /\ OlderPoisonFirst(batch[p])'
                    /\ pc'[p] = "mark" => law'[Current(p)'].kind # "poison"
  BY DEF PoisonFirst
<1>1. /\ OlderPoisonFirst(batch[p])
      /\ \A k \in 1..Len(batch[p]) : batch[p][k] \in Stored
      /\ Stored' = Stored
  BY RowFacts DEF PoisonInv, PoisonFirst, SameEvents
<1>0. PoisonFirstNext(batch'[p]) => OlderPoisonFirst(batch[p])'
  BY <1>1 DEF PoisonFirstNext, OlderPoisonFirst
<1>2. CASE KeepsBatch(p)
  <2>1. PoisonFirstNext(batch'[p])
    BY <1>1, <1>2, KeptPoisonFirst DEF KeepsBatch
  <2>2. ASSUME pc'[p] = "mark" PROVE law'[Current(p)'].kind # "poison"
    <3>1. pc[p] \in {"insert", "mark"} /\ law[Current(p)].kind # "poison"
      BY <1>2, <2>2 DEF KeepsBatch
    <3>2. Current(p)' = Current(p) /\ Current(p) \in Stored
      BY <1>2, <3>1, CurrentFacts DEF KeepsBatch, Current
    <3> QED
      BY <3>1, <3>2 DEF SameEvents
  <2> QED
    BY <1>0, <2>1, <2>2
<1>3. CASE TakesNext(p)
  <2>1. /\ Len(batch[p]) \in Nat \ {0} /\ Current(p) = batch[p][1]
        /\ Len(batch'[p]) = Len(batch[p]) - 1
        /\ \A k \in 1..Len(batch'[p]) : batch'[p][k] = batch[p][k + 1]
        /\ pc'[p] # "mark"
    BY <1>3, NextRowFacts DEF TakesNext
  <2>2. law[batch[p][1]].kind # "poison"
    BY <1>3, <2>1 DEF TakesNext
  <2>3. PoisonFirstNext(batch'[p])
    BY <1>1, <2>1, <2>2, TailPoisonFirst
  <2> QED
    BY <1>0, <2>1, <2>3
<1>4. CASE pc'[p] # "mark" /\ batch'[p] = <<>>
  <2>1. Len(batch'[p]) = 0
    BY <1>4, EmptySeq
  <2> QED
    BY <1>4, <2>1 DEF OlderPoisonFirst
<1>5. CASE pc'[p] # "mark" /\ batch'[p] \in Results
  <2>1. OlderPoisonFirst(batch'[p])
    BY <1>5, ResultsPoisonFirst DEF PoisonInv
  <2>2. \A k \in 1..Len(batch'[p]) : batch'[p][k] \in Stored
    BY <1>1, <1>5, ResultFacts, SelectedFinite DEF Types
  <2>3. PoisonFirstNext(batch'[p])
    BY <2>1, <2>2, KeptPoisonFirst
  <2> QED
    BY <1>0, <1>5, <2>3
<1> QED
  BY <1>2, <1>3, <1>4, <1>5

(* A step of any parser that closes and copies only free rows keeps        *)
(* PoisonInv.                                                              *)
LEMMA PoisonStep ==
  ASSUME Types, PoisonInv, SameEvents, PoisonFirst',
         \A i \in Stored : law'[i].state = law[i].state \/ Free(i),
         \A i \in Stored, q \in Parsers : detail'[i][q] = detail[i][q] \/ Free(i)
  PROVE  PoisonInv'
<1>1. DatesAscend'
  BY DEF PoisonInv, DatesAscend, SameEvents
<1>2. NothingPassesPoison'
  <2> SUFFICES ASSUME NEW j \in Stored, law[j].kind = "poison"
               PROVE  /\ law'[j].state = "N"
                      /\ \A i \in Stored, p \in Parsers :
                           law[j].cDate < law[i].cDate
                             => law'[i].state = "N" /\ detail'[i][p] = 0
    BY DEF NothingPassesPoison, SameEvents
  <2>1. law'[j].state = "N"
    BY DEF PoisonInv, NothingPassesPoison, Free
  <2>2. ASSUME NEW i \in Stored, NEW p \in Parsers, law[j].cDate < law[i].cDate
        PROVE  law'[i].state = "N" /\ detail'[i][p] = 0
    <3>1. ~Free(i)
      BY <2>2 DEF Free
    <3> QED
      BY <2>2, <3>1 DEF PoisonInv, NothingPassesPoison
  <2> QED
    BY <2>1, <2>2
<1> QED
  BY <1>1, <1>2 DEF PoisonInv

-----------------------------------------------------------------------------
(* Both tables are empty at first.                                         *)
LEMMA PoisonInit == Init => PoisonInv
<1> SUFFICES ASSUME Init PROVE PoisonInv
  OBVIOUS
<1>1. Stored = {} /\ \A p \in Parsers : pc[p] = "down" /\ Len(batch[p]) = 0
  BY EmptySeq DEF Init, Stored
<1> QED
  BY <1>1 DEF PoisonInv, DatesAscend, PoisonFirst, OlderPoisonFirst, NothingPassesPoison

(* The server's INSERT: the new row is not older than any other and has no *)
(* copy yet.                                                               *)
LEMMA PoisonInsert ==
  ASSUME Types, CopyInv, PoisonInv, ServerInsert
  PROVE  PoisonInv'
<1> DEFINE n == Len(law) + 1
<1>1. PICK k \in Kinds : Accept(k)
  BY DEF ServerInsert
<1>2. /\ Len(law) \in Nat /\ Len(law') = n /\ n \in Rows
      /\ \A i \in Stored : law'[i] = law[i]
      /\ law'[n].state = "N" /\ law'[n].cDate >= LastDate
      /\ law'[n] \in Row
  <2>1. /\ law' \in Seq(Row) /\ Len(law) \in Nat /\ Len(law') = n /\ Len(law') <= MaxRows
        /\ \A i \in Stored : law'[i] = law[i]
        /\ law'[n].state = "N" /\ law'[n].cDate >= LastDate
    BY <1>1, AcceptFacts DEF Types, Stored
  <2>2. n \in 1..Len(law') /\ n \in Rows
    BY <2>1, ParserAssumption DEF Rows
  <2>3. law'[n] \in Row
    BY <2>1, <2>2, ElementOfSeq
  <2> QED
    BY <2>1, <2>2, <2>3
<1>3. /\ Stored' = Stored \cup {n} /\ n \notin Stored
      /\ \A i \in Stored : i \in Nat /\ i < n
      /\ UNCHANGED <<detail, pc, batch>>
  BY <1>2 DEF ServerInsert, Stored
<1>4. /\ \A i \in Stored : law[i].cDate \in Nat
      /\ \A p \in Parsers : \A l \in 1..Len(batch[p]) : batch[p][l] \in Stored
  BY RowFacts
<1>5. law'[n].cDate \in Nat
  BY <1>2 DEF Row
<1>6. \A i \in Stored : law[i].cDate <= law'[n].cDate
  <2> SUFFICES ASSUME NEW i \in Stored PROVE law[i].cDate <= law'[n].cDate
    OBVIOUS
  <2>1. Len(law) \in Stored /\ (i < Len(law) \/ i = Len(law))
    BY <1>2 DEF Stored
  <2>2. law # <<>>
    BY <2>1, EmptySeq DEF Stored
  <2>3. law[i].cDate <= law[Len(law)].cDate
    BY <1>4, <2>1 DEF PoisonInv, DatesAscend
  <2> QED
    BY <1>2, <1>4, <1>5, <2>1, <2>2, <2>3 DEF LastDate
<1> HIDE DEF n
<1>7. DatesAscend'
  BY <1>2, <1>3, <1>4, <1>5, <1>6 DEF PoisonInv, DatesAscend
<1>8. PoisonFirst'
  <2> SUFFICES ASSUME NEW p \in Parsers
               PROVE  /\ OlderPoisonFirst(batch[p])'
                      /\ pc[p] = "mark" => law'[Current(p)].kind # "poison"
    BY <1>3 DEF PoisonFirst, Current
  <2>1. OlderPoisonFirst(batch[p])
    BY DEF PoisonInv, PoisonFirst
  <2>2. \A l \in 1..Len(batch[p]) : ~(law'[n].cDate < law'[batch[p][l]].cDate)
    <3> SUFFICES ASSUME NEW l \in 1..Len(batch[p])
                 PROVE  ~(law'[n].cDate < law'[batch[p][l]].cDate)
      OBVIOUS
    <3> DEFINE i == batch[p][l]
    <3>1. i \in Stored
      BY <1>4
    <3>2. law'[i] = law[i]
      BY <1>2, <3>1
    <3>3. law[i].cDate \in Nat /\ law[i].cDate <= law'[n].cDate
      BY <1>4, <1>6, <3>1
    <3> QED
      BY <1>5, <3>2, <3>3
  <2>3. OlderPoisonFirst(batch[p])'
    <3>1. batch' = batch
      BY <1>3
    <3>2. ASSUME NEW l \in 1..Len(batch[p]), NEW j \in Stored', law'[j].kind = "poison",
                 law'[j].cDate < law'[batch[p][l]].cDate
          PROVE  \E m \in 1..(l - 1) : batch[p][m] = j
      <4>1. j \in Stored
        BY <1>3, <2>2, <3>2
      <4>2. law'[j] = law[j] /\ law'[batch[p][l]] = law[batch[p][l]]
        BY <1>2, <1>4, <4>1
      <4> QED
        BY <2>1, <3>2, <4>1, <4>2 DEF OlderPoisonFirst
    <3> QED
      BY <3>1, <3>2 DEF OlderPoisonFirst
  <2>4. pc[p] = "mark" => law'[Current(p)].kind # "poison"
    BY <1>2, CurrentFacts DEF PoisonInv, PoisonFirst
  <2> QED
    BY <2>3, <2>4
<1>9. NothingPassesPoison'
  <2> SUFFICES ASSUME NEW j \in Stored', law'[j].kind = "poison"
               PROVE  /\ law'[j].state = "N"
                      /\ \A i \in Stored', p \in Parsers :
                           law'[j].cDate < law'[i].cDate
                             => law'[i].state = "N" /\ detail[i][p] = 0
    BY <1>3 DEF NothingPassesPoison
  <2>1. law'[j].state = "N"
    BY <1>2, <1>3 DEF PoisonInv, NothingPassesPoison
  <2>2. ASSUME NEW i \in Stored', NEW p \in Parsers, law'[j].cDate < law'[i].cDate
        PROVE  law'[i].state = "N" /\ detail[i][p] = 0
    <3>1. CASE i = n
      <4>1. detail[n][p] = 0
        BY <1>2, <1>3 DEF CopyInv, CopiesOfStored
      <4> QED
        BY <1>2, <3>1, <4>1
    <3>2. CASE i \in Stored
      <4>1. j \in Stored
        BY <1>2, <1>3, <1>4, <1>5, <1>6, <2>2, <3>2
      <4> QED
        BY <1>2, <2>2, <3>2, <4>1 DEF PoisonInv, NothingPassesPoison
    <3> QED
      BY <1>3, <3>1, <3>2
  <2> QED
    BY <2>1, <2>2
<1> QED
  BY <1>7, <1>8, <1>9 DEF PoisonInv

(* Every step keeps PoisonInv.                                             *)
LEMMA PoisonNext == Types /\ Types' /\ CopyInv /\ PoisonInv /\ [Next]_vars => PoisonInv'
<1> SUFFICES ASSUME Types, Types', CopyInv, PoisonInv, [Next]_vars PROVE PoisonInv'
  OBVIOUS
<1>0. TypeOK
  BY DEF Types
<1>1. ASSUME NEW q \in Parsers, pc'[q] = pc[q], batch'[q] = batch[q] PROVE KeepsBatch(q)
  BY <1>1 DEF KeepsBatch, PoisonInv, PoisonFirst
<1>2. ASSUME law' = law PROVE SameEvents
  BY <1>2 DEF SameEvents, Stored
<1>3. ASSUME law' = law, detail' = detail,
             \A q \in Parsers :
               \/ KeepsBatch(q)
               \/ TakesNext(q)
               \/ pc'[q] # "mark" /\ batch'[q] = <<>>
               \/ pc'[q] # "mark" /\ batch'[q] \in Results
      PROVE  PoisonInv'
  BY <1>2, <1>3, PoisonFirstStep, PoisonStep
<1>4. ASSUME NEW p \in Parsers, Start(p) PROVE PoisonInv'
  <2>1. /\ law' = law /\ detail' = detail /\ batch' = batch /\ pc'[p] = "poll"
        /\ \A q \in Parsers : q # p => pc'[q] = pc[q]
    BY <1>0, <1>4 DEF Start, Goto, TypeOK
  <2>2. \A q \in Parsers : KeepsBatch(q)
    BY <1>1, <2>1 DEF KeepsBatch
  <2> QED
    BY <1>3, <2>1, <2>2
<1>5. ASSUME NEW p \in Parsers, Exit(p), law' = law, detail' = detail PROVE PoisonInv'
  <2>1. \A q \in Parsers : KeepsBatch(q) \/ (pc'[q] # "mark" /\ batch'[q] = <<>>)
    BY <1>0, <1>1, <1>5, ExitFacts
  <2> QED
    BY <1>3, <1>5, <2>1
<1>6. ASSUME NEW p \in Parsers, Poll(p) PROVE PoisonInv'
  <2>1. CASE conn[p]
    <3>1. /\ batch'[p] \in Results /\ pc'[p] # "mark"
          /\ \A q \in Parsers : q # p => pc'[q] = pc[q] /\ batch'[q] = batch[q]
      BY <1>0, <1>6, <2>1, PollFacts
    <3>2. law' = law /\ detail' = detail
      BY <1>6 DEF Poll
    <3> QED
      BY <1>1, <1>3, <3>1, <3>2
  <2>2. CASE ~conn[p]
    BY <1>5, <1>6, <2>2 DEF Poll
  <2> QED
    BY <2>1, <2>2
<1>7. ASSUME NEW p \in Parsers, TakesNext(p), law' = law,
             \A i \in Stored, q \in Parsers : detail'[i][q] = detail[i][q] \/ i = Current(p)
      PROVE  PoisonInv'
  <2>1. SameEvents
    BY <1>2, <1>7
  <2>2. \A q \in Parsers : KeepsBatch(q) \/ TakesNext(q)
    <3>1. \A q \in Parsers : q # p => pc'[q] = pc[q] /\ batch'[q] = batch[q]
      BY <1>7, NextRowFacts DEF TakesNext
    <3> QED
      BY <1>1, <1>7, <3>1
  <2>3. Free(Current(p))
    BY <1>7, CurrentIsFree DEF TakesNext
  <2>4. PoisonFirst'
    BY <2>1, <2>2, PoisonFirstStep
  <2>5. \A i \in Stored, q \in Parsers : detail'[i][q] = detail[i][q] \/ Free(i)
    BY <1>7, <2>3
  <2> QED
    BY <1>7, <2>1, <2>4, <2>5, PoisonStep
<1>8. ASSUME NEW p \in Parsers, DieOfRow(p) PROVE PoisonInv'
  BY <1>5, <1>8 DEF DieOfRow
<1>9. ASSUME NEW p \in Parsers, InsertRefused(p) PROVE PoisonInv'
  <2>1. TakesNext(p) /\ law' = law /\ detail' = detail
    BY <1>9 DEF InsertRefused, GiveUpRow, TakesNext
  <2> QED
    BY <1>7, <2>1
<1>10. ASSUME NEW p \in Parsers, pc[p] = "mark" PROVE law[Current(p)].kind # "poison"
  BY <1>10 DEF PoisonInv, PoisonFirst
<1>11. ASSUME NEW p \in Parsers, InsertDetail(p) PROVE PoisonInv'
  <2>1. /\ pc[p] = "insert" /\ law' = law /\ batch' = batch
        /\ law[Current(p)].kind # "poison"
        /\ \A q \in Parsers : q # p => pc'[q] = pc[q]
    BY <1>0, <1>11 DEF InsertDetail, Accepted, Goto, TypeOK
  <2>2. SameEvents
    BY <1>2, <2>1
  <2>3. \A q \in Parsers : KeepsBatch(q)
    BY <1>1, <2>1 DEF KeepsBatch
  <2>4. PoisonFirst'
    BY <2>2, <2>3, PoisonFirstStep
  <2>5. \A i \in Stored, q \in Parsers : detail'[i][q] = detail[i][q] \/ Free(i)
    BY <1>11, <2>1, RowFacts, AddDetailFacts, CurrentIsFree DEF InsertDetail
  <2> QED
    BY <2>1, <2>2, <2>4, <2>5, PoisonStep
<1>12. ASSUME NEW p \in Parsers, MarkRow(p) PROVE PoisonInv'
  <2>1. SameEvents
    BY <1>12, MarkFacts DEF SameEvents
  <2>2. TakesNext(p) /\ detail' = detail
    BY <1>10, <1>12 DEF MarkRow, TakesNext
  <2>3. \A q \in Parsers : KeepsBatch(q) \/ TakesNext(q)
    <3>1. \A q \in Parsers : q # p => pc'[q] = pc[q] /\ batch'[q] = batch[q]
      BY <2>2, NextRowFacts DEF TakesNext
    <3> QED
      BY <1>1, <2>2, <3>1
  <2>4. PoisonFirst'
    BY <2>1, <2>3, PoisonFirstStep
  <2>5. Free(Current(p))
    BY <2>2, CurrentIsFree DEF TakesNext
  <2>6. \A i \in Stored : law'[i].state = law[i].state \/ Free(i)
    BY <1>12, <2>5, MarkFacts
  <2> QED
    BY <2>1, <2>2, <2>4, <2>6, PoisonStep
<1>13. ASSUME NEW p \in Parsers, MarkRefused(p) PROVE PoisonInv'
  <2>1. TakesNext(p) /\ law' = law /\ detail' = detail
    BY <1>10, <1>13 DEF MarkRefused, GiveUpRow, TakesNext
  <2> QED
    BY <1>7, <2>1
<1>14. ASSUME NEW p \in Parsers, Kill(p) PROVE PoisonInv'
  BY <1>5, <1>14 DEF Kill
<1>15. ASSUME NEW p \in Parsers, ConnLost(p) PROVE PoisonInv'
  BY <1>1, <1>3, <1>15 DEF ConnLost
<1>16. ASSUME NEW p \in Parsers, InsertAnswerLost(p) PROVE PoisonInv'
  <2>1. TakesNext(p) /\ law' = law /\ pc[p] \in {"insert", "mark"} /\ AddDetail(p)
    BY <1>16 DEF InsertAnswerLost, Accepted, GiveUpRow, TakesNext
  <2>2. \A i \in Stored, q \in Parsers : detail'[i][q] = detail[i][q] \/ i = Current(p)
    BY <2>1, RowFacts, AddDetailFacts
  <2> QED
    BY <1>7, <2>1, <2>2
<1>17. ASSUME NEW p \in Parsers, StatementFails(p) PROVE PoisonInv'
  <2>1. TakesNext(p) /\ law' = law /\ detail' = detail
    BY <1>10, <1>17 DEF StatementFails, Accepted, GiveUpRow, TakesNext
  <2> QED
    BY <1>7, <2>1
<1>18. CASE UNCHANGED vars
  BY <1>1, <1>3, <1>18 DEF vars
<1>19. ASSUME ServerInsert PROVE PoisonInv'
  BY <1>19, PoisonInsert
<1> QED
  BY <1>4, <1>6, <1>8, <1>9, <1>11, <1>12, <1>13, <1>14, <1>15, <1>16, <1>17,
     <1>18, <1>19 DEF Next, ParserStep, Trouble

(* However many parsers are started and stopped, a row whose text ends the *)
(* parser (line 140) is never closed, and no row dated after it is closed  *)
(* or copied: the order of the SELECT (line 52) keeps them behind it.      *)
THEOREM NothingGetsPastPoison == Spec => []NothingPassesPoison
<1>1. Init => PoisonInv
  BY PoisonInit
<1>2. (Types /\ CopyInv) /\ (Types /\ CopyInv)' /\ PoisonInv /\ [Next]_vars => PoisonInv'
  BY PoisonNext
<1>3. PoisonInv => NothingPassesPoison
  BY DEF PoisonInv
<1> QED
  BY <1>1, <1>2, <1>3, CopyCorrect, PTL DEF Spec

-----------------------------------------------------------------------------
(* One parser, whatever disturbs it, implements the event log.             *)

RefinementInv == Types /\ CopyInv /\ BatchOpen

-----------------------------------------------------------------------------
(* What is in the batch of the only parser is open.                        *)

(* A parser that goes on to its next row keeps the rest of its batch.      *)
LEMMA RestOpen ==
  ASSUME SingleParser, Types, BatchOpen, NEW p \in Parsers, pc[p] \in {"insert", "mark"},
         NextRow(p), \A i \in Stored : i # Current(p) => law'[i].state = law[i].state
  PROVE  BatchOpen'
<1>1. /\ Len(batch[p]) \in Nat \ {0} /\ Current(p) = batch[p][1]
      /\ Len(batch'[p]) = Len(batch[p]) - 1
      /\ \A k \in 1..Len(batch'[p]) : batch'[p][k] = batch[p][k + 1]
  BY NextRowFacts
<1>2. ASSUME NEW k \in 1..Len(batch'[p]) PROVE law'[batch'[p][k]].state = "N"
  <2>1. k + 1 \in 1..Len(batch[p]) /\ 1 \in 1..Len(batch[p]) /\ 1 < k + 1
    BY <1>1
  <2>2. batch[p][k + 1] \in Stored /\ batch[p][k + 1] # batch[p][1]
    BY <2>1 DEF Types, BatchShape, WellFormed
  <2>3. law[batch[p][k + 1]].state = "N"
    BY <2>1 DEF BatchOpen
  <2> QED
    BY <1>1, <2>2, <2>3
<1> QED
  BY <1>2 DEF BatchOpen, SingleParser

(* A process that ends forgets its batch.                                  *)
LEMMA ExitOpen ==
  ASSUME SingleParser, Types, NEW p \in Parsers, Exit(p)
  PROVE  BatchOpen'
<1>1. batch'[p] = <<>> /\ Len(batch'[p]) = 0
  BY ExitFacts, EmptySeq DEF Types
<1> QED
  BY <1>1 DEF BatchOpen, SingleParser

(* Every step keeps the batch open.                                        *)
LEMMA OpenNext == SingleParser /\ Types /\ BatchOpen /\ [Next]_vars => BatchOpen'
<1> SUFFICES ASSUME SingleParser, Types, BatchOpen, [Next]_vars PROVE BatchOpen'
  OBVIOUS
<1>1. CASE ServerInsert
  <2>1. PICK k \in Kinds : Accept(k)
    BY <1>1 DEF ServerInsert
  <2>2. \A i \in Stored : law'[i] = law[i]
    BY <2>1, AcceptFacts DEF Stored, Types
  <2>3. batch' = batch
    BY <1>1 DEF ServerInsert
  <2> QED
    BY <2>2, <2>3 DEF BatchOpen, Types, BatchShape, WellFormed
<1>2. CASE UNCHANGED <<law, batch>>
  BY <1>2 DEF BatchOpen
<1>3. ASSUME NEW p \in Parsers, Poll(p) PROVE BatchOpen'
  <2>1. CASE conn[p]
    <3>1. PICK s \in Results : batch'[p] = s
      BY <1>3, <2>1, PollFacts DEF Types
    <3>2. \A k \in 1..Len(s) : law[s[k]].state = "N"
      BY ResultFacts DEF Types, Selected, Open
    <3>3. law' = law
      BY <1>3 DEF Poll
    <3> QED
      BY <3>1, <3>2, <3>3 DEF BatchOpen, SingleParser
  <2>2. CASE ~conn[p]
    BY <1>3, <2>2, ExitOpen DEF Poll
  <2> QED
    BY <2>1, <2>2
<1>4. ASSUME NEW p \in Parsers, DieOfRow(p) \/ Kill(p) PROVE BatchOpen'
  BY <1>4, ExitOpen DEF DieOfRow, Kill
<1>5. ASSUME NEW p \in Parsers,
             InsertRefused(p) \/ MarkRefused(p) \/ InsertAnswerLost(p) \/ StatementFails(p)
      PROVE  BatchOpen'
  <2>1. law' = law /\ NextRow(p) /\ pc[p] \in {"insert", "mark"}
    BY <1>5 DEF InsertRefused, MarkRefused, InsertAnswerLost, StatementFails, GiveUpRow
  <2> QED
    BY <2>1, RestOpen
<1>6. ASSUME NEW p \in Parsers, MarkRow(p) PROVE BatchOpen'
  <2>1. NextRow(p) /\ pc[p] \in {"insert", "mark"}
    BY <1>6 DEF MarkRow
  <2>2. \A i \in Stored : i # Current(p) => law'[i].state = law[i].state
    BY <1>6, MarkFacts
  <2> QED
    BY <2>1, <2>2, RestOpen
<1>7. ASSUME NEW p \in Parsers, Start(p) \/ InsertDetail(p) \/ ConnLost(p) PROVE BatchOpen'
  BY <1>2, <1>7 DEF Start, InsertDetail, ConnLost
<1> QED
  BY <1>1, <1>2, <1>3, <1>4, <1>5, <1>6, <1>7 DEF Next, ParserStep, Trouble, vars

-----------------------------------------------------------------------------
(* The refinement.                                                         *)

(* The state of an event, row by row.                                      *)
LEMMA StatusFacts ==
  /\ EventStatus = [i \in Rows |-> EventStatus[i]]
  /\ \A i \in Rows :
       EventStatus[i] = IF i \notin Stored THEN "absent"
                        ELSE IF law[i].state = "N" THEN "open" ELSE "closed"
  BY DEF EventStatus, Open

(* The empty tables are an empty event log.                                *)
LEMMA RefinesInit == Init => Abstract!Init
<1> SUFFICES ASSUME Init PROVE Abstract!Init
  OBVIOUS
<1>1. Stored = {}
  BY EmptySeq DEF Init, Stored
<1>2. EventStatus = [i \in Rows |-> "absent"]
  BY <1>1, StatusFacts
<1> QED
  BY <1>2 DEF Init, Abstract!Init, NoRows

(* A copy is made of an open row.                                          *)
LEMMA RefinesCopy ==
  ASSUME RefinementInv, NEW p \in Parsers, pc[p] = "insert", AddDetail(p), law' = law
  PROVE  Abstract!Next
<1>1. /\ Current(p) \in Stored /\ Current(p) \in Rows
      /\ Current(p) = batch[p][1] /\ 1 \in 1..Len(batch[p])
  BY CurrentFacts DEF RefinementInv
<1>2. EventStatus[Current(p)] = "open"
  BY <1>1, StatusFacts DEF RefinementInv, BatchOpen
<1>3. EventStatus' = EventStatus
  BY DEF EventStatus, Open, Stored
<1>4. Abstract!Copy(Current(p), p)
  BY <1>2, <1>3 DEF AddDetail, Abstract!Copy
<1> QED
  BY <1>1, <1>4 DEF Abstract!Next

(* A row is closed while it is open, after it has been copied.             *)
LEMMA RefinesClose ==
  ASSUME RefinementInv, NEW p \in Parsers, MarkRow(p)
  PROVE  Abstract!Next
<1> DEFINE c == Current(p)
<1>1. /\ c \in Stored /\ c \in Rows /\ c = batch[p][1] /\ 1 \in 1..Len(batch[p])
      /\ pc[p] = "mark" /\ detail' = detail
  BY CurrentFacts DEF RefinementInv, MarkRow
<1>2. EventStatus[c] = "open" /\ detail[c][p] > 0
  BY <1>1, StatusFacts DEF RefinementInv, BatchOpen, CopyInv, CopiesOfStored
<1>3. /\ Stored' = Stored
      /\ \A i \in Stored : law'[i].state = IF i = c THEN "C" ELSE law[i].state
  BY MarkFacts DEF RefinementInv
<1>4. EventStatus' = [i \in Rows |-> IF i = c THEN "closed" ELSE EventStatus[i]]
  <2>1. \A i \in Rows : EventStatus'[i] = IF i = c THEN "closed" ELSE EventStatus[i]
    <3> SUFFICES ASSUME NEW i \in Rows
                 PROVE  EventStatus'[i] = IF i = c THEN "closed" ELSE EventStatus[i]
      OBVIOUS
    <3>1. EventStatus'[i] = IF i \notin Stored' THEN "absent"
                            ELSE IF law'[i].state = "N" THEN "open" ELSE "closed"
      BY DEF EventStatus, Open
    <3>2. EventStatus[i] = IF i \notin Stored THEN "absent"
                           ELSE IF law[i].state = "N" THEN "open" ELSE "closed"
      BY StatusFacts
    <3> QED
      BY <1>1, <1>3, <3>1, <3>2
  <2>2. EventStatus' = [i \in Rows |-> EventStatus'[i]]
    BY DEF EventStatus
  <2> QED
    BY <2>1, <2>2
<1>5. EventStatus' = [EventStatus EXCEPT ![c] = "closed"]
  BY <1>1, <1>4, StatusFacts
<1>6. Abstract!Close(c)
  BY <1>1, <1>2, <1>5 DEF Abstract!Close
<1> QED
  BY <1>1, <1>6 DEF Abstract!Next

(* The server's INSERT accepts the next event.                             *)
LEMMA RefinesAccept ==
  ASSUME RefinementInv, NEW k \in Kinds, Accept(k), detail' = detail
  PROVE  Abstract!Next
<1> DEFINE e == Len(law')
<1>1. /\ Len(law) \in Nat /\ e = Len(law) + 1 /\ e <= MaxRows /\ MaxRows \in Nat
      /\ \A i \in Stored : law'[i] = law[i]
      /\ law'[e].state = "N"
  BY AcceptFacts, ParserAssumption DEF RefinementInv, Types, Stored
<1>2. e \in Rows /\ e \notin Stored /\ Stored' = Stored \cup {e}
  BY <1>1 DEF Rows, Stored
<1>3. \A d \in Rows : d < e => d \in Stored
  BY <1>1 DEF Rows, Stored
<1>4. EventStatus[e] = "absent" /\ \A d \in Rows : d < e => EventStatus[d] # "absent"
  BY <1>2, <1>3, StatusFacts
<1>5. \A i \in Rows : EventStatus'[i] = IF i = e THEN "open" ELSE EventStatus[i]
  <2> SUFFICES ASSUME NEW i \in Rows
               PROVE  EventStatus'[i] = IF i = e THEN "open" ELSE EventStatus[i]
    OBVIOUS
  <2>1. EventStatus'[i] = IF i \notin Stored' THEN "absent"
                          ELSE IF law'[i].state = "N" THEN "open" ELSE "closed"
    BY DEF EventStatus, Open
  <2>2. EventStatus[i] = IF i \notin Stored THEN "absent"
                         ELSE IF law[i].state = "N" THEN "open" ELSE "closed"
    BY StatusFacts
  <2> QED
    BY <1>1, <1>2, <2>1, <2>2
<1>6. EventStatus' = [i \in Rows |-> EventStatus'[i]]
  BY DEF EventStatus
<1>7. EventStatus' = [EventStatus EXCEPT ![e] = "open"]
  BY <1>2, <1>5, <1>6, StatusFacts
<1>8. Abstract!Accept(e)
  BY <1>4, <1>7 DEF Abstract!Accept
<1> QED
  BY <1>2, <1>8 DEF Abstract!Next

(* Every step of server and parser is a step of the event log or none.     *)
LEMMA RefinesNext ==
  RefinementInv /\ [Next]_vars => [Abstract!Next]_(Abstract!eventVars)
<1> SUFFICES ASSUME RefinementInv, [Next]_vars
             PROVE  Abstract!Next \/ UNCHANGED Abstract!eventVars
  OBVIOUS
<1>1. CASE UNCHANGED <<law, detail>>
  <2>1. EventStatus' = EventStatus
    BY <1>1 DEF EventStatus, Open, Stored
  <2> QED
    BY <1>1, <2>1 DEF Abstract!eventVars
<1>2. CASE ServerInsert
  BY <1>2, RefinesAccept DEF ServerInsert
<1>3. ASSUME NEW p \in Parsers, InsertDetail(p) \/ InsertAnswerLost(p) PROVE Abstract!Next
  BY <1>3, RefinesCopy DEF InsertDetail, InsertAnswerLost
<1>4. ASSUME NEW p \in Parsers, MarkRow(p) PROVE Abstract!Next
  BY <1>4, RefinesClose
<1>5. ASSUME NEW p \in Parsers,
             \/ Start(p) \/ Poll(p) \/ DieOfRow(p) \/ InsertRefused(p) \/ MarkRefused(p)
             \/ Kill(p) \/ ConnLost(p) \/ StatementFails(p)
      PROVE  UNCHANGED <<law, detail>>
  BY <1>5 DEF Start, Poll, DieOfRow, InsertRefused, MarkRefused, Kill, ConnLost, StatementFails
<1> QED
  BY <1>1, <1>2, <1>3, <1>4, <1>5 DEF Next, ParserStep, Trouble, vars

(* A single parser copies a row only while it is open and closes it once,  *)
(* after a copy - through every kill, lost connection or answer and failed *)
(* statement, and whatever batch it read before.                           *)
THEOREM ParserImplementsEventLog ==
  ASSUME SingleParser PROVE Spec => ImplementsEventLog
<1>1. Init => RefinementInv
  <2>1. ASSUME Init PROVE BatchOpen
    BY <2>1, EmptySeq DEF Init, BatchOpen
  <2> QED
    BY <2>1, TypesInit, CopyInit DEF RefinementInv
<1>2. RefinementInv /\ [Next]_vars => RefinementInv'
  BY TypesNext, CopyNext, OpenNext DEF RefinementInv
<1> QED
  BY <1>1, <1>2, RefinesInit, RefinesNext, PTL DEF Spec, ImplementsEventLog, Abstract!Spec

=============================================================================
