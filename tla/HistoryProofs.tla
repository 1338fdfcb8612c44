--------------------------- MODULE HistoryProofs ----------------------------
(***************************************************************************)
(* Theorems about History, for every period, count and page size and any   *)
(* number of values.                                                       *)
(***************************************************************************)
EXTENDS History, FiniteSetTheorems, SequenceTheorems, WellFoundedInduction, TLAPS

-----------------------------------------------------------------------------
(* The inductive invariant of a read.                                      *)

\* The values a read asked for.
InRange(t) ==
    IF Down(read.start, read.end) THEN read.end <= t /\ t <= read.start
    ELSE read.start <= t /\ (read.end = Epoch \/ t <= read.end)

\* A value with time t comes before the continuation point of the read.
Passed(t) ==
    IF Down(read.start, read.end) THEN t > read.from ELSE t < read.from

Got == UNION {read.got[k] : k \in DOMAIN read.got}

\* The continuation point is within the range, what comes before it has been
\* read, as far as it is still stored, and nothing else has.
Halfway ==
    read.on =>
        /\ read.from # Epoch /\ InRange(read.from)
        /\ \A i \in Got : Passed(saved[i])
        /\ read.num = 0 => \A i \in read.kept : Passed(saved[i]) => i \in Got

\* What was asked for is in the range, and pages follow each other.
Paged ==
    /\ \A i \in read.kept : InRange(saved[i])
    /\ \A k, m \in DOMAIN read.got : k < m =>
          \A i \in read.got[k], j \in read.got[m] :
              Before(Down(read.start, read.end), i, j)

\* A read that has ended has all of it.
Ended == ~read.on /\ read.num = 0 => read.kept \subseteq Got

ReadInv == Ordered /\ read.start # Epoch => Halfway /\ Paged /\ Ended

Inv == TypeOK /\ RetentionIsExact /\ ReadInv

-----------------------------------------------------------------------------
(* Numbers and sets of numbers.                                            *)

\* Every set of numbers has a first one, and below a bound a last one.
LEMMA FirstNumber ==
    ASSUME NEW S, S \subseteq Nat, S # {}
    PROVE  \E i \in S : \A j \in S : i <= j
<1> DEFINE R == OpToRel(<, Nat)
<1>1. \A i, j \in Nat : <<i, j>> \in R <=> i < j
  BY DEF OpToRel
<1>2. IsWellFoundedOn(R, Nat)
  BY NatLessThanWellFounded
<1> HIDE DEF R
<1>3. PICK i \in S : \A j \in S : ~(<<j, i>> \in R)
  BY <1>2, WFMin
<1>4. \A j \in S : ~(j < i)
  BY <1>1, <1>3
<1>5. \A j \in S : i <= j
  BY <1>4
<1>6. QED
  BY <1>5

\* A set of numbers up to n has a greatest.
LEMMA LastNumber ==
    ASSUME NEW n \in Nat, NEW S, S \subseteq 1 .. n, S # {}
    PROVE  \E i \in S : \A j \in S : j <= i
<1> DEFINE T == {n - i : i \in S}
<1>1. T \subseteq Nat /\ T # {}
  <2>1. \A i \in S : i \in 1 .. n /\ n - i \in Nat
    OBVIOUS
  <2>2. PICK i \in S : TRUE
    OBVIOUS
  <2>3. n - i \in T
    BY <2>2
  <2>4. QED
    BY <2>1, <2>3
<1>2. PICK t \in T : \A u \in T : t <= u
  BY <1>1, FirstNumber
<1>3. PICK i \in S : t = n - i
  OBVIOUS
<1>4. \A j \in S : n - i <= n - j
  BY <1>2, <1>3
<1> HIDE DEF T
<1>5. ASSUME NEW j \in S PROVE j <= i
  <2>1. i \in Int /\ j \in Int /\ n \in Int
    BY <1>3
  <2>2. n - i <= n - j
    BY <1>4
  <2>3. QED
    BY <2>1, <2>2
<1>6. QED
  BY <1>3, <1>5

\* What is popped for its age: the values before the first that is young
\* enough.
LEMMA YoungFacts ==
    ASSUME HistoryAssumption, now \in Nat, NEW stamps \in Seq(Times),
           NEW k \in 1 .. Len(stamps) + 1
    PROVE  /\ Young(stamps, k) \in k .. Len(stamps) + 1
           /\ Period = 0 => Young(stamps, k) = k
           /\ Period > 0 =>
                 /\ \A i \in k .. Young(stamps, k) - 1 : now - stamps[i] > Period
                 /\ Young(stamps, k) <= Len(stamps) => now - stamps[Young(stamps, k)] <= Period
<1> DEFINE n == Len(stamps)
           fresh == {i \in k .. n : now - stamps[i] <= Period}
           y == CHOOSE i \in fresh \cup {n + 1} : \A j \in fresh : i <= j
<1>1. n \in Nat /\ fresh \subseteq 1 .. n /\ fresh \subseteq Nat
  OBVIOUS
<1>2. \E i \in fresh \cup {n + 1} : \A j \in fresh : i <= j
  <2>1. CASE fresh = {}
    BY <2>1
  <2>2. CASE fresh # {}
    BY <1>1, <2>2, FirstNumber
  <2>3. QED
    BY <2>1, <2>2
<1>3. y \in fresh \cup {n + 1} /\ \A j \in fresh : y <= j
  BY <1>2
<1>4. Young(stamps, k) = IF Period = 0 THEN k ELSE y
  BY DEF Young
<1>5. Period \in Nat /\ \A i \in 1 .. n : stamps[i] \in Nat
  BY DEF HistoryAssumption, Times
<1> HIDE DEF y
<1>6. y \in k .. n + 1
  BY <1>1, <1>3
<1>7. \A i \in k .. y - 1 : now - stamps[i] > Period
  <2>1. \A i \in k .. y - 1 : i \in k .. n /\ i \in 1 .. n /\ i \notin fresh
    BY <1>1, <1>3, <1>6
  <2>2. QED
    BY <1>1, <1>5, <2>1
<1>8. y <= n => now - stamps[y] <= Period
  BY <1>1, <1>3, <1>6
<1>9. QED
  BY <1>4, <1>5, <1>6, <1>7, <1>8

-----------------------------------------------------------------------------
(* Retention.                                                              *)

\* saved and its length after a save.
LEMMA SaveFacts ==
    ASSUME HistoryAssumption, TypeOK, NEW stamp \in Times, Save(stamp)
    PROVE  /\ now \in Nat /\ at \in Nat /\ at <= now
           /\ Len(saved) \in Nat /\ saved \in Seq(Times) /\ first \in 1 .. Len(saved) + 1
           /\ saved' \in Seq(Times) /\ Len(saved') = Len(saved) + 1
           /\ \A i \in 1 .. Len(saved) : saved'[i] = saved[i]
           /\ DOMAIN saved = 1 .. Len(saved) /\ DOMAIN saved' = 1 .. Len(saved')
           /\ \A i \in DOMAIN saved' : saved'[i] \in Nat
<1>1. /\ now \in Nat /\ at \in Nat /\ at <= now
  BY DEF TypeOK, Times, HistoryAssumption
<1>2. saved \in Seq(Times) /\ first \in 1 .. Len(saved) + 1 /\ saved' = Append(saved, stamp)
  BY DEF TypeOK, Save
<1>3. /\ saved' \in Seq(Times) /\ Len(saved') = Len(saved) + 1
      /\ \A i \in 1 .. Len(saved) : saved'[i] = saved[i]
  BY <1>2, AppendProperties
<1>4. DOMAIN saved = 1 .. Len(saved) /\ DOMAIN saved' = 1 .. Len(saved') /\ Len(saved) \in Nat
  BY <1>2, <1>3, LenProperties
<1>5. \A i \in DOMAIN saved' : saved'[i] \in Times
  BY <1>3, <1>4, ElementOfSeq
<1>6. QED
  BY <1>1, <1>2, <1>3, <1>4, <1>5 DEF Times

\* A save keeps what period and count ask for, and nothing else.
LEMMA SaveRetains ==
    ASSUME HistoryAssumption, TypeOK, RetentionIsExact, NEW stamp \in Times, Save(stamp)
    PROVE  RetentionIsExact' /\ first' \in first .. Len(saved') + 1
<1> DEFINE n == Len(saved')
           y == Young(saved', first)
<1>1. /\ now \in Nat /\ at \in Nat /\ at <= now
      /\ Len(saved) \in Nat /\ first \in 1 .. Len(saved) + 1
      /\ saved' \in Seq(Times) /\ n = Len(saved) + 1
      /\ \A i \in 1 .. Len(saved) : saved'[i] = saved[i]
      /\ DOMAIN saved = 1 .. Len(saved) /\ DOMAIN saved' = 1 .. n
      /\ \A i \in 1 .. n : saved'[i] \in Nat
  BY SaveFacts
<1>2. first' = Few(n, y) /\ at' = now
  BY DEF Save
<1>3. first \in 1 .. n + 1 /\ now' = now
  BY <1>1 DEF Save
<1>4. /\ y \in first .. n + 1 /\ (Period = 0 => y = first)
      /\ Period > 0 => /\ \A i \in first .. y - 1 : now - saved'[i] > Period
                       /\ y <= n => now - saved'[y] <= Period
  BY <1>1, <1>3, YoungFacts
<1>5. Period \in Nat /\ Count \in Nat
  BY DEF HistoryAssumption
<1> HIDE DEF y, n
<1>6. first' = IF Count > 0 /\ n + 1 - y > Count THEN y + 1 ELSE y
  BY <1>2 DEF Few
<1>7. first' \in first .. n + 1
  BY <1>1, <1>4, <1>5, <1>6
<1>8. ASSUME Ordered' PROVE RetentionIsExact'
  <2>1. \A i, j \in 1 .. n : i < j => saved'[i] < saved'[j]
    BY <1>1, <1>8 DEF Ordered
  <2>2. Ordered
    BY <1>1, <2>1 DEF Ordered
  <2>3. \A i \in 1 .. Len(saved) : i >= first <=>
           /\ Count > 0 => i > Len(saved) - Count
           /\ Period > 0 => at - saved[i] <= Period
    BY <1>1, <2>2 DEF RetentionIsExact, Stored
  <2>4. SUFFICES ASSUME NEW i \in 1 .. n
        PROVE  i >= first' <=> /\ Count > 0 => i > n - Count
                               /\ Period > 0 => now - saved'[i] <= Period
    <3>1. first' .. n = {i \in 1 .. n : i >= first'}
      BY <1>1, <1>7
    <3>2. first' .. n = {i \in 1 .. n : /\ Count > 0 => i > n - Count
                                        /\ Period > 0 => now - saved'[i] <= Period}
      BY <2>4, <3>1
    <3>3. QED
      BY <1>1, <1>2, <3>2 DEF RetentionIsExact, Stored, n
  <2>5. Count > 0 => first >= n - Count
    <3>1. CASE first <= Len(saved)
      BY <1>1, <1>5, <2>3, <3>1
    <3>2. CASE first = n
      BY <1>1, <1>5, <3>2
    <3>3. QED
      BY <1>1, <3>1, <3>2
  <2>6. CASE i < first
    <3>1. i \in 1 .. Len(saved) /\ i < first'
      BY <1>1, <1>7, <2>6
    <3>2. saved'[i] = saved[i] /\ saved[i] \in Nat
      BY <1>1, <3>1
    <3>3. ~(/\ Count > 0 => i > Len(saved) - Count
            /\ Period > 0 => at - saved[i] <= Period)
      BY <1>1, <2>3, <2>6, <3>1
    <3>4. QED
      BY <1>1, <1>5, <1>7, <3>1, <3>2, <3>3
  <2>7. CASE first <= i /\ i < y
    <3>1. Period > 0 /\ i \in first .. y - 1
      BY <1>1, <1>4, <1>5, <2>7
    <3>2. now - saved'[i] > Period /\ saved'[i] \in Nat
      BY <1>1, <1>4, <3>1
    <3>3. first' >= y /\ first' \in Int /\ y \in Int
      BY <1>1, <1>4, <1>6
    <3>4. QED
      BY <1>1, <1>5, <2>7, <3>1, <3>2, <3>3
  <2>8. CASE y <= i
    <3>1. y \in 1 .. n
      BY <1>1, <1>4, <2>8
    <3>2. saved'[y] <= saved'[i] /\ saved'[y] \in Nat /\ saved'[i] \in Nat
      BY <1>1, <2>1, <2>8, <3>1
    <3>3. Period > 0 => now - saved'[i] <= Period
      BY <1>1, <1>4, <1>5, <3>1, <3>2
    <3>4. i >= first' <=> (Count > 0 => i > n - Count)
      BY <1>1, <1>4, <1>5, <1>6, <2>5, <2>8, <3>1
    <3>5. QED
      BY <3>3, <3>4
  <2>9. QED
    BY <1>1, <1>4, <2>6, <2>7, <2>8
<1>9. QED
  BY <1>7, <1>8 DEF RetentionIsExact, n

-----------------------------------------------------------------------------
(* Answers.                                                                *)

\* results[:m] are some of the results, those before the others, and at least
\* the first.
LEMMA FirstsFacts ==
    ASSUME NEW n \in Nat, NEW S \in SUBSET (1 .. n), NEW m \in Nat \ {0}, NEW down \in BOOLEAN
    PROVE  /\ Firsts(S, m, down) \subseteq S
           /\ \A i \in Firsts(S, m, down), j \in S \ Firsts(S, m, down) : Before(down, i, j)
           /\ \A i \in S : (\A j \in S : j = i) => i \in Firsts(S, m, down)
<1> DEFINE P(i) == {j \in S : Before(down, j, i)}
<1>1. Firsts(S, m, down) = {i \in S : Cardinality(P(i)) < m}
  BY DEF Firsts
<1>2. \A i : IsFiniteSet(P(i)) /\ Cardinality(P(i)) \in Nat
  <2>1. IsFiniteSet(S)
    <3>1. IsFiniteSet(1 .. n)
      BY FS_Interval
    <3>2. QED
      BY <3>1, FS_Subset
  <2>2. \A i : P(i) \subseteq S
    OBVIOUS
  <2>3. QED
    BY <2>1, <2>2, FS_Subset, FS_CardinalityType
<1>3. \A i, j \in S : i # j => Before(down, i, j) \/ Before(down, j, i)
  BY DEF Before
<1>4. \A i, j \in S : Before(down, j, i) => Cardinality(P(j)) <= Cardinality(P(i))
  <2>1. SUFFICES ASSUME NEW i \in S, NEW j \in S, Before(down, j, i)
        PROVE  Cardinality(P(j)) <= Cardinality(P(i))
    OBVIOUS
  <2>2. P(j) \subseteq P(i)
    <3>1. \A k \in S : Before(down, k, j) => Before(down, k, i)
      <4>1. i \in Int /\ j \in Int /\ \A k \in S : k \in Int
        OBVIOUS
      <4>2. CASE down
        BY <2>1, <4>1, <4>2 DEF Before
      <4>3. CASE ~down
        BY <2>1, <4>1, <4>3 DEF Before
      <4>4. QED
        BY <4>2, <4>3
    <3>2. QED
      BY <3>1
  <2> HIDE DEF P
  <2>3. QED
    BY <1>2, <2>2, FS_Subset
<1>5. ASSUME NEW i \in S, \A j \in S : j = i PROVE Cardinality(P(i)) = 0
  <2>1. P(i) = {}
    <3>1. i \in Int /\ ~Before(down, i, i)
      BY DEF Before
    <3>2. QED
      BY <1>5, <3>1
  <2>2. QED
    BY <2>1, FS_EmptySet
<1> HIDE DEF P
<1>6. \A i \in Firsts(S, m, down), j \in S \ Firsts(S, m, down) : Before(down, i, j)
  <2>1. SUFFICES ASSUME NEW i \in S, Cardinality(P(i)) < m,
                        NEW j \in S, ~(Cardinality(P(j)) < m), Before(down, j, i)
        PROVE  FALSE
    <3>1. \A i, j \in S : Cardinality(P(i)) < m /\ ~(Cardinality(P(j)) < m) => i # j
      OBVIOUS
    <3>2. QED
      BY <1>1, <1>3, <2>1, <3>1
  <2>2. Cardinality(P(j)) <= Cardinality(P(i))
    BY <1>4, <2>1
  <2>3. QED
    BY <1>2, <2>1, <2>2
<1>7. \A i \in S : (\A j \in S : j = i) => Cardinality(P(i)) < m
  BY <1>5
<1>8. QED
  BY <1>1, <1>6, <1>7

\* A page are the first of the values that were selected; the continuation
\* point is the time of the next, and there is none if the page has them all.
LEMMA AnswerFacts ==
    ASSUME HistoryAssumption, TypeOK, NEW start \in Times \cup {Epoch},
           NEW end \in Times \cup {Epoch}, NEW num \in Nat
    PROVE  /\ Answer(start, end, num).values \subseteq Selected(start, end)
           /\ \/ Answer(start, end, num).cont = Epoch
              \/ \E i \in Selected(start, end) :
                    /\ Answer(start, end, num).cont = saved[i]
                    /\ \A j \in Answer(start, end, num).values : Before(Down(start, end), j, i)
                    /\ num = 0 => \A j \in Selected(start, end) \ Answer(start, end, num).values :
                                      j = i \/ Before(Down(start, end), i, j)
           /\ Answer(start, end, num).cont = Epoch /\ num = 0
                 => Answer(start, end, num).values = Selected(start, end)
           /\ (\A i, j \in Selected(start, end) : i = j) => Answer(start, end, num).cont = Epoch
<1> DEFINE down == Down(start, end)
           all == Selected(start, end)
           some == IF num > 0 THEN Firsts(all, num, down) ELSE all
           page == Firsts(some, PageSize, down)
           rest == some \ page
           next == CHOOSE i \in rest : \A j \in rest \ {i} : Before(down, i, j)
<1>1. /\ Answer(start, end, num).values = page
      /\ Answer(start, end, num).cont = IF rest = {} THEN Epoch ELSE saved[next]
  BY DEF Answer
<1>2. down \in BOOLEAN /\ PageSize \in Nat \ {0} /\ Len(saved) \in Nat
  BY DEF Down, HistoryAssumption, TypeOK
<1>3. all \in SUBSET (1 .. Len(saved))
  BY <1>2 DEF Selected, Stored, TypeOK
<1>4. \A i \in 1 .. Len(saved) : saved[i] \in Times /\ saved[i] # Epoch
  <2>1. saved \in Seq(Times)
    BY DEF TypeOK
  <2>2. QED
    BY <2>1 DEF Times, Epoch, HistoryAssumption
<1> HIDE DEF down, all
<1>5. some \subseteq all /\ (num = 0 => some = all)
  <2>1. CASE num > 0
    <3>1. some = Firsts(all, num, down) /\ num # 0 /\ num \in Nat \ {0}
      BY <2>1
    <3>2. Firsts(all, num, down) \subseteq all
      BY <1>2, <1>3, <3>1, FirstsFacts
    <3>3. QED
      BY <3>1, <3>2
  <2>2. CASE num = 0
    BY <2>2
  <2>3. num > 0 \/ num = 0
    OBVIOUS
  <2>4. QED
    BY <2>1, <2>2, <2>3
<1> HIDE DEF some
<1>6. some \in SUBSET (1 .. Len(saved))
  BY <1>3, <1>5
<1>7. /\ page \subseteq some /\ \A i \in page, j \in rest : Before(down, i, j)
      /\ \A i \in some : (\A j \in some : j = i) => i \in page
  BY <1>2, <1>6, FirstsFacts
<1> HIDE DEF page
<1>8. rest # {} => next \in rest /\ \A j \in rest \ {next} : Before(down, next, j)
  <2>1. SUFFICES ASSUME rest # {}
        PROVE  \E i \in rest : \A j \in rest \ {i} : Before(down, i, j)
    OBVIOUS
  <2>2. rest \subseteq 1 .. Len(saved) /\ rest \subseteq Nat
    <3>1. rest \subseteq some /\ some \subseteq 1 .. Len(saved)
      BY <1>6
    <3>2. 1 .. Len(saved) \subseteq Nat
      BY <1>2
    <3>3. QED
      BY <3>1, <3>2
  <2> HIDE DEF rest
  <2>3. CASE down
    <3>1. PICK i \in rest : \A j \in rest : j <= i
      BY <1>2, <2>1, <2>2, LastNumber
    <3>2. QED
      BY <2>2, <2>3, <3>1 DEF Before
  <2>4. CASE ~down
    <3>1. PICK i \in rest : \A j \in rest : i <= j
      BY <2>1, <2>2, FirstNumber
    <3>2. QED
      BY <2>2, <2>4, <3>1 DEF Before
  <2>5. QED
    BY <2>3, <2>4
<1> HIDE DEF next
<1>9. page \subseteq all /\ rest \subseteq all
  BY <1>5, <1>7
<1>10. CASE rest = {}
  <2>1. page = some
    BY <1>7, <1>10
  <2>2. QED
    BY <1>1, <1>5, <1>9, <1>10, <2>1 DEF all
<1>11. CASE rest # {}
  <2>1. next \in rest /\ next \in all /\ saved[next] # Epoch
    BY <1>3, <1>4, <1>8, <1>9, <1>11
  <2>2. \A j \in page : Before(down, j, next)
    BY <1>7, <2>1
  <2>3. num = 0 => \A j \in all \ page : j = next \/ Before(down, next, j)
    BY <1>5, <1>8, <1>11
  <2>4. ~(\A i, j \in all : i = j)
    BY <1>5, <1>7, <2>1
  <2>5. Answer(start, end, num).values = page /\ Answer(start, end, num).cont = saved[next]
    BY <1>1, <1>11
  <2>6. QED
    BY <1>9, <2>1, <2>2, <2>3, <2>4, <2>5 DEF all, down
<1>12. QED
  BY <1>10, <1>11

-----------------------------------------------------------------------------
(* Reading.                                                                *)

\* What a page contains, and where the next one begins.
LEMMA AnswerRange ==
    ASSUME HistoryAssumption, TypeOK, NEW start \in Times \cup {Epoch},
           NEW end \in Times \cup {Epoch}, NEW num \in Nat
    PROVE  /\ Answer(start, end, num).values \subseteq Selected(start, end)
           /\ \/ Answer(start, end, num).cont = Epoch
              \/ \E i \in Selected(start, end) : Answer(start, end, num).cont = saved[i]
<1>1. /\ Answer(start, end, num).values \subseteq Selected(start, end)
      /\ \/ Answer(start, end, num).cont = Epoch
         \/ \E i \in Selected(start, end) :
               /\ Answer(start, end, num).cont = saved[i]
               /\ \A j \in Answer(start, end, num).values : Before(Down(start, end), j, i)
               /\ num = 0 => \A j \in Selected(start, end) \ Answer(start, end, num).values :
                                 j = i \/ Before(Down(start, end), i, j)
  BY AnswerFacts
<1>2. QED
  BY <1>1

\* The type of a read, and of the times of the values.
LEMMA ReadTypes ==
    ASSUME HistoryAssumption, TypeOK
    PROVE  /\ read.on \in BOOLEAN /\ read.num \in Nat
           /\ read.start \in Times \cup {Epoch} /\ read.end \in Times \cup {Epoch}
           /\ read.from \in Times \cup {Epoch}
           /\ read.start \in Nat /\ read.end \in Nat /\ read.from \in Nat
           /\ read.got \in Seq(SUBSET (1 .. Len(saved))) /\ read.kept \subseteq 1 .. Len(saved)
           /\ Len(saved) \in Nat /\ Stored \subseteq 1 .. Len(saved)
           /\ \A i \in 1 .. Len(saved) : saved[i] \in Times /\ saved[i] \in Nat /\ saved[i] # Epoch
           /\ Got \subseteq 1 .. Len(saved)
<1>1. /\ read.on \in BOOLEAN /\ read.num \in Limits \cup {0}
      /\ read.start \in Times \cup {Epoch} /\ read.end \in Times \cup {Epoch}
      /\ read.from \in Times \cup {Epoch}
      /\ read.got \in Seq(SUBSET (1 .. Len(saved))) /\ read.kept \subseteq 1 .. Len(saved)
  BY DEF TypeOK
<1>2. read.num \in Nat /\ Times \subseteq Nat /\ Epoch \in Nat /\ Epoch \notin Times
  <2>1. Limits \subseteq Nat /\ MaxTime \in Nat
    BY DEF HistoryAssumption
  <2>2. read.num \in Nat
    <3>1. read.num \in Limits \cup {0}
      BY <1>1
    <3>2. 0 \in Nat
      OBVIOUS
    <3>3. \A m : m \in Limits \cup {0} => m \in Nat
      BY <2>1, <3>2
    <3>4. QED
      BY <3>1, <3>3
  <2>3. QED
    BY <2>1, <2>2 DEF Times, Epoch
<1>3. saved \in Seq(Times) /\ Len(saved) \in Nat /\ Stored \subseteq 1 .. Len(saved)
  BY DEF TypeOK, Stored
<1>4. \A i \in 1 .. Len(saved) : saved[i] \in Times
  BY <1>3, ElementOfSeq
<1>5. Got \subseteq 1 .. Len(saved)
  <2>1. \A k \in DOMAIN read.got : read.got[k] \subseteq 1 .. Len(saved)
    BY <1>1
  <2>2. QED
    BY <2>1 DEF Got
<1>6. QED
  BY <1>1, <1>2, <1>3, <1>4, <1>5

\* With times in their order, numbers have the order of times.
LEMMA OrderFacts ==
    ASSUME HistoryAssumption, TypeOK, Ordered
    PROVE  \A i, j \in 1 .. Len(saved) :
              /\ i < j <=> saved[i] < saved[j]
              /\ i = j <=> saved[i] = saved[j]
<1>1. DOMAIN saved = 1 .. Len(saved) /\ Len(saved) \in Nat
  BY DEF TypeOK
<1>2. \A i, j \in 1 .. Len(saved) : i < j => saved[i] < saved[j]
  BY <1>1 DEF Ordered
<1>3. \A i \in 1 .. Len(saved) : saved[i] \in Nat
  BY ReadTypes
<1>4. SUFFICES ASSUME NEW i \in 1 .. Len(saved), NEW j \in 1 .. Len(saved)
      PROVE  /\ i < j <=> saved[i] < saved[j]
             /\ i = j <=> saved[i] = saved[j]
  OBVIOUS
<1>5. CASE i < j
  BY <1>1, <1>2, <1>3, <1>5
<1>6. CASE i = j
  BY <1>1, <1>3, <1>6
<1>7. CASE j < i
  BY <1>1, <1>2, <1>3, <1>7
<1>8. QED
  BY <1>1, <1>5, <1>6, <1>7

\* A page of a read that is under way, in terms of times: it has values of
\* the range that are not passed, and passes exactly what is on it.
LEMMA PageOfRead ==
    ASSUME HistoryAssumption, TypeOK, Ordered, read.start # Epoch, read.on, Halfway
    PROVE  LET answer == Answer(read.from, read.end, read.num)
               down == Down(read.start, read.end)
           IN /\ answer.values \subseteq Stored
              /\ \A i \in answer.values : ~Passed(saved[i])
              /\ \/ answer.cont = Epoch
                 \/ /\ answer.cont \in Times /\ InRange(answer.cont)
                    /\ IF down THEN answer.cont <= read.from ELSE read.from <= answer.cont
                    /\ \A i \in answer.values :
                          IF down THEN saved[i] > answer.cont ELSE saved[i] < answer.cont
                    /\ read.num = 0 =>
                          \A i \in Stored : /\ InRange(saved[i]) /\ ~Passed(saved[i])
                                            /\ IF down THEN saved[i] > answer.cont
                                                       ELSE saved[i] < answer.cont
                                            => i \in answer.values
              /\ answer.cont = Epoch /\ read.num = 0 =>
                    \A i \in Stored : InRange(saved[i]) /\ ~Passed(saved[i]) => i \in answer.values
<1> DEFINE answer == Answer(read.from, read.end, read.num)
           down == Down(read.start, read.end)
           going == Down(read.from, read.end)
           all == Selected(read.from, read.end)
<1>1. /\ read.from # Epoch /\ InRange(read.from)
      /\ read.start \in Nat /\ read.end \in Nat /\ read.from \in Nat
      /\ Stored \subseteq 1 .. Len(saved) /\ Epoch \in Nat
      /\ \A i \in 1 .. Len(saved) : saved[i] \in Times /\ saved[i] \in Nat
  BY ReadTypes DEF Halfway, Epoch
<1>2. all \subseteq Stored
  BY DEF Selected
<1>3. \A i \in Stored : i \in all <=> InRange(saved[i]) /\ ~Passed(saved[i])
  <2>1. SUFFICES ASSUME NEW i \in Stored
        PROVE  i \in all <=> InRange(saved[i]) /\ ~Passed(saved[i])
    OBVIOUS
  <2>2. saved[i] \in Nat
    BY <1>1
  <2>3. i \in all <=> \/ read.end = Epoch /\ read.from <= saved[i]
                      \/ read.end # Epoch /\ saved[i] \in (read.from .. read.end) \cup (read.end .. read.from)
    BY <1>1 DEF Selected
  <2>4. CASE down
    <3>1. read.end # Epoch /\ read.end <= read.from /\ read.from <= read.start
      BY <1>1, <2>4 DEF InRange, Down
    <3>2. i \in all <=> read.end <= saved[i] /\ saved[i] <= read.from
      BY <1>1, <2>2, <2>3, <3>1
    <3>3. QED
      BY <1>1, <2>2, <2>4, <3>1, <3>2 DEF InRange, Passed
  <2>5. CASE ~down
    <3>1. read.start <= read.from /\ (read.end = Epoch \/ read.from <= read.end)
      BY <1>1, <2>5 DEF InRange
    <3>2. i \in all <=> read.from <= saved[i] /\ (read.end = Epoch \/ saved[i] <= read.end)
      BY <1>1, <2>2, <2>3, <3>1
    <3>3. QED
      BY <1>1, <2>2, <2>5, <3>1, <3>2 DEF InRange, Passed
  <2>6. QED
    BY <2>4, <2>5
<1>4. /\ answer.values \subseteq all
      /\ \/ answer.cont = Epoch
         \/ \E i \in all :
               /\ answer.cont = saved[i]
               /\ \A j \in answer.values : Before(going, j, i)
               /\ read.num = 0 => \A j \in all \ answer.values : j = i \/ Before(going, i, j)
      /\ answer.cont = Epoch /\ read.num = 0 => answer.values = all
      /\ (\A i, j \in all : i = j) => answer.cont = Epoch
  <2>1. /\ read.from \in Times \cup {Epoch} /\ read.end \in Times \cup {Epoch} /\ read.num \in Nat
    BY ReadTypes
  <2>2. QED
    BY <2>1, AnswerFacts
<1> HIDE DEF answer, all, going
<1>5. answer.cont # Epoch => going = down
  <2>1. CASE ~down
    <3>1. read.end = Epoch \/ read.from <= read.end
      BY <1>1, <2>1 DEF InRange
    <3>2. QED
      BY <1>1, <2>1, <3>1 DEF Down, going
  <2>2. CASE down /\ read.from # read.end
    <3>1. read.end # Epoch /\ read.end <= read.from
      BY <1>1, <2>2 DEF InRange, Down
    <3>2. QED
      BY <1>1, <2>2, <3>1 DEF Down, going
  <2>3. CASE down /\ read.from = read.end
    <3>1. \A i \in all : saved[i] = read.from
      <4>1. \A i \in all : InRange(saved[i]) /\ ~Passed(saved[i]) /\ saved[i] \in Nat
        BY <1>1, <1>2, <1>3
      <4>2. QED
        BY <1>1, <2>3, <4>1 DEF InRange, Passed
    <3>2. \A i, j \in all : i \in 1 .. Len(saved) /\ j \in 1 .. Len(saved) /\ saved[i] = saved[j]
      BY <1>1, <1>2, <3>1
    <3>3. \A i, j \in all : i = j
      BY <3>2, OrderFacts
    <3>4. QED
      BY <1>4, <3>3
  <2>4. QED
    BY <2>1, <2>2, <2>3
<1>6. answer.values \subseteq Stored /\ \A i \in answer.values : ~Passed(saved[i])
  BY <1>2, <1>3, <1>4
<1>7. CASE answer.cont = Epoch
  BY <1>3, <1>4, <1>6, <1>7 DEF answer
<1>8. CASE answer.cont # Epoch
  <2>1. PICK i \in all :
           /\ answer.cont = saved[i]
           /\ \A j \in answer.values : Before(down, j, i)
           /\ read.num = 0 => \A j \in all \ answer.values : j = i \/ Before(down, i, j)
    BY <1>4, <1>5, <1>8
  <2>2. /\ i \in 1 .. Len(saved) /\ i \in Stored /\ InRange(saved[i]) /\ ~Passed(saved[i])
        /\ saved[i] \in Times /\ saved[i] \in Nat
    BY <1>1, <1>2, <1>3
  <2>3. \A j \in Stored : j \in 1 .. Len(saved) /\ j \in Nat /\ saved[j] \in Nat
    BY <1>1
  <2>4. \A j \in Stored : /\ j < i <=> saved[j] < saved[i] 
                          /\ i < j <=> saved[i] < saved[j]
                          /\ j = i <=> saved[j] = saved[i]
    BY <2>2, <2>3, OrderFacts
  <2>5. IF down THEN saved[i] <= read.from ELSE read.from <= saved[i]
    BY <1>1, <2>2 DEF Passed
  <2>6. \A j \in answer.values : IF down THEN saved[j] > saved[i] ELSE saved[j] < saved[i]
    <3>1. \A j \in answer.values : j \in Stored /\ Before(down, j, i)
      BY <1>6, <2>1
    <3>2. CASE down
      BY <2>2, <2>3, <2>4, <3>1, <3>2 DEF Before
    <3>3. CASE ~down
      BY <2>2, <2>3, <2>4, <3>1, <3>3 DEF Before
    <3>4. QED
      BY <3>2, <3>3
  <2>7. ASSUME read.num = 0, NEW j \in Stored, InRange(saved[j]), ~Passed(saved[j]),
               IF down THEN saved[j] > saved[i] ELSE saved[j] < saved[i]
        PROVE  j \in answer.values
    <3>1. SUFFICES ASSUME j \notin answer.values PROVE FALSE
      OBVIOUS
    <3>2. j \in all
      BY <1>3, <2>7
    <3>3. j = i \/ Before(down, i, j)
      BY <2>1, <2>7, <3>1, <3>2
    <3>4. CASE down
      BY <2>2, <2>3, <2>4, <2>7, <3>3, <3>4 DEF Before
    <3>5. CASE ~down
      BY <2>2, <2>3, <2>4, <2>7, <3>3, <3>5 DEF Before
    <3>6. QED
      BY <3>4, <3>5
  <2> HIDE DEF down
  <2>8. QED
    BY <1>6, <1>8, <2>1, <2>2, <2>5, <2>6, <2>7 DEF answer, down
<1>9. QED
  BY <1>7, <1>8

\* What a page does to the read.
LEMMA PageFacts ==
    ASSUME HistoryAssumption, TypeOK, Page
    PROVE  LET answer == Answer(read.from, read.end, read.num)
           IN /\ read.on /\ read'.start = read.start /\ read'.end = read.end
              /\ read'.num = read.num /\ read'.from = answer.cont
              /\ read'.on = (answer.cont # Epoch /\ read.num = 0)
              /\ read'.kept = read.kept \cap Stored
              /\ read'.got = Append(read.got, answer.values)
              /\ answer.values \in SUBSET (1 .. Len(saved)) /\ answer.cont \in Times \cup {Epoch}
              /\ TypeOK'
<1> DEFINE answer == Answer(read.from, read.end, read.num)
           Rec == [on : BOOLEAN, start : Times \cup {Epoch}, end : Times \cup {Epoch},
                   num : Limits \cup {0}, from : Times \cup {Epoch},
                   got : Seq(SUBSET (1 .. Len(saved))), kept : SUBSET (1 .. Len(saved))]
<1>1. read \in Rec
  BY DEF TypeOK
<1>2. answer.values \in SUBSET (1 .. Len(saved)) /\ answer.cont \in Times \cup {Epoch}
  <2>1. /\ read.from \in Times \cup {Epoch} /\ read.end \in Times \cup {Epoch} /\ read.num \in Nat
        /\ Stored \subseteq 1 .. Len(saved) /\ \A i \in 1 .. Len(saved) : saved[i] \in Times
    BY ReadTypes
  <2>2. Selected(read.from, read.end) \subseteq 1 .. Len(saved)
    BY <2>1 DEF Selected
  <2>3. /\ answer.values \subseteq Selected(read.from, read.end)
        /\ answer.cont = Epoch \/ \E i \in Selected(read.from, read.end) : answer.cont = saved[i]
    BY <2>1, AnswerRange
  <2> HIDE DEF answer
  <2>4. QED
    BY <2>1, <2>2, <2>3
<1>3. read' = [read EXCEPT !.got = Append(read.got, answer.values),
                           !.kept = read.kept \cap Stored, !.from = answer.cont,
                           !.on = answer.cont # Epoch /\ read.num = 0]
  BY DEF Page
<1>4. read.on /\ UNCHANGED <<now, saved, at, first>>
  BY DEF Page
<1> HIDE DEF answer
<1>5. /\ read'.start = read.start /\ read'.end = read.end
      /\ read'.num = read.num /\ read'.from = answer.cont
      /\ read'.on = (answer.cont # Epoch /\ read.num = 0)
      /\ read'.kept = read.kept \cap Stored
      /\ read'.got = Append(read.got, answer.values)
  BY <1>1, <1>3
<1>6. Append(read.got, answer.values) \in Seq(SUBSET (1 .. Len(saved)))
  BY <1>1, <1>2, AppendProperties
<1>7. read' \in Rec
  BY <1>1, <1>2, <1>3, <1>6
<1>8. TypeOK'
  BY <1>4, <1>7 DEF TypeOK
<1>9. QED
  BY <1>2, <1>4, <1>5, <1>8 DEF answer

\* A page keeps what was got complete up to the continuation point.
LEMMA PagePreserves ==
    ASSUME HistoryAssumption, TypeOK, ReadInv, Page
    PROVE  ReadInv'
<1> DEFINE answer == Answer(read.from, read.end, read.num)
           down == Down(read.start, read.end)
           v == answer.values
           n == Len(read.got)
<1>1. /\ read.on /\ read'.start = read.start /\ read'.end = read.end
      /\ read'.num = read.num /\ read'.from = answer.cont
      /\ read'.on = (answer.cont # Epoch /\ read.num = 0)
      /\ read'.kept = read.kept \cap Stored
      /\ read'.got = Append(read.got, v)
      /\ v \in SUBSET (1 .. Len(saved))
  BY PageFacts
<1>2. saved' = saved
  BY DEF Page
<1>3. SUFFICES ASSUME Ordered, read.start # Epoch
      PROVE  Halfway' /\ Paged' /\ Ended'
  BY <1>1, <1>2 DEF ReadInv, Ordered
<1>4. Halfway /\ Paged
  BY <1>3 DEF ReadInv
<1>5. /\ v \subseteq Stored /\ \A i \in v : ~Passed(saved[i])
      /\ \/ answer.cont = Epoch
         \/ /\ answer.cont \in Times /\ InRange(answer.cont)
            /\ IF down THEN answer.cont <= read.from ELSE read.from <= answer.cont
            /\ \A i \in v : IF down THEN saved[i] > answer.cont ELSE saved[i] < answer.cont
            /\ read.num = 0 =>
                  \A i \in Stored : /\ InRange(saved[i]) /\ ~Passed(saved[i])
                                    /\ IF down THEN saved[i] > answer.cont
                                               ELSE saved[i] < answer.cont
                                    => i \in v
      /\ answer.cont = Epoch /\ read.num = 0 =>
            \A i \in Stored : InRange(saved[i]) /\ ~Passed(saved[i]) => i \in v
  BY <1>1, <1>3, <1>4, PageOfRead
<1>6. /\ read.got \in Seq(SUBSET (1 .. Len(saved))) /\ n \in Nat /\ DOMAIN read.got = 1 .. n
      /\ Got \subseteq 1 .. Len(saved) /\ read.from \in Nat /\ read.kept \subseteq 1 .. Len(saved)
      /\ \A i \in 1 .. Len(saved) : saved[i] \in Nat
      /\ Times \subseteq Nat /\ Stored \subseteq 1 .. Len(saved)
  BY ReadTypes DEF Times, HistoryAssumption
<1> HIDE DEF answer, v
<1>7. /\ DOMAIN read'.got = 1 .. n + 1 /\ read'.got[n + 1] = v
      /\ \A k \in 1 .. n : read'.got[k] = read.got[k]
  <2>1. /\ Len(Append(read.got, v)) = n + 1 /\ Append(read.got, v)[n + 1] = v
        /\ \A k \in 1 .. n : Append(read.got, v)[k] = read.got[k]
        /\ Append(read.got, v) \in Seq(SUBSET (1 .. Len(saved)))
    BY <1>1, <1>6, AppendProperties
  <2>2. QED
    BY <1>1, <2>1
<1> HIDE DEF n
<1>8. Got' = Got \cup v
  <2>1. \A i : i \in Got' <=> \E k \in 1 .. n + 1 : i \in read'.got[k]
    BY <1>7 DEF Got
  <2>2. \A i : i \in Got <=> \E k \in 1 .. n : i \in read.got[k]
    BY <1>6 DEF Got
  <2>3. 1 .. n + 1 = 1 .. n \cup {n + 1}
    BY <1>6
  <2>4. QED
    BY <1>7, <2>1, <2>2, <2>3
<1>9. (\A t : InRange(t)' <=> InRange(t)) /\ (Down(read.start, read.end)' <=> down)
  BY <1>1 DEF InRange, Down
<1>10. \A i \in Got : Passed(saved[i])
  BY <1>1, <1>4 DEF Halfway
<1>11. Paged'
  <2>1. \A i \in read'.kept : InRange(saved[i])'
    BY <1>1, <1>4, <1>9, <1>2 DEF Paged
  <2>2. \A i \in Got, j \in v : Before(down, i, j)
    <3>1. SUFFICES ASSUME NEW i \in Got, NEW j \in v PROVE Before(down, i, j)
      OBVIOUS
    <3>2. Passed(saved[i]) /\ ~Passed(saved[j]) /\ saved[i] \in Nat /\ saved[j] \in Nat
      BY <1>1, <1>5, <1>6, <1>10
    <3>3. i \in 1 .. Len(saved) /\ j \in 1 .. Len(saved) /\ i \in Nat /\ j \in Nat
      BY <1>1, <1>6
    <3>4. /\ i < j <=> saved[i] < saved[j] 
          /\ j < i <=> saved[j] < saved[i]
      BY <1>3, <3>3, OrderFacts
    <3>5. IF down THEN saved[j] < saved[i] ELSE saved[i] < saved[j]
      BY <1>6, <3>2 DEF Passed
    <3> HIDE DEF down
    <3>6. QED
      BY <3>3, <3>4, <3>5 DEF Before
  <2>3. \A k \in 1 .. n : read.got[k] \subseteq Got
    BY <1>6 DEF Got
  <2>4. \A k, m \in 1 .. n : k < m =>
           \A i \in read.got[k], j \in read.got[m] : Before(down, i, j)
    BY <1>4, <1>6 DEF Paged
  <2>5. \A k, m \in 1 .. n + 1 : k < m =>
           k \in 1 .. n /\ (m \in 1 .. n \/ m = n + 1)
    BY <1>6
  <2>6. \A k, m \in 1 .. n + 1 : k < m =>
           \A i \in read'.got[k], j \in read'.got[m] : Before(down, i, j)
    BY <1>7, <2>2, <2>3, <2>4, <2>5
  <2> HIDE DEF down
  <2>7. \A i, j : Before(Down(read.start, read.end), i, j)' <=> Before(down, i, j)
    BY <1>9 DEF Before
  <2>8. QED
    BY <1>2, <1>7, <2>1, <2>6, <2>7 DEF Paged
<1>12. Ended'
  <2>1. SUFFICES ASSUME answer.cont = Epoch, read.num = 0 PROVE read.kept \cap Stored \subseteq Got \cup v
    <3>1. ~read'.on /\ read'.num = 0 => answer.cont = Epoch /\ read.num = 0
      BY <1>1
    <3>2. QED
      BY <1>1, <1>8, <2>1, <3>1 DEF Ended
  <2>2. SUFFICES ASSUME NEW i \in read.kept \cap Stored, ~Passed(saved[i]) PROVE i \in v
    BY <1>1, <1>4, <2>1 DEF Halfway
  <2>3. InRange(saved[i])
    BY <1>4 DEF Paged
  <2>4. QED
    BY <1>5, <2>1, <2>2, <2>3
<1>13. Halfway'
  <2>1. SUFFICES ASSUME answer.cont # Epoch, read.num = 0
        PROVE  /\ read'.from # Epoch /\ InRange(read'.from)
               /\ \A i \in Got \cup v : Passed(saved[i])'
               /\ \A i \in read.kept \cap Stored : Passed(saved[i])' => i \in Got \cup v
    <3>1. read'.on => answer.cont # Epoch /\ read.num = 0
      BY <1>1
    <3>2. InRange(read.from)' <=> InRange(read'.from)
      BY <1>1 DEF InRange, Down
    <3>3. QED
      BY <1>1, <1>8, <2>1, <3>1, <3>2, <1>2 DEF Halfway
  <2>2. \A i : Passed(saved[i])' <=> IF down THEN saved[i] > answer.cont ELSE saved[i] < answer.cont
    BY <1>1, <1>2, <1>9 DEF Passed
  <2>3. /\ answer.cont \in Nat /\ InRange(answer.cont)
        /\ IF down THEN answer.cont <= read.from ELSE read.from <= answer.cont
        /\ \A i \in v : IF down THEN saved[i] > answer.cont ELSE saved[i] < answer.cont
    BY <1>5, <1>6, <2>1
  <2>4. \A i \in Got : IF down THEN saved[i] > answer.cont ELSE saved[i] < answer.cont
    BY <1>6, <1>10, <2>3 DEF Passed
  <2>5. \A i \in read.kept \cap Stored : Passed(saved[i])' => i \in Got \cup v
    <3>1. SUFFICES ASSUME NEW i \in read.kept \cap Stored, Passed(saved[i])', ~Passed(saved[i])
          PROVE  i \in v
      BY <1>1, <1>4, <2>1 DEF Halfway
    <3>2. InRange(saved[i])
      BY <1>4 DEF Paged
    <3>3. IF down THEN saved[i] > answer.cont ELSE saved[i] < answer.cont
      BY <2>2, <3>1
    <3> HIDE DEF down
    <3>4. QED
      BY <1>5, <2>1, <3>1, <3>2, <3>3
  <2>6. QED
    BY <1>1, <2>1, <2>2, <2>3, <2>4, <2>5
<1>14. QED
  BY <1>11, <1>12, <1>13

\* Values that are added or evicted during a read change nothing about it.
LEMMA SavePreserves ==
    ASSUME HistoryAssumption, TypeOK, RetentionIsExact, ReadInv, NEW stamp \in Times, Save(stamp)
    PROVE  TypeOK' /\ ReadInv'
<1>1. /\ now \in Nat /\ at \in Nat /\ at <= now /\ Len(saved) \in Nat
      /\ saved' \in Seq(Times) /\ Len(saved') = Len(saved) + 1
      /\ \A i \in 1 .. Len(saved) : saved'[i] = saved[i]
      /\ DOMAIN saved = 1 .. Len(saved) /\ DOMAIN saved' = 1 .. Len(saved')
      /\ first \in 1 .. Len(saved) + 1
  BY SaveFacts
<1>2. read' = read /\ now' = now /\ at' = now
  BY DEF Save
<1>3. TypeOK'
  <2>1. first' \in 1 .. Len(saved') + 1
    <3>1. first' \in first .. Len(saved') + 1
      BY SaveRetains
    <3>2. QED
      BY <1>1, <3>1
  <2>2. Seq(SUBSET (1 .. Len(saved))) \subseteq Seq(SUBSET (1 .. Len(saved')))
    <3>1. SUBSET (1 .. Len(saved)) \subseteq SUBSET (1 .. Len(saved'))
      BY <1>1
    <3>2. QED
      BY <3>1, SeqMonotonic
  <2>3. read.kept \in SUBSET (1 .. Len(saved'))
    BY <1>1, ReadTypes
  <2>4. read.got \in Seq(SUBSET (1 .. Len(saved')))
    BY <2>2, ReadTypes
  <2>5. read' \in [on : BOOLEAN, start : Times \cup {Epoch}, end : Times \cup {Epoch},
                   num : Limits \cup {0}, from : Times \cup {Epoch},
                   got : Seq(SUBSET (1 .. Len(saved'))), kept : SUBSET (1 .. Len(saved'))]
    BY <1>2, <2>3, <2>4 DEF TypeOK
  <2>6. now' \in Times /\ at' \in 0 .. now'
    BY <1>1, <1>2 DEF TypeOK
  <2>7. QED
    BY <1>1, <2>1, <2>5, <2>6 DEF TypeOK
<1>4. ReadInv'
  <2>1. SUFFICES ASSUME Ordered', read.start # Epoch
        PROVE  Halfway' /\ Paged' /\ Ended'
    BY <1>2 DEF ReadInv
  <2>2. Ordered
    <3>1. \A i, j \in 1 .. Len(saved') : i < j => saved'[i] < saved'[j]
      BY <1>1, <2>1 DEF Ordered
    <3>2. \A i \in 1 .. Len(saved) : i \in 1 .. Len(saved')
      BY <1>1
    <3>3. QED
      BY <1>1, <3>1, <3>2 DEF Ordered
  <2>3. Halfway /\ Paged /\ Ended
    BY <2>1, <2>2 DEF ReadInv
  <2>4. Got' = Got
    BY <1>2 DEF Got
  <2>5. /\ read.kept \subseteq 1 .. Len(saved) /\ Got \subseteq 1 .. Len(saved)
    BY ReadTypes
  <2>6. \A i \in 1 .. Len(saved) : /\ InRange(saved[i])' <=> InRange(saved[i])
                                   /\ Passed(saved[i])' <=> Passed(saved[i])
    BY <1>1, <1>2 DEF InRange, Passed, Down
  <2>7. InRange(read.from)' <=> InRange(read.from)
    BY <1>2 DEF InRange, Down
  <2>8. Halfway'
    BY <1>2, <2>3, <2>4, <2>5, <2>6, <2>7 DEF Halfway
  <2>9. Paged'
    <3>1. \A i \in read.kept : InRange(saved[i])'
      BY <2>3, <2>5, <2>6 DEF Paged
    <3>2. QED
      BY <1>2, <2>3, <3>1 DEF Paged, Before, Down
  <2>10. Ended'
    BY <1>2, <2>3, <2>4 DEF Ended
  <2>11. QED
    BY <2>8, <2>9, <2>10
<1>5. QED
  BY <1>3, <1>4

\* The start of a read has nothing to miss.
LEMMA BeginReadPreserves ==
    ASSUME HistoryAssumption, TypeOK, NEW start \in Times \cup {Epoch},
           NEW end \in Times \cup {Epoch}, NEW num \in Limits, BeginRead(start, end, num)
    PROVE  TypeOK' /\ ReadInv'
<1> DEFINE r == [on |-> TRUE, start |-> start, end |-> end, num |-> num,
                 from |-> start, got |-> << >>, kept |-> Selected(start, end)]
<1>1. read' = r /\ UNCHANGED <<now, saved, at, first>>
  BY DEF BeginRead, NoRead
<1>2. /\ Stored \subseteq 1 .. Len(saved) /\ Len(saved) \in Nat
      /\ \A i \in 1 .. Len(saved) : saved[i] \in Nat
  BY ReadTypes
<1>3. Selected(start, end) \in SUBSET (1 .. Len(saved))
  BY <1>2 DEF Selected
<1>4. TypeOK'
  <2>1. r \in [on : BOOLEAN, start : Times \cup {Epoch}, end : Times \cup {Epoch},
               num : Limits \cup {0}, from : Times \cup {Epoch},
               got : Seq(SUBSET (1 .. Len(saved))), kept : SUBSET (1 .. Len(saved))]
    BY <1>3
  <2> HIDE DEF r
  <2>2. QED
    BY <1>1, <2>1 DEF TypeOK
<1>5. /\ read'.on = TRUE /\ read'.start = start /\ read'.end = end /\ read'.num = num
      /\ read'.from = start /\ read'.got = << >> /\ read'.kept = Selected(start, end)
  BY <1>1
<1> HIDE DEF r
<1>6. ASSUME start # Epoch PROVE Halfway' /\ Paged' /\ Ended'
  <2>1. start \in Nat /\ end \in Nat
    BY DEF Times, Epoch, HistoryAssumption
  <2>2. Got' = {}
    BY <1>5 DEF Got
  <2>3. \A t : /\ InRange(t)' <=> IF Down(start, end) THEN end <= t /\ t <= start
                                  ELSE start <= t /\ (end = Epoch \/ t <= end)
               /\ Passed(t)' <=> IF Down(start, end) THEN t > start ELSE t < start
    BY <1>5 DEF InRange, Passed, Down
  <2>4. \A i \in Selected(start, end) : InRange(saved[i])' /\ ~Passed(saved[i])'
    <3>1. SUFFICES ASSUME NEW i \in Selected(start, end)
          PROVE  /\ IF Down(start, end) THEN end <= saved[i] /\ saved[i] <= start
                    ELSE start <= saved[i] /\ (end = Epoch \/ saved[i] <= end)
                 /\ ~(IF Down(start, end) THEN saved[i] > start ELSE saved[i] < start)
      BY <1>1, <2>3
    <3>2. saved[i] \in Nat
      BY <1>2, <1>3
    <3>3. \/ end = Epoch /\ start <= saved[i]
          \/ end # Epoch /\ saved[i] \in (start .. end) \cup (end .. start)
      BY <1>6 DEF Selected
    <3>4. CASE Down(start, end)
      <4>1. end # Epoch /\ start > end
        BY <1>6, <3>4 DEF Down
      <4>2. end <= saved[i] /\ saved[i] <= start
        BY <2>1, <3>2, <3>3, <4>1
      <4>3. QED
        BY <2>1, <3>2, <3>4, <4>2
    <3>5. CASE ~Down(start, end)
      <4>1. end = Epoch \/ start <= end
        BY <1>6, <2>1, <3>5 DEF Down
      <4>2. start <= saved[i] /\ (end = Epoch \/ saved[i] <= end)
        BY <2>1, <3>2, <3>3, <4>1
      <4>3. QED
        BY <2>1, <3>2, <3>5, <4>2
    <3>6. QED
      BY <3>4, <3>5
  <2>5. InRange(start)'
    BY <1>6, <2>1, <2>3 DEF Down
  <2>6. InRange(read.from)' <=> InRange(start)'
    BY <1>5 DEF InRange
  <2>7. Halfway'
    BY <1>5, <1>6, <2>2, <2>4, <2>5, <2>6 DEF Halfway
  <2>8. Paged'
    BY <1>5, <2>4 DEF Paged
  <2>9. Ended'
    BY <1>5 DEF Ended
  <2>10. QED
    BY <2>7, <2>8, <2>9
<1>7. ReadInv'
  BY <1>5, <1>6 DEF ReadInv
<1>8. QED
  BY <1>4, <1>7

-----------------------------------------------------------------------------
(* The theorems.                                                           *)

\* The initial state has the invariant.
LEMMA InvInit == HistoryAssumption /\ Init => Inv
<1> SUFFICES ASSUME HistoryAssumption, Init PROVE Inv
  OBVIOUS
<1>1. /\ read.on = FALSE /\ read.start = Epoch /\ read.end = Epoch /\ read.num = 0
      /\ read.from = Epoch /\ read.got = << >> /\ read.kept = {}
      /\ read = NoRead
  BY DEF Init, NoRead
<1>2. TypeOK
  <2>1. NoRead \in [on : BOOLEAN, start : Times \cup {Epoch}, end : Times \cup {Epoch},
               num : Limits \cup {0}, from : Times \cup {Epoch},
               got : Seq(SUBSET (1 .. Len(saved))), kept : SUBSET (1 .. Len(saved))]
    BY DEF NoRead
  <2>2. saved \in Seq(Times) /\ Len(saved) = 0
    BY DEF Init
  <2>3. now \in Times /\ at \in 0 .. now /\ first \in 1 .. Len(saved) + 1
    BY <2>2 DEF Init, Times, HistoryAssumption
  <2>4. QED
    BY <1>1, <2>1, <2>2, <2>3 DEF TypeOK
<1>3. RetentionIsExact
  <2>1. DOMAIN saved = {} /\ first .. Len(saved) = {}
    BY DEF Init
  <2>2. QED
    BY <2>1 DEF RetentionIsExact, Stored
<1>4. ReadInv
  BY <1>1 DEF ReadInv
<1>5. QED
  BY <1>2, <1>3, <1>4 DEF Inv

\* Every step keeps the invariant.
LEMMA InvNext == HistoryAssumption /\ Inv /\ [Next]_vars => Inv'
<1> SUFFICES ASSUME HistoryAssumption, Inv, [Next]_vars PROVE Inv'
  OBVIOUS
<1>1. TypeOK /\ RetentionIsExact /\ ReadInv
  BY DEF Inv
<1>2. ASSUME UNCHANGED <<saved, at, first>> PROVE RetentionIsExact'
  BY <1>1, <1>2 DEF RetentionIsExact, Stored, Ordered
<1>3. ASSUME UNCHANGED <<saved, read>> PROVE ReadInv'
  BY <1>1, <1>3 DEF ReadInv, Halfway, Paged, Ended, Ordered, Got, InRange, Passed, Before, Down
<1>4. CASE Tick
  <2>1. TypeOK'
    BY <1>1, <1>4 DEF Tick, TypeOK, Times, HistoryAssumption
  <2>2. QED
    BY <1>2, <1>3, <1>4, <2>1 DEF Tick, Inv
<1>5. CASE \E stamp \in Times : stamp \in now - MaxDelay .. now /\ Save(stamp)
  BY <1>1, <1>5, SaveRetains, SavePreserves DEF Inv
<1>6. CASE \E start, end \in Times \cup {Epoch}, num \in Limits : BeginRead(start, end, num)
  <2>1. PICK start \in Times \cup {Epoch}, end \in Times \cup {Epoch}, num \in Limits :
            BeginRead(start, end, num)
    BY <1>6
  <2>2. UNCHANGED <<saved, at, first>>
    BY <2>1 DEF BeginRead
  <2>3. QED
    BY <1>1, <1>2, <2>1, <2>2, BeginReadPreserves DEF Inv
<1>7. CASE Page
  <2>1. UNCHANGED <<saved, at, first>>
    BY <1>7 DEF Page
  <2>2. QED
    BY <1>1, <1>2, <1>7, <2>1, PageFacts, PagePreserves DEF Inv
<1>8. CASE UNCHANGED vars
  <2>1. TypeOK'
    BY <1>1, <1>8 DEF vars, TypeOK
  <2>2. QED
    BY <1>2, <1>3, <1>8, <2>1 DEF vars, Inv
<1>9. QED
  BY <1>4, <1>5, <1>6, <1>7, <1>8 DEF Next

\* The invariant holds throughout.
LEMMA Invariance == Spec => []Inv
BY InvInit, InvNext, HistoryAssumption, PTL DEF Spec

\* The list of HistoryDict and the loop of read_raw_history keep their shape.
THEOREM TypeCorrect == Spec => []TypeOK
<1>1. Inv => TypeOK
  BY DEF Inv
<1>2. QED
  BY <1>1, Invariance, PTL

\* save_node_value pops one value at most for the count and only from the
\* front for the period, and yet keeps exactly what was asked for.
THEOREM Retention == Spec => []RetentionIsExact
<1>1. Inv => RetentionIsExact
  BY DEF Inv
<1>2. QED
  BY <1>1, Invariance, PTL

\* A continuation point is only a time, and the server keeps nothing of a
\* read; read_raw_history without numvalues still ends with every value of the
\* range that was stored all along, and any read with values in order and none
\* twice, if a start is given and values are saved in the order of their
\* times, which are different.
THEOREM CompleteReads == Spec => []ReadIsComplete
<1>1. Inv => ReadIsComplete
  BY DEF Inv, ReadInv, Ended, Paged, Got, ReadIsComplete
<1>2. QED
  BY <1>1, Invariance, PTL

=============================================================================
