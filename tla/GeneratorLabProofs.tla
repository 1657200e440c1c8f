------------------------- MODULE GeneratorLabProofs -------------------------
(***************************************************************************)
(* The cursor of the Generator Lab is honest and repeats nothing, for any  *)
(* number of sources, seeds, schemes and faults.                           *)
(*                                                                         *)
(* A pair is passed when it comes before the cursor in lexicographic       *)
(* order.  One advance of the cursor passes the pair it was on and no      *)
(* other; the counters then follow the number of pairs and seeds passed.   *)
(* Nothing of this is lost when a copy of the state is written over        *)
(* another one, because it is a fact of each copy by itself.               *)
(***************************************************************************)
EXTENDS GeneratorLab, FiniteSetTheorems, TLAPS

-----------------------------------------------------------------------------
(***************************************************************************)
(* One advance of the cursor                                               *)
(***************************************************************************)

\* The cursor is on a pair.
OnPair(st) ==
  /\ st.source \in 1 .. Len(Sizes)
  /\ st.candidate \in 0 .. Sizes[st.source] - 1
  /\ st.scheme \in 0 .. Widths[st.source] - 1

LEMMA Shapes ==
  /\ Len(Sizes) \in Nat /\ DOMAIN Sizes = 1 .. Len(Sizes)
  /\ \A i \in 1 .. Len(Sizes) : Sizes[i] \in Nat \ {0} /\ Widths[i] \in Nat \ {0}
  BY ShapeAssumption

LEMMA PairShape ==
  ASSUME NEW p
  PROVE  p \in Pairs <=> \E i \in 1 .. Len(Sizes) : \E c \in 0 .. Sizes[i] - 1 :
                           \E w \in 0 .. Widths[i] - 1 : p = <<i, c, w>>
  BY Shapes DEF Pairs

LEMMA CursorOnPair ==
  ASSUME NEW st \in States
  PROVE  OnPair(st) <=> Cursor(st) \in Pairs
<1>1. OnPair(st) => Cursor(st) \in Pairs
  BY PairShape DEF OnPair, Cursor
<1>2. ASSUME Cursor(st) \in Pairs PROVE OnPair(st)
  <2>1. PICK i \in 1 .. Len(Sizes) : \E c \in 0 .. Sizes[i] - 1 :
               \E w \in 0 .. Widths[i] - 1 : Cursor(st) = <<i, c, w>>
    BY <1>2, PairShape
  <2>2. QED
    BY <2>1 DEF OnPair, Cursor
<1>3. QED
  BY <1>1, <1>2

\* Where the cursor goes: to the next scheme, seed or source.
NextScheme(st, n) ==
  /\ st.scheme + 1 < Widths[st.source]
  /\ n.source = st.source /\ n.candidate = st.candidate /\ n.scheme = st.scheme + 1
  /\ n.seeds = st.seeds /\ n.status = st.status

NextSeed(st, n) ==
  /\ st.scheme + 1 = Widths[st.source] /\ st.candidate + 1 < Sizes[st.source]
  /\ n.source = st.source /\ n.candidate = st.candidate + 1 /\ n.scheme = 0
  /\ n.seeds = st.seeds + 1 /\ n.status = st.status

NextList(st, n) ==
  /\ st.scheme + 1 = Widths[st.source] /\ st.candidate + 1 = Sizes[st.source]
  /\ n.source = st.source + 1 /\ n.candidate = 0 /\ n.scheme = 0
  /\ n.seeds = st.seeds + 1
  /\ n.status = IF st.source = Len(Sizes) THEN "exhausted" ELSE st.status

LEMMA NextSeedFields ==
  ASSUME NEW a \in States, NEW b,
         b = [a EXCEPT !.scheme = 0, !.candidate = @ + 1, !.seeds = @ + 1]
  PROVE  /\ b \in States /\ b.source = a.source /\ b.checked = a.checked
         /\ b.status = a.status /\ b.candidate = a.candidate + 1 /\ b.scheme = 0
         /\ b.seeds = a.seeds + 1
<1>1. PICK e \in States : e = [a EXCEPT !.scheme = 0]
  BY DEF States
<1>9. e.candidate + 1 \in Nat
  BY DEF States
<1>2. PICK f \in States : f = [e EXCEPT !.candidate = @ + 1]
  BY <1>9 DEF States
<1>3. b = [f EXCEPT !.seeds = @ + 1]
  BY <1>1, <1>2
<1>4. b \in States
  BY <1>3 DEF States
<1>5. /\ e.source = a.source /\ e.candidate = a.candidate /\ e.scheme = 0
      /\ e.seeds = a.seeds /\ e.checked = a.checked /\ e.status = a.status
  BY <1>1 DEF States
<1>6. /\ f.source = e.source /\ f.candidate = e.candidate + 1 /\ f.scheme = e.scheme
      /\ f.seeds = e.seeds /\ f.checked = e.checked /\ f.status = e.status
  BY <1>2 DEF States
<1>7. /\ b.source = f.source /\ b.candidate = f.candidate /\ b.scheme = f.scheme
      /\ b.seeds = f.seeds + 1 /\ b.checked = f.checked /\ b.status = f.status
  BY <1>3 DEF States
<1>8. QED
  BY <1>4, <1>5, <1>6, <1>7

LEMMA NextSourceFields ==
  ASSUME NEW b \in States, NEW c,
         c = [b EXCEPT !.source = @ + 1, !.candidate = 0, !.scheme = 0]
  PROVE  /\ c \in States /\ c.source = b.source + 1 /\ c.checked = b.checked
         /\ c.status = b.status /\ c.candidate = 0 /\ c.scheme = 0 /\ c.seeds = b.seeds
<1>9. b.source + 1 \in Nat
  BY DEF States
<1>1. PICK e \in States : e = [b EXCEPT !.source = @ + 1]
  BY <1>9 DEF States
<1>2. PICK f \in States : f = [e EXCEPT !.candidate = 0]
  BY DEF States
<1>3. c = [f EXCEPT !.scheme = 0]
  BY <1>1, <1>2
<1>4. c \in States
  BY <1>3 DEF States
<1>5. /\ e.source = b.source + 1 /\ e.seeds = b.seeds /\ e.checked = b.checked
      /\ e.status = b.status
  BY <1>1 DEF States
<1>6. /\ f.source = e.source /\ f.candidate = 0 /\ f.seeds = e.seeds
      /\ f.checked = e.checked /\ f.status = e.status
  BY <1>2 DEF States
<1>7. /\ c.source = f.source /\ c.candidate = f.candidate /\ c.scheme = 0
      /\ c.seeds = f.seeds /\ c.checked = f.checked /\ c.status = f.status
  BY <1>3 DEF States
<1>8. QED
  BY <1>4, <1>5, <1>6, <1>7

LEMMA AdvancedFields ==
  ASSUME NEW st \in States, OnPair(st)
  PROVE  /\ Advanced(st) \in States /\ Advanced(st).checked = st.checked
         /\ \/ NextScheme(st, Advanced(st))
            \/ NextSeed(st, Advanced(st))
            \/ NextList(st, Advanced(st))
<1> DEFINE a == [st EXCEPT !.scheme = @ + 1]
           b == NextCandidate(a)
           c == NextSource(b)
           n == Advanced(st)
<1>1. /\ Sizes[st.source] \in Nat \ {0} /\ Widths[st.source] \in Nat \ {0}
      /\ Len(Sizes) \in Nat
  BY Shapes DEF OnPair
<1>2. /\ a \in States /\ a.source = st.source /\ a.candidate = st.candidate
      /\ a.scheme = st.scheme + 1 /\ a.seeds = st.seeds /\ a.checked = st.checked
      /\ a.status = st.status
  BY DEF States
<1>3. /\ b \in States /\ b.source = st.source /\ b.checked = st.checked /\ b.status = st.status
      /\ IF st.scheme + 1 < Widths[st.source]
         THEN b.candidate = st.candidate /\ b.scheme = st.scheme + 1 /\ b.seeds = st.seeds
         ELSE b.candidate = st.candidate + 1 /\ b.scheme = 0 /\ b.seeds = st.seeds + 1
  <2>1. CASE a.scheme < Widths[a.source]
    BY <1>2, <2>1 DEF NextCandidate
  <2>2. CASE ~(a.scheme < Widths[a.source])
    <3> HIDE DEF a
    <3>1. b = [a EXCEPT !.scheme = 0, !.candidate = @ + 1, !.seeds = @ + 1]
      BY <2>2 DEF NextCandidate
    <3>2. QED
      BY <1>1, <1>2, <2>2, <3>1, NextSeedFields
  <2>3. QED
    BY <2>1, <2>2
<1>4. /\ c \in States /\ c.checked = st.checked /\ c.status = st.status /\ c.seeds = b.seeds
      /\ IF b.candidate < Sizes[st.source]
         THEN c.source = st.source /\ c.candidate = b.candidate /\ c.scheme = b.scheme
         ELSE c.source = st.source + 1 /\ c.candidate = 0 /\ c.scheme = 0
  <2> HIDE DEF b
  <2>1. CASE b.candidate < Sizes[b.source]
    BY <1>3, <2>1 DEF NextSource
  <2>2. CASE ~(b.candidate < Sizes[b.source])
    <3>1. c = [b EXCEPT !.source = @ + 1, !.candidate = 0, !.scheme = 0]
      BY <2>2 DEF NextSource
    <3>2. /\ c \in States /\ c.source = b.source + 1 /\ c.checked = b.checked
          /\ c.status = b.status /\ c.candidate = 0 /\ c.scheme = 0 /\ c.seeds = b.seeds
      BY <1>3, <3>1, NextSourceFields
    <3>3. QED
      BY <1>3, <2>2, <3>2
  <2>3. QED
    BY <2>1, <2>2
<1>5. /\ n \in States /\ n.checked = st.checked /\ n.seeds = c.seeds
      /\ n.source = c.source /\ n.candidate = c.candidate /\ n.scheme = c.scheme
      /\ n.status = IF c.source > Len(Sizes) THEN "exhausted" ELSE st.status
  <2>1. n = IF c.source > Len(Sizes) THEN [c EXCEPT !.status = "exhausted"] ELSE c
    BY DEF Advanced, Normalized
  <2> HIDE DEF c, n
  <2>2. QED
    BY <1>4, <2>1 DEF States, Statuses
<1>6. CASE st.scheme + 1 < Widths[st.source]
  <2>1. b.candidate < Sizes[st.source]
    BY <1>1, <1>3, <1>6 DEF OnPair, States
  <2>2. NextScheme(st, n)
    BY <1>1, <1>3, <1>4, <1>5, <1>6, <2>1 DEF NextScheme, OnPair
  <2>3. QED
    BY <1>5, <2>2
<1>7. CASE ~(st.scheme + 1 < Widths[st.source])
  <2>1. st.scheme + 1 = Widths[st.source]
    BY <1>1, <1>7 DEF OnPair, States
  <2>2. CASE st.candidate + 1 < Sizes[st.source]
    <3>1. NextSeed(st, n)
      BY <1>1, <1>3, <1>4, <1>5, <1>7, <2>1, <2>2 DEF NextSeed, OnPair
    <3>2. QED
      BY <1>5, <3>1
  <2>3. CASE ~(st.candidate + 1 < Sizes[st.source])
    <3>1. st.candidate + 1 = Sizes[st.source]
      BY <1>1, <2>3 DEF OnPair, States
    <3>2. NextList(st, n)
      BY <1>1, <1>3, <1>4, <1>5, <1>7, <2>1, <2>3, <3>1 DEF NextList, OnPair
    <3>3. QED
      BY <1>5, <3>2
  <2>4. QED
    BY <2>2, <2>3
<1>8. QED
  BY <1>6, <1>7

\* One advance passes the pair the cursor was on, and no other.
LEMMA AdvancePasses ==
  ASSUME NEW st \in States, OnPair(st), NEW n \in States,
         NextScheme(st, n) \/ NextSeed(st, n) \/ NextList(st, n)
  PROVE  /\ Cursor(st) \in Pairs \ Passed(st)
         /\ Passed(n) = Passed(st) \cup {Cursor(st)}
<1>1. Cursor(st) \in Pairs
  BY CursorOnPair
<1>2. Cursor(st) \notin Passed(st)
  BY DEF Passed, Before, Cursor, States
<1>3. ASSUME NEW p \in Pairs
      PROVE  Before(p, Cursor(n)) <=> Before(p, Cursor(st)) \/ p = Cursor(st)
  <2>1. PICK i \in 1 .. Len(Sizes) : \E c \in 0 .. Sizes[i] - 1 :
               \E w \in 0 .. Widths[i] - 1 : p = <<i, c, w>>
    BY <1>3, PairShape
  <2>2. PICK c \in 0 .. Sizes[i] - 1 : \E w \in 0 .. Widths[i] - 1 : p = <<i, c, w>>
    BY <2>1
  <2>3. PICK w \in 0 .. Widths[i] - 1 : p = <<i, c, w>>
    BY <2>2
  <2>4. /\ Sizes[i] \in Nat /\ Widths[i] \in Nat /\ Len(Sizes) \in Nat
        /\ Sizes[st.source] \in Nat /\ Widths[st.source] \in Nat
    BY Shapes DEF OnPair
  <2>5. /\ i \in Nat /\ c \in Nat /\ w \in Nat
        /\ st.source \in Nat /\ st.candidate \in Nat /\ st.scheme \in Nat
    BY <2>4 DEF States
  <2>6. p = Cursor(st) <=> i = st.source /\ c = st.candidate /\ w = st.scheme
    BY <2>3 DEF Cursor
  <2>7. Before(p, Cursor(st)) <=> \/ i < st.source
                                  \/ i = st.source /\ c < st.candidate
                                  \/ i = st.source /\ c = st.candidate /\ w < st.scheme
    BY <2>3 DEF Cursor, Before
  <2>8. Before(p, Cursor(n)) <=> \/ i < n.source
                                 \/ i = n.source /\ c < n.candidate
                                 \/ i = n.source /\ c = n.candidate /\ w < n.scheme
    BY <2>3 DEF Cursor, Before
  <2>9. i = st.source => c < Sizes[st.source] /\ w < Widths[st.source]
    BY <2>4, <2>5
  <2>10. CASE NextScheme(st, n)
    BY <2>4, <2>5, <2>6, <2>7, <2>8, <2>9, <2>10 DEF NextScheme
  <2>11. CASE NextSeed(st, n)
    BY <2>4, <2>5, <2>6, <2>7, <2>8, <2>9, <2>11 DEF NextSeed
  <2>12. CASE NextList(st, n)
    <3>1. /\ st.scheme + 1 = Widths[st.source] /\ st.candidate + 1 = Sizes[st.source]
          /\ n.source = st.source + 1 /\ n.candidate = 0 /\ n.scheme = 0
      BY <2>12 DEF NextList
    <3>2. QED
      BY <2>4, <2>5, <2>6, <2>7, <2>8, <2>9, <3>1
  <2>13. QED
    BY <2>10, <2>11, <2>12
<1>4. Passed(n) = Passed(st) \cup {Cursor(st)}
  BY <1>1, <1>3 DEF Passed
<1>5. QED
  BY <1>1, <1>2, <1>4

LEMMA AdvanceStatus ==
  ASSUME NEW st \in States, OnPair(st), st.status = "running", NEW n \in States,
         NextScheme(st, n) \/ NextSeed(st, n) \/ NextList(st, n)
  PROVE  /\ n.status \in {"running", "exhausted"}
         /\ n.status = "running" => OnPair(n)
<1>1. /\ Sizes[st.source] \in Nat /\ Widths[st.source] \in Nat \ {0} /\ Len(Sizes) \in Nat
      /\ st.source \in Nat /\ st.candidate \in Nat /\ st.scheme \in Nat
  BY Shapes DEF OnPair, States
<1>2. CASE NextScheme(st, n)
  BY <1>1, <1>2 DEF NextScheme, OnPair
<1>3. CASE NextSeed(st, n)
  BY <1>1, <1>3 DEF NextSeed, OnPair
<1>4. CASE NextList(st, n)
  <2>1. CASE st.source = Len(Sizes)
    BY <1>4, <2>1 DEF NextList
  <2>2. CASE st.source # Len(Sizes)
    <3>1. n.status = "running" /\ n.source = st.source + 1 /\ n.candidate = 0 /\ n.scheme = 0
      BY <1>4, <2>2 DEF NextList
    <3>2. n.source \in 1 .. Len(Sizes)
      BY <1>1, <2>2, <3>1 DEF OnPair
    <3>3. Sizes[n.source] \in Nat \ {0} /\ Widths[n.source] \in Nat \ {0}
      BY <3>2, Shapes
    <3>4. QED
      BY <3>1, <3>2, <3>3 DEF OnPair
  <2>3. QED
    BY <2>1, <2>2
<1>5. QED
  BY <1>2, <1>3, <1>4

-----------------------------------------------------------------------------
(***************************************************************************)
(* The counters                                                            *)
(***************************************************************************)

Seeds(st) == {<<p[1], p[2]>> : p \in Passed(st)}

\* What a copy of the state says of itself.
Counted(st) ==
  /\ st \in States
  /\ st.status \in Terminal \/ OnPair(st)
  /\ IsFiniteSet(Passed(st)) /\ IsFiniteSet(Seeds(st))
  /\ st.checked = Cardinality(Passed(st)) + (IF st.status = "found" THEN 1 ELSE 0)
  /\ st.seeds = Cardinality(Seeds(st)) - (IF st.scheme > 0 THEN 1 ELSE 0)

LEMMA SamePassed ==
  ASSUME NEW st, NEW n, Cursor(n) = Cursor(st)
  PROVE  Passed(n) = Passed(st) /\ Seeds(n) = Seeds(st)
<1>1. Passed(n) = Passed(st)
  BY DEF Passed
<1>2. QED
  BY <1>1 DEF Seeds

LEMMA CountedFresh ==
  Counted(FreshState) /\ Passed(FreshState) = {} /\ FreshState.status = "ready"
<1>1. FreshState \in States
  BY DEF FreshState, States, Statuses
<1>2. /\ FreshState.source = 1 /\ FreshState.candidate = 0 /\ FreshState.scheme = 0
      /\ FreshState.seeds = 0 /\ FreshState.checked = 0 /\ FreshState.status = "ready"
  BY DEF FreshState
<1>3. OnPair(FreshState)
  BY <1>2, Shapes, ShapeAssumption DEF OnPair
<1>4. Passed(FreshState) = {}
  <2>1. SUFFICES ASSUME NEW p \in Pairs PROVE ~Before(p, Cursor(FreshState))
    BY DEF Passed
  <2>2. PICK i \in 1 .. Len(Sizes) : \E c \in 0 .. Sizes[i] - 1 :
               \E w \in 0 .. Widths[i] - 1 : p = <<i, c, w>>
    BY PairShape
  <2>3. PICK c \in 0 .. Sizes[i] - 1 : \E w \in 0 .. Widths[i] - 1 : p = <<i, c, w>>
    BY <2>2
  <2>4. PICK w \in 0 .. Widths[i] - 1 : p = <<i, c, w>>
    BY <2>3
  <2>5. i >= 1 /\ c >= 0 /\ w >= 0 /\ i \in Int /\ c \in Int /\ w \in Int
    BY Shapes
  <2>6. Cursor(FreshState) = <<1, 0, 0>>
    BY <1>2 DEF Cursor
  <2>7. QED
    BY <2>4, <2>5, <2>6 DEF Before
<1>5. Seeds(FreshState) = {}
  BY <1>4 DEF Seeds
<1>6. QED
  BY <1>1, <1>2, <1>3, <1>4, <1>5, FS_EmptySet DEF Counted, Terminal

\* The status may change as long as it does not end the search.
LEMMA CountedStatus ==
  ASSUME NEW st, Counted(st), st.status \notin Terminal,
         NEW status \in Statuses \ Terminal, NEW n, n = [st EXCEPT !.status = status]
  PROVE  /\ Counted(n) /\ Passed(n) = Passed(st) /\ Cursor(n) = Cursor(st)
         /\ n.status = status
<1>1. n \in States
  BY DEF Counted, States
<1>2. /\ n.source = st.source /\ n.candidate = st.candidate /\ n.scheme = st.scheme
      /\ n.seeds = st.seeds /\ n.checked = st.checked /\ n.status = status
  BY DEF Counted, States
<1>3. Cursor(n) = Cursor(st)
  BY <1>2 DEF Cursor
<1>4. Passed(n) = Passed(st) /\ Seeds(n) = Seeds(st)
  BY <1>3, SamePassed
<1>5. OnPair(n)
  BY <1>2 DEF Counted, OnPair
<1>6. status # "found" /\ st.status # "found"
  BY DEF Terminal
<1>7. QED
  BY <1>1, <1>2, <1>3, <1>4, <1>5, <1>6 DEF Counted

\* The seeds passed, with the one of the cursor.
LEMMA SeedPassed ==
  ASSUME NEW st \in States, OnPair(st), NEW n, Passed(n) = Passed(st) \cup {Cursor(st)}
  PROVE  /\ Seeds(n) = Seeds(st) \cup {<<st.source, st.candidate>>}
         /\ <<st.source, st.candidate>> \in Seeds(st) <=> st.scheme > 0
<1>1. Cursor(st)[1] = st.source /\ Cursor(st)[2] = st.candidate /\ Cursor(st)[3] = st.scheme
  BY DEF Cursor
<1>2. Seeds(n) = Seeds(st) \cup {<<st.source, st.candidate>>}
  BY <1>1 DEF Seeds
<1>3. ASSUME st.scheme > 0 PROVE <<st.source, st.candidate>> \in Seeds(st)
  <2> DEFINE p == <<st.source, st.candidate, 0>>
  <2>1. 0 \in 0 .. Widths[st.source] - 1
    BY Shapes DEF OnPair
  <2>2. p \in Pairs
    BY <2>1, PairShape DEF OnPair
  <2>3. Before(p, Cursor(st))
    BY <1>1, <1>3 DEF Before
  <2>4. p \in Passed(st) /\ p[1] = st.source /\ p[2] = st.candidate
    BY <2>2, <2>3 DEF Passed
  <2>5. QED
    BY <2>4 DEF Seeds
<1>4. ASSUME <<st.source, st.candidate>> \in Seeds(st) PROVE st.scheme > 0
  <2>1. PICK p \in Passed(st) : <<p[1], p[2]>> = <<st.source, st.candidate>>
    BY <1>4 DEF Seeds
  <2>2. p \in Pairs /\ Before(p, Cursor(st)) /\ p[1] = st.source /\ p[2] = st.candidate
    BY <2>1 DEF Passed
  <2>3. p[3] < st.scheme
    BY <1>1, <2>2 DEF Before, States
  <2>4. p[3] \in Nat
    BY <2>2, PairShape, Shapes
  <2>5. QED
    BY <2>3, <2>4 DEF States
<1>5. QED
  BY <1>2, <1>3, <1>4

\* Testing a pair: a find keeps the cursor, anything else advances it.
LEMMA CountedTest ==
  ASSUME NEW st, Counted(st), st.status = "running"
  PROVE  /\ Cursor(st) \in Pairs \ Passed(st)
         /\ Counted(AfterTest(st))
         /\ IF Cursor(st) = winner
            THEN /\ AfterTest(st).status = "found" /\ Cursor(AfterTest(st)) = Cursor(st)
                 /\ Passed(AfterTest(st)) = Passed(st)
            ELSE /\ AfterTest(st).status \in {"running", "exhausted"}
                 /\ Passed(AfterTest(st)) = Passed(st) \cup {Cursor(st)}
<1> DEFINE c == [st EXCEPT !.checked = @ + 1]
           n == Advanced(c)
<1>1. st \in States /\ OnPair(st) /\ Cursor(st) \in Pairs
  BY CursorOnPair DEF Counted, Terminal
<1>2. /\ c \in States /\ c.source = st.source /\ c.candidate = st.candidate
      /\ c.scheme = st.scheme /\ c.seeds = st.seeds /\ c.checked = st.checked + 1
      /\ c.status = "running"
  BY <1>1 DEF States
<1> HIDE DEF c
<1>3. Cursor(c) = Cursor(st) /\ OnPair(c) /\ Passed(c) = Passed(st) /\ Seeds(c) = Seeds(st)
  <2>1. Cursor(c) = Cursor(st)
    BY <1>2 DEF Cursor
  <2>2. QED
    BY <1>1, <1>2, <2>1, SamePassed DEF OnPair
<1>4. /\ n \in States /\ n.checked = c.checked
      /\ NextScheme(c, n) \/ NextSeed(c, n) \/ NextList(c, n)
  BY <1>2, <1>3, AdvancedFields
<1> HIDE DEF n
<1>5. /\ Cursor(st) \in Pairs \ Passed(st)
      /\ Passed(n) = Passed(st) \cup {Cursor(st)}
  BY <1>2, <1>3, <1>4, AdvancePasses
<1>6. CASE Cursor(st) = winner
  <2> DEFINE f == [c EXCEPT !.status = "found"]
  <2>1. AfterTest(st) = f
    BY <1>6 DEF AfterTest, c
  <2>2. /\ f \in States /\ f.source = c.source /\ f.candidate = c.candidate
        /\ f.scheme = c.scheme /\ f.seeds = c.seeds /\ f.checked = c.checked
        /\ f.status = "found"
    BY <1>2 DEF States, Statuses
  <2> HIDE DEF f
  <2>3. Cursor(f) = Cursor(st) /\ Passed(f) = Passed(st) /\ Seeds(f) = Seeds(st)
    BY <1>2, <2>2, SamePassed DEF Cursor
  <2>4. Cardinality(Passed(st)) \in Nat
    BY FS_CardinalityType DEF Counted
  <2>5. Counted(f)
    BY <1>2, <2>2, <2>3, <2>4 DEF Counted, Terminal
  <2>6. QED
    BY <1>5, <1>6, <2>1, <2>2, <2>3, <2>5
<1>7. CASE Cursor(st) # winner
  <2>1. AfterTest(st) = n
    BY <1>7 DEF AfterTest, n, c
  <2>2. n.status \in {"running", "exhausted"} /\ (n.status = "running" => OnPair(n))
    BY <1>2, <1>3, <1>4, AdvanceStatus
  <2>3. /\ IsFiniteSet(Passed(n))
        /\ Cardinality(Passed(n)) = Cardinality(Passed(st)) + 1
    BY <1>5, FS_AddElement DEF Counted
  <2>4. /\ Seeds(n) = Seeds(st) \cup {<<st.source, st.candidate>>}
        /\ <<st.source, st.candidate>> \in Seeds(st) <=> st.scheme > 0
    BY <1>1, <1>5, SeedPassed
  <2>5. /\ IsFiniteSet(Seeds(n)) /\ Cardinality(Seeds(st)) \in Nat
        /\ Cardinality(Seeds(n)) = Cardinality(Seeds(st)) + (IF st.scheme > 0 THEN 0 ELSE 1)
    BY <2>4, FS_AddElement, FS_CardinalityType DEF Counted
  <2>6. n.checked = Cardinality(Passed(n))
    BY <1>2, <1>4, <2>3, FS_CardinalityType DEF Counted
  <2>7. n.seeds = Cardinality(Seeds(n)) - (IF n.scheme > 0 THEN 1 ELSE 0)
    <3>1. /\ st.scheme \in Nat
          /\ st.seeds = Cardinality(Seeds(st)) - (IF st.scheme > 0 THEN 1 ELSE 0)
      BY <1>1 DEF Counted, States
    <3>2. \/ n.scheme = st.scheme + 1 /\ n.seeds = st.seeds
          \/ n.scheme = 0 /\ n.seeds = st.seeds + 1
      BY <1>2, <1>4 DEF NextScheme, NextSeed, NextList
    <3>3. QED
      BY <2>5, <3>1, <3>2
  <2>8. Counted(n)
    <3>1. Cardinality(Passed(n)) \in Nat /\ n.status # "found"
      BY <2>2, <2>3, FS_CardinalityType
    <3>2. n.checked = Cardinality(Passed(n)) + (IF n.status = "found" THEN 1 ELSE 0)
      BY <2>6, <3>1
    <3>3. n.status \in Terminal \/ OnPair(n)
      BY <2>2 DEF Terminal
    <3>4. QED
      BY <1>4, <2>3, <2>5, <2>7, <3>2, <3>3 DEF Counted
  <2>9. QED
    BY <1>5, <1>7, <2>1, <2>2, <2>8
<1>8. QED
  BY <1>6, <1>7

-----------------------------------------------------------------------------
(***************************************************************************)
(* Every copy of the state is honest                                       *)
(***************************************************************************)

Honest(st) == Counted(st) /\ Passed(st) \subseteq tested \ {winner}

CopiesOK == \A st \in {disk, slice, loaded} \ {None} : Honest(st)

ThreadsOK ==
  /\ winner \in Winners
  /\ lab \in {"off", "waiting", "slicing"}
  /\ lab = "slicing" <=> slice # None
  /\ main \in {"down", "running", "stopping", "marking", "leaving", "over"}
  /\ main = "marking" <=> loaded # None
  /\ lab # "off" => main # "down"
  /\ main # "down" => disk # None
  /\ slice # None => slice.status \in {"running"} \cup Terminal
  /\ tested \subseteq Pairs /\ repeated \subseteq tested
  /\ faults \in 0 .. MaxFaults

Inv == ThreadsOK /\ CopiesOK

LEMMA CountedNotNone == \A st : Counted(st) => st # None
  BY NoneAssumption DEF Counted

\* A change of status writes an honest copy.
LEMMA HonestStatus ==
  ASSUME NEW st, Honest(st), st.status \notin Terminal,
         NEW status \in Statuses \ Terminal, NEW n, n = [st EXCEPT !.status = status]
  PROVE  Honest(n) /\ n # None /\ n.status = status
  BY CountedStatus, CountedNotNone DEF Honest

LEMMA HonestSettled ==
  ASSUME NEW st, Honest(st)
  PROVE  Honest(Settled(st)) /\ Settled(st) # None
<1>1. CASE st.status = "running"
  <2>1. Settled(st) = [st EXCEPT !.status = "sleeping"] /\ st.status \notin Terminal
    BY <1>1 DEF Settled, Terminal
  <2>2. "sleeping" \in Statuses \ Terminal
    BY DEF Statuses, Terminal
  <2>3. QED
    BY <2>1, <2>2, HonestStatus
<1>2. CASE st.status # "running"
  BY <1>2, CountedNotNone DEF Settled, Honest
<1>3. QED
  BY <1>1, <1>2

\* The file as Launch leaves it.
LEMMA HonestFresh == Honest(FreshState) /\ FreshState # None
  BY CountedFresh, CountedNotNone DEF Honest

LEMMA StatusValues ==
  /\ {"running", "stopped", "error", "sleeping"} \subseteq Statuses \ Terminal
  BY DEF Statuses, Terminal

LEMMA StepInv == Inv /\ [Next]_vars => Inv'
<1> SUFFICES ASSUME Inv, [Next]_vars PROVE Inv'
  OBVIOUS
<1>a. ThreadsOK /\ CopiesOK
  BY DEF Inv
<1>b. /\ disk # None => Honest(disk)
      /\ slice # None => Honest(slice)
      /\ loaded # None => Honest(loaded)
  BY <1>a DEF CopiesOK
<1>c. ASSUME winner' = winner, tested \subseteq tested'
      PROVE  \A st : Honest(st) => Counted(st) /\ Passed(st) \subseteq tested' \ {winner'}
  BY <1>c DEF Honest
<1>d. ASSUME UNCHANGED <<winner, tested>>,
             disk' # None => Honest(disk'), slice' # None => Honest(slice'),
             loaded' # None => Honest(loaded')
      PROVE  CopiesOK'
  BY <1>d DEF CopiesOK, Honest
<1>1. CASE BeginSlice /\ UNCHANGED winner
  <2>1. disk # None /\ Honest(disk)
    BY <1>1, <1>a, <1>b DEF BeginSlice, MayBegin, ThreadsOK
  <2>2. CASE disk.status \in Terminal
    BY <1>1, <1>a, <1>b, <1>d, <2>2 DEF BeginSlice, MayBegin, Inv, ThreadsOK
  <2>3. CASE disk.status \notin Terminal
    <3>1. Honest(disk') /\ disk' # None /\ disk'.status = "running"
      BY <1>1, <2>1, <2>3, HonestStatus, StatusValues DEF BeginSlice
    <3>2. slice' = disk' /\ lab' = "slicing"
      BY <1>1, <2>3 DEF BeginSlice
    <3>3. CopiesOK'
      BY <1>1, <1>b, <1>d, <3>1, <3>2 DEF BeginSlice
    <3>4. QED
      BY <1>1, <1>a, <3>1, <3>2, <3>3 DEF BeginSlice, MayBegin, Inv, ThreadsOK
  <2>4. QED
    BY <2>2, <2>3
<1>2. CASE Test /\ UNCHANGED winner
  <2>1. slice # None /\ Honest(slice) /\ slice.status = "running"
    BY <1>2, <1>a, <1>b DEF Test, ThreadsOK
  <2>2. /\ Cursor(slice) \in Pairs \ Passed(slice)
        /\ Counted(slice')
        /\ IF Cursor(slice) = winner
           THEN slice'.status = "found" /\ Passed(slice') = Passed(slice)
           ELSE /\ slice'.status \in {"running", "exhausted"}
                /\ Passed(slice') = Passed(slice) \cup {Cursor(slice)}
    BY <1>2, <2>1, CountedTest DEF Test, Honest
  <2>3. tested' = tested \cup {Cursor(slice)} /\ winner' = winner
    BY <1>2 DEF Test
  <2>4. Passed(slice') \subseteq tested' \ {winner'}
    BY <2>1, <2>2, <2>3 DEF Honest
  <2>5. CopiesOK'
    BY <1>2, <1>b, <1>c, <2>2, <2>3, <2>4 DEF CopiesOK, Honest, Test
  <2>6. slice' # None /\ slice'.status \in {"running"} \cup Terminal
    BY <2>2, CountedNotNone DEF Terminal
  <2>7. tested' \subseteq Pairs /\ repeated' \subseteq tested'
    BY <1>2, <1>a, <2>2, <2>3 DEF Test, ThreadsOK
  <2>8. QED
    BY <1>2, <1>a, <2>5, <2>6, <2>7 DEF Test, Inv, ThreadsOK
<1>3. CASE EndSlice /\ UNCHANGED winner
  <2>1. Honest(disk') /\ disk' # None
    BY <1>3, <1>a, <1>b, HonestSettled DEF EndSlice, ThreadsOK
  <2>2. CopiesOK'
    BY <1>3, <1>b, <1>d, <2>1 DEF EndSlice
  <2>3. QED
    BY <1>3, <1>a, <2>1, <2>2 DEF EndSlice, Inv, ThreadsOK
<1>4. CASE Launch /\ UNCHANGED winner
  <2>1. Honest(disk') /\ disk' # None
    BY <1>4, <1>b, HonestFresh DEF Launch
  <2>2. CopiesOK'
    BY <1>4, <1>b, <1>d, <2>1 DEF Launch
  <2>3. QED
    BY <1>4, <1>a, <2>1, <2>2 DEF Launch, Inv, ThreadsOK
<1>5. CASE (Collect \/ Stop) /\ UNCHANGED winner
  BY <1>5, <1>a, <1>b, <1>d DEF Collect, Stop, Inv, ThreadsOK
<1>6. CASE (Join \/ JoinTimesOut) /\ UNCHANGED winner
  <2>1. disk # None /\ loaded' = disk
    BY <1>6, <1>a DEF Join, JoinTimesOut, ThreadsOK
  <2>2. CopiesOK'
    BY <1>6, <1>b, <1>d, <2>1 DEF Join, JoinTimesOut
  <2>3. faults' \in 0 .. MaxFaults
    BY <1>6, <1>a, FaultsAssumption DEF Join, JoinTimesOut, Fault, ThreadsOK
  <2>4. QED
    BY <1>6, <1>a, <2>1, <2>2, <2>3 DEF Join, JoinTimesOut, Inv, ThreadsOK
<1>7. CASE MarkStopped /\ UNCHANGED winner
  <2>1. loaded # None /\ Honest(loaded) /\ disk # None /\ Honest(disk)
    BY <1>7, <1>a, <1>b DEF MarkStopped, ThreadsOK
  <2>2. Honest(disk') /\ disk' # None
    <3>1. CASE loaded.status \in Terminal \cup {"error"}
      BY <1>7, <2>1, <3>1 DEF MarkStopped
    <3>2. CASE loaded.status \notin Terminal \cup {"error"}
      BY <1>7, <2>1, <3>2, HonestStatus, StatusValues DEF MarkStopped
    <3>3. QED
      BY <3>1, <3>2
  <2>3. CopiesOK'
    BY <1>7, <1>b, <1>d, <2>2 DEF MarkStopped
  <2>4. QED
    BY <1>7, <1>a, <2>2, <2>3 DEF MarkStopped, Inv, ThreadsOK
<1>8. CASE (Leave \/ Kill) /\ UNCHANGED winner
  <2>1. CopiesOK'
    BY <1>8, <1>b, <1>d DEF Leave, Kill, Gone
  <2>2. faults' \in 0 .. MaxFaults
    BY <1>8, <1>a, FaultsAssumption DEF Leave, Kill, Fault, ThreadsOK
  <2>3. QED
    BY <1>8, <1>a, <2>1, <2>2 DEF Leave, Kill, Gone, Inv, ThreadsOK
<1>9. CASE (DerivationFails \/ WriteFails) /\ UNCHANGED winner
  <2>1. lab = "slicing" /\ slice # None /\ Honest(slice) /\ disk # None /\ Honest(disk)
    BY <1>9, <1>a, <1>b DEF DerivationFails, WriteFails, ThreadsOK
  <2>2. Honest(disk') /\ disk' # None
    <3>1. CASE DerivationFails
      <4>1. slice.status \notin Terminal /\ disk' = [slice EXCEPT !.status = "error"]
        BY <3>1 DEF DerivationFails, Terminal
      <4>2. QED
        BY <2>1, <4>1, HonestStatus, StatusValues
    <3>2. CASE WriteFails
      BY <2>1, <3>2 DEF WriteFails
    <3>3. QED
      BY <1>9, <3>1, <3>2
  <2>3. CopiesOK'
    BY <1>9, <1>b, <1>d, <2>2 DEF DerivationFails, WriteFails
  <2>4. faults' \in 0 .. MaxFaults
    BY <1>9, <1>a, FaultsAssumption DEF DerivationFails, WriteFails, Fault, ThreadsOK
  <2>5. QED
    BY <1>9, <1>a, <2>2, <2>3, <2>4 DEF DerivationFails, WriteFails, Inv, ThreadsOK
<1>10. CASE UNCHANGED vars
  BY <1>10, <1>a DEF vars, progress, Inv, ThreadsOK, CopiesOK, Honest
<1>11. QED
  BY <1>1, <1>2, <1>3, <1>4, <1>5, <1>6, <1>7, <1>8, <1>9, <1>10
     DEF Next, LabNext, MainNext, FaultNext

LEMMA InitInv == Init => Inv
  BY FaultsAssumption DEF Init, Inv, ThreadsOK, CopiesOK

\* The copies of the state, the threads and the pairs tested keep to their sets.
THEOREM TypeCorrect == Spec => []TypeOK
<1>1. Spec => []Inv
  BY InitInv, StepInv, PTL DEF Spec
<1>2. Inv => TypeOK
  BY DEF Inv, ThreadsOK, CopiesOK, Honest, Counted, TypeOK
<1>3. QED
  BY <1>1, <1>2, PTL

\* No copy of the cursor has passed a pair nobody tested, or the answer, and
\* its counters are true, whatever was killed, failed or written over.
THEOREM CursorHonestCorrect == Spec => []CursorHonest
<1>1. Spec => []Inv
  BY InitInv, StepInv, PTL DEF Spec
<1>2. Inv => CursorHonest
  BY DEF Inv, CopiesOK, Honest, Counted, Seeds, CursorHonest
<1>3. QED
  BY <1>1, <1>2, PTL

-----------------------------------------------------------------------------
(***************************************************************************)
(* Without a fault nothing is tested twice                                 *)
(***************************************************************************)

\* What a copy accounts for: the pairs passed, and the answer once found.
Done(st) == Passed(st) \cup (IF st.status = "found" THEN {Cursor(st)} ELSE {})

\* The copy in use.
Latest == IF slice # None THEN slice ELSE disk

\* The latest copy accounts for exactly the pairs tested; it is the file as soon
\* as the main thread waits no longer.
AllKept ==
  /\ repeated = {}
  /\ tested = IF disk = None THEN {} ELSE Done(Latest)
  /\ main = "marking" => loaded = disk
  /\ main \in {"marking", "leaving", "down"} => lab = "off"

NoRepeatInv == Inv /\ (faults = 0 => AllKept)

LEMMA DoneStatus ==
  ASSUME NEW st, Counted(st), st.status \notin Terminal,
         NEW status \in Statuses \ Terminal, NEW n, n = [st EXCEPT !.status = status]
  PROVE  Done(n) = Done(st) /\ n # None
<1>1. Passed(n) = Passed(st) /\ n.status # "found" /\ st.status # "found" /\ n # None
  BY CountedStatus, CountedNotNone DEF Terminal
<1>2. QED
  BY <1>1 DEF Done

LEMMA StepKept == NoRepeatInv /\ [Next]_vars => (faults' = 0 => AllKept')
<1> SUFFICES ASSUME NoRepeatInv, [Next]_vars, faults' = 0 PROVE AllKept'
  OBVIOUS
<1>a. /\ ThreadsOK
      /\ disk # None => Counted(disk)
      /\ slice # None => Counted(slice)
  BY DEF NoRepeatInv, Inv, CopiesOK, Honest
<1>b. ~FaultNext /\ faults = 0
  <2>1. faults \in Nat
    BY <1>a, FaultsAssumption DEF ThreadsOK
  <2>2. ~FaultNext
    BY <2>1 DEF FaultNext, JoinTimesOut, DerivationFails, WriteFails, Kill, Fault
  <2>3. faults' = faults
    BY <2>2 DEF Next, LabNext, MainNext, BeginSlice, Test, EndSlice, Launch, Collect, Stop,
                Join, MarkStopped, Leave, vars, progress
  <2>4. QED
    BY <2>2, <2>3
<1>c. AllKept
  BY <1>b DEF NoRepeatInv
<1>1. CASE BeginSlice
  <2>1. CASE disk.status \in Terminal
    BY <1>1, <1>a, <1>c, <2>1 DEF BeginSlice, MayBegin, AllKept, Latest, ThreadsOK
  <2>2. CASE disk.status \notin Terminal
    <3>1. Done(disk') = Done(disk) /\ disk' # None /\ slice' = disk' /\ slice = None
      BY <1>1, <1>a, <2>2, DoneStatus, StatusValues DEF BeginSlice, MayBegin, ThreadsOK
    <3>2. disk # None
      BY <1>1, <1>a DEF BeginSlice, MayBegin, ThreadsOK
    <3>3. QED
      BY <1>1, <1>c, <3>1, <3>2 DEF BeginSlice, MayBegin, AllKept, Latest
  <2>3. QED
    BY <2>1, <2>2
<1>2. CASE Test
  <2>1. slice # None /\ Counted(slice) /\ slice.status = "running" /\ disk # None
    BY <1>2, <1>a DEF Test, ThreadsOK
  <2>2. tested = Passed(slice)
    BY <1>c, <2>1 DEF AllKept, Latest, Done
  <2>3. /\ Cursor(slice) \notin Passed(slice)
        /\ Counted(slice')
        /\ IF Cursor(slice) = winner
           THEN /\ slice'.status = "found" /\ Cursor(slice') = Cursor(slice)
                /\ Passed(slice') = Passed(slice)
           ELSE /\ slice'.status # "found"
                /\ Passed(slice') = Passed(slice) \cup {Cursor(slice)}
    BY <1>2, <2>1, CountedTest DEF Test
  <2>4. Done(slice') = tested \cup {Cursor(slice)} /\ slice' # None
    BY <2>2, <2>3, CountedNotNone DEF Done
  <2>5. repeated' = {} /\ tested' = tested \cup {Cursor(slice)}
    BY <1>2, <1>c, <2>2, <2>3 DEF Test, AllKept
  <2>6. QED
    BY <1>2, <1>c, <2>1, <2>4, <2>5 DEF Test, AllKept, Latest
<1>3. CASE EndSlice
  <2>1. slice # None /\ Counted(slice) /\ disk # None
    BY <1>3, <1>a DEF EndSlice, ThreadsOK
  <2>2. Done(disk') = Done(slice) /\ disk' # None
    <3>1. CASE slice.status = "running"
      BY <1>3, <2>1, <3>1, DoneStatus, StatusValues DEF EndSlice, Settled, Terminal
    <3>2. CASE slice.status # "running"
      BY <1>3, <2>1, <3>2, CountedNotNone DEF EndSlice, Settled
    <3>3. QED
      BY <3>1, <3>2
  <2>3. lab' = "off" \/ main \notin {"marking", "leaving", "down"}
    BY <1>3, <1>c DEF EndSlice, AllKept
  <2>4. main # "marking"
    BY <1>3, <1>c DEF EndSlice, AllKept
  <2>5. QED
    BY <1>3, <1>c, <2>1, <2>2, <2>3, <2>4 DEF EndSlice, AllKept, Latest
<1>4. CASE Launch
  <2>1. slice = None /\ UNCHANGED <<slice, loaded, tested, repeated>>
        /\ main' \notin {"marking", "leaving", "down"}
    BY <1>4, <1>a, <1>c DEF Launch, AllKept, ThreadsOK
  <2>2. CASE disk = None
    <3>1. disk' = FreshState /\ disk' # None
      BY <1>4, <2>2, HonestFresh DEF Launch
    <3>2. Done(FreshState) = {}
      BY CountedFresh DEF Done
    <3>3. QED
      BY <1>c, <2>1, <2>2, <3>1, <3>2 DEF AllKept, Latest
  <2>3. CASE disk # None
    BY <1>4, <1>c, <2>1, <2>3 DEF Launch, AllKept, Latest
  <2>4. QED
    BY <2>2, <2>3
<1>5. CASE Collect \/ Stop
  BY <1>5, <1>c DEF Collect, Stop, AllKept, Latest
<1>6. CASE Join
  BY <1>6, <1>c DEF Join, AllKept, Latest
<1>7. CASE MarkStopped
  <2>1. loaded = disk /\ disk # None /\ slice = None /\ lab = "off" /\ Counted(disk)
    BY <1>7, <1>a, <1>c DEF MarkStopped, AllKept, ThreadsOK
  <2>2. Done(disk') = Done(disk) /\ disk' # None
    <3>1. CASE loaded.status \in Terminal \cup {"error"}
      BY <1>7, <2>1, <3>1 DEF MarkStopped
    <3>2. CASE loaded.status \notin Terminal \cup {"error"}
      BY <1>7, <2>1, <3>2, DoneStatus, StatusValues DEF MarkStopped
    <3>3. QED
      BY <3>1, <3>2
  <2>3. QED
    BY <1>7, <1>c, <2>1, <2>2 DEF MarkStopped, AllKept, Latest
<1>8. CASE Leave
  <2>1. slice = None
    BY <1>8, <1>a, <1>c DEF Leave, AllKept, ThreadsOK
  <2>2. QED
    BY <1>8, <1>c, <2>1 DEF Leave, Gone, AllKept, Latest
<1>9. CASE UNCHANGED vars
  BY <1>9, <1>c DEF vars, progress, AllKept, Latest
<1>10. QED
  BY <1>b, <1>1, <1>2, <1>3, <1>4, <1>5, <1>6, <1>7, <1>8, <1>9
     DEF Next, LabNext, MainNext

\* A pair is tested again only after a slice was lost to a fault.
THEOREM RepeatsCorrect == Spec => []RepeatsOnlyAfterFaults
<1>1. Init => NoRepeatInv
  BY InitInv DEF Init, NoRepeatInv, AllKept
<1>2. NoRepeatInv /\ [Next]_vars => NoRepeatInv'
  BY StepInv, StepKept DEF NoRepeatInv
<1>3. NoRepeatInv => RepeatsOnlyAfterFaults
  BY FaultsAssumption DEF NoRepeatInv, Inv, ThreadsOK, AllKept, RepeatsOnlyAfterFaults
<1>4. QED
  BY <1>1, <1>2, <1>3, PTL DEF Spec

=============================================================================
