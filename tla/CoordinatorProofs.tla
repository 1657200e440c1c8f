------------------------- MODULE CoordinatorProofs -------------------------
(***************************************************************************)
(* Proofs about Coordinator, for every value of its constants: its         *)
(* invariants, what no call may do, and that it implements CoverageLedger. *)
(***************************************************************************)
EXTENDS Coordinator, FiniteSetTheorems, WellFoundedInduction, TLAPS

-----------------------------------------------------------------------------
(***************************************************************************)
(* Type correctness                                                        *)
(***************************************************************************)

\* A released row, a granted row and a finished row are rows.
LEMMA RowTypes ==
  ASSUME NEW row \in Row
  PROVE  /\ Released(row) \in Row
         /\ \A w \in Workers, t \in Tokens, d \in Nat : Granted(row, w, t, d) \in Row
         /\ \A n \in Nat, k \in Keys \cup {Null} : Finished(row, n, k) \in Row
         /\ [row EXCEPT !.key = Null] \in Row
  BY DEF Row, Released, Granted, Finished, Kind

\* The row of a chunk that was never allocated is a row.
LEMMA NoRowType == NoRow \in Row
  BY DEF NoRow, Row

\* The chunk set is finite, hence every set of chunks is.
LEMMA ChunksFinite ==
  /\ IsFiniteSet(Chunks)
  /\ Cardinality(Chunks) = Total
  /\ \A S \in SUBSET Chunks : IsFiniteSet(S) /\ Cardinality(S) \in Nat
<1>1. IsFiniteSet(Chunks) /\ Cardinality(Chunks) = Total
  BY FS_Interval, TotalAssumption DEF Chunks
<1>2. QED
  BY <1>1, FS_Subset, FS_CardinalityType

\* A sweep keeps the table a table and counts a natural number of rows.
LEMMA SweepTypes ==
  ASSUME TypeOK, NEW at \in Nat
  PROVE  /\ Swept(at) \in [Chunks -> Row]
         /\ ExpiredAt(at) \in SUBSET Chunks
         /\ Cardinality(ExpiredAt(at)) \in Nat
         /\ Retryable(at) \in SUBSET Chunks
<1>1. ExpiredAt(at) \in SUBSET Chunks
  BY DEF ExpiredAt, Leased
<1>2. Swept(at) \in [Chunks -> Row]
  BY RowTypes DEF Swept, TypeOK
<1>3. QED
  BY <1>1, <1>2, ChunksFinite DEF Retryable

\* A token that was never issued exists until the bound is reached.
LEMMA FreshTokenType ==
  ASSUME TypeOK, issued # Tokens
  PROVE  FreshToken \in Tokens /\ FreshToken \notin issued
<1>1. \E t \in Tokens : t \notin issued
  BY DEF TypeOK
<1>2. QED
  BY <1>1 DEF FreshToken

\* Every call keeps every column in its type.
LEMMA TypeStep == TypeOK /\ [Next]_vars => TypeOK'
<1>. SUFFICES ASSUME TypeOK, [Next]_vars PROVE TypeOK'
  OBVIOUS
<1>. USE TimeAssumption
<1>1. CASE Tick
  BY <1>1 DEF Tick, TypeOK, modeVars, creditVars, countVars
<1>2. CASE LeaseCall
  <2>1. PICK at \in Readings :
          \/ \E w \in Workers, term \in LeaseTerms :
               LeaseRetry(w, at, term) \/ LeaseFresh(w, at, term)
          \/ LeaseNone(at)
    BY <1>2 DEF LeaseCall
  <2>2. at \in Nat /\ Swept(at) \in [Chunks -> Row]
        /\ Cardinality(ExpiredAt(at)) \in Nat /\ Retryable(at) \in SUBSET Chunks
    BY SweepTypes DEF Readings, TypeOK
  <2>3. ASSUME NEW w \in Workers, NEW term \in LeaseTerms, LeaseRetry(w, at, term)
        PROVE  TypeOK'
    <3>1. FreshToken \in Tokens /\ at + term \in Nat
      <4>1. issued # Tokens
        BY <2>3 DEF LeaseRetry
      <4>2. QED
        BY <2>2, <4>1, FreshTokenType
    <3>2. PICK c \in Retryable(at) :
            work' = [Swept(at) EXCEPT ![c] = Granted(@, w, FreshToken, at + term)]
      BY <2>3 DEF LeaseRetry
    <3>3. c \in Chunks /\ Granted(Swept(at)[c], w, FreshToken, at + term) \in Row
      BY <3>1, <2>2, RowTypes
    <3>4. work' \in [Chunks -> Row]
      BY <3>2, <3>3, <2>2
    <3>5. QED
      BY <2>2, <2>3, <3>1, <3>4
      DEF LeaseRetry, Reclaim, TypeOK, modeVars, creditVars
  <2>4. ASSUME NEW w \in Workers, NEW term \in LeaseTerms, LeaseFresh(w, at, term)
        PROVE  TypeOK'
    <3>1. FreshToken \in Tokens /\ at + term \in Nat
      BY <2>2, <2>4, FreshTokenType DEF LeaseFresh
    <3>2. PICK c \in Proposed : work' = [work EXCEPT ![c] = NewRow(w, at + term)]
      BY <2>4 DEF LeaseFresh
    <3>3. NewRow(w, at + term) \in Row
      <4>1. [NoRow EXCEPT !.seq = next_sequence] \in Row
        BY DEF NoRow, Row, TypeOK
      <4>2. QED
        BY <3>1, <4>1, RowTypes DEF NewRow
    <3>4. work' \in [Chunks -> Row]
      BY <3>2, <3>3 DEF TypeOK
    <3>5. QED
      BY <2>4, <3>1, <3>4 DEF LeaseFresh, TypeOK, modeVars, creditVars
  <2>5. CASE LeaseNone(at)
    BY <2>2, <2>5
    DEF LeaseNone, Reclaim, MarkedState, TypeOK, modeVars, creditVars
  <2>6. QED
    BY <2>1, <2>3, <2>4, <2>5
<1>3. CASE TokenCall
  <2>1. PICK t \in Tokens, w \in Workers :
          \/ \E at \in Readings, term \in LeaseTerms : Heartbeat(t, w, at, term)
          \/ \E at \in Readings, checked \in Counts, key \in Keys \cup {Null} :
               Complete(t, w, checked, key, at)
          \/ Fail(t, w)
    BY <1>3 DEF TokenCall
  <2>2. ASSUME NEW c \in Leased, NEW at \in Nat, RejectExpired(c, at)
        PROVE  TypeOK'
    <3>1. work' \in [Chunks -> Row]
      BY <2>2, RowTypes DEF RejectExpired, TypeOK, Leased
    <3>2. QED
      BY <2>2, <3>1 DEF RejectExpired, TypeOK, modeVars, creditVars
  <2>3. ASSUME NEW c \in Leased, NEW at \in Nat, NEW term \in LeaseTerms,
               Extend(c, at, term)
        PROVE  TypeOK'
    <3>1. work' \in [Chunks -> Row]
      BY <2>3 DEF Extend, TypeOK, Row, Leased
    <3>2. QED
      BY <2>3, <3>1 DEF Extend, TypeOK, modeVars, creditVars, countVars
  <2>4. ASSUME NEW c \in Leased, NEW checked \in Nat, NEW key \in Keys \cup {Null},
               Credit(c, t, w, checked, key)
        PROVE  TypeOK'
    <3>1. work' \in [Chunks -> Row]
      BY <2>4, RowTypes DEF Credit, TypeOK, Leased
    <3>2. accepted' \in SUBSET Completion
      BY <2>4 DEF Credit, TypeOK, Completion
    <3>3. QED
      BY <2>4, <3>1, <3>2
      DEF Credit, CompletedIncrement, MarkedState, TypeOK, modeVars, countVars
  <2>5. CASE \E at \in Readings, term \in LeaseTerms : Heartbeat(t, w, at, term)
    BY <2>2, <2>3, <2>5 DEF Heartbeat, Readings, TypeOK
  <2>6. CASE \E at \in Readings, checked \in Counts, key \in Keys \cup {Null} :
               Complete(t, w, checked, key, at)
    <3>1. Counts \subseteq Nat
      BY SizeAssumption DEF Counts
    <3>2. PICK at \in Nat, checked \in Nat, key \in Keys \cup {Null} :
            Complete(t, w, checked, key, at)
      BY <2>6, <3>1 DEF Readings
    <3>3. PICK c \in Leased :
            RejectExpired(c, at) \/ Credit(c, t, w, checked, key)
      BY <3>2 DEF Complete
    <3>4. QED
      BY <2>2, <2>4, <3>3
  <2>7. CASE Fail(t, w)
    <3>1. PICK c \in Leased : work' = [work EXCEPT ![c] = Released(@)]
      BY <2>7 DEF Fail
    <3>2. work' \in [Chunks -> Row]
      BY <3>1, RowTypes DEF TypeOK, Leased
    <3>3. last_failure' \in Report
      BY <2>7 DEF Fail, Report
    <3>4. QED
      BY <2>7, <3>2, <3>3 DEF Fail, TypeOK, modeVars, creditVars
  <2>8. QED
    BY <2>1, <2>5, <2>6, <2>7
<1>4. CASE KeyCall
  <2>1. ASSUME NEW key \in Keys, RecordVerifiedCandidate(key)
        PROVE  TypeOK'
    BY <2>1 DEF RecordVerifiedCandidate, TypeOK, modeVars, creditVars, countVars
  <2>2. ASSUME NEW key \in Keys, ScrubFoundKey(key)
        PROVE  TypeOK'
    BY <2>2, RowTypes DEF ScrubFoundKey, TypeOK, modeVars, creditVars, countVars
  <2>3. QED
    BY <1>4, <2>1, <2>2 DEF KeyCall
<1>5. CASE OperatorCall
  <2>1. ASSUME NEW at \in Readings, Status(at)
        PROVE  TypeOK'
    <3>1. /\ Swept(at) \in [Chunks -> Row]
          /\ Cardinality(ExpiredAt(at)) \in Nat
      BY SweepTypes DEF Readings, TypeOK
    <3>2. QED
      BY <2>1, <3>1
      DEF Status, Reclaim, MarkedState, TypeOK, modeVars, creditVars
  <2>2. CASE EnableCold
    BY <2>2 DEF EnableCold, TypeOK, creditVars, countVars
  <2>3. CASE EnableHypothesis
    BY <2>3 DEF EnableHypothesis, TypeOK, creditVars, countVars
  <2>4. ASSUME NEW s \in Seeds, Reseed(s)
        PROVE  TypeOK'
    BY <2>4 DEF Reseed, TypeOK, creditVars, countVars
  <2>5. QED
    BY <1>5, <2>1, <2>2, <2>3, <2>4 DEF OperatorCall
<1>6. CASE UNCHANGED vars
  BY <1>6 DEF vars, TypeOK, modeVars, creditVars, countVars
<1>7. QED
  BY <1>1, <1>2, <1>3, <1>4, <1>5, <1>6 DEF Next

\* The database never holds a value outside the columns' types.
THEOREM TypeCorrect == Spec => []TypeOK
<1>1. Init => TypeOK
  BY NoRowType DEF Init, TypeOK
<1>2. QED
  BY <1>1, TypeStep, PTL DEF Spec

-----------------------------------------------------------------------------
(***************************************************************************)
(* The inductive invariant, written over a table so that a lease, which    *)
(* first sweeps and then grants, can be followed through both.             *)
(***************************************************************************)

AllocatedIn(tbl) == {c \in Chunks : tbl[c].state # "absent"}
HeldIn(tbl)      == {c \in Chunks : tbl[c].state \in {"leased", "completed"}}
NoMatchedIn(tbl) == {c \in Chunks : tbl[c].kind = "nomatch"}

\* The sequence numbers given out are exactly those below the cursor n, each
\* to one row.
SeqInv(tbl, n) ==
  /\ n = Cardinality(AllocatedIn(tbl))
  /\ {tbl[c].seq : c \in AllocatedIn(tbl)} = 0 .. n - 1
  /\ \A c, d \in AllocatedIn(tbl) : tbl[c].seq = tbl[d].seq => c = d

\* A result is there when and only when the row is completed; a no-match covers
\* its chunk and a found row is the target's chunk in a found campaign.
ResultInv(tbl, st) ==
  \A c \in Chunks :
    /\ tbl[c].state # "completed" => tbl[c].kind = "none"
    /\ tbl[c].state = "completed" =>
         \/ tbl[c].kind = "nomatch" /\ tbl[c].checked = Size[c]
         \/ tbl[c].kind = "found" /\ c = Home[Target] /\ st = "found"

\* While the affine order is in charge the rows are a prefix of it.
AffineInv ==
  planner_mode = "affine" /\ hypothesis_enabled = 0 =>
    \A c \in AllocatedIn(work) : Order[seed][work[c].seq] = c

Covered(tbl) ==
  \A c \in Chunks : /\ tbl[c].state = "completed"
                    /\ tbl[c].kind = "nomatch"
                    /\ tbl[c].checked = Size[c]

\* What holds of the table, the cursor and the verdict together.
TableInv(tbl, n, st) ==
  /\ SeqInv(tbl, n)
  /\ ResultInv(tbl, st)
  /\ st = "exhausted" => Covered(tbl)

\* What holds of the counters: every lease and every no-match counted once.
CountInv(tbl, done) ==
  /\ Cardinality(issued) =
       Cardinality(HeldIn(tbl)) + reclaimed_leases + total_failures
  /\ done = Cardinality(NoMatchedIn(tbl))

KeyInv == /\ found_key \in {Null, Target}
          /\ found_key # Null => state = "found"

IInv ==
  /\ TypeOK
  /\ TableInv(work, next_sequence, state)
  /\ CountInv(work, completed_chunks)
  /\ IsFiniteSet(issued)
  /\ AffineInv
  /\ KeyInv

-----------------------------------------------------------------------------
(***************************************************************************)
(* What each way of changing the table does to the parts of the invariant  *)
(***************************************************************************)

Put(tbl, c, row) == [tbl EXCEPT ![c] = row]

Freed(tbl, S) == [c \in Chunks |-> IF c \in S THEN Released(tbl[c]) ELSE tbl[c]]

\* Every set of rows counted above is finite.
LEMMA CountsFinite ==
  ASSUME NEW tbl
  PROVE  /\ AllocatedIn(tbl) \in SUBSET Chunks /\ HeldIn(tbl) \in SUBSET Chunks
         /\ NoMatchedIn(tbl) \in SUBSET Chunks
         /\ IsFiniteSet(AllocatedIn(tbl)) /\ Cardinality(AllocatedIn(tbl)) \in Nat
         /\ IsFiniteSet(HeldIn(tbl)) /\ Cardinality(HeldIn(tbl)) \in Nat
         /\ IsFiniteSet(NoMatchedIn(tbl)) /\ Cardinality(NoMatchedIn(tbl)) \in Nat
<1>1. /\ AllocatedIn(tbl) \in SUBSET Chunks
      /\ HeldIn(tbl) \in SUBSET Chunks
      /\ NoMatchedIn(tbl) \in SUBSET Chunks
  BY DEF AllocatedIn, HeldIn, NoMatchedIn
<1>2. QED
  BY <1>1, ChunksFinite

\* One more chunk counts for one.
LEMMA AddOne ==
  ASSUME NEW S \in SUBSET Chunks, NEW c \in Chunks, c \notin S
  PROVE  Cardinality(S \cup {c}) = Cardinality(S) + 1
<1>1. IsFiniteSet(S)
  BY ChunksFinite
<1>2. QED
  BY <1>1, FS_AddElement

\* Two tables that agree on which rows exist and on their sequence numbers
\* agree on SeqInv.
LEMMA SameSequences ==
  ASSUME NEW tbl, NEW new, NEW n, SeqInv(tbl, n),
         \A c \in Chunks : /\ new[c].seq = tbl[c].seq
                           /\ new[c].state = "absent" <=> tbl[c].state = "absent"
  PROVE  SeqInv(new, n) /\ AllocatedIn(new) = AllocatedIn(tbl)
<1>1. AllocatedIn(new) = AllocatedIn(tbl)
  BY DEF AllocatedIn
<1>2. {new[c].seq : c \in AllocatedIn(new)} = {tbl[c].seq : c \in AllocatedIn(tbl)}
  BY <1>1, CountsFinite
<1>3. QED
  BY <1>1, <1>2, CountsFinite DEF SeqInv

\* Releasing leased rows: nothing is unallocated and nothing loses its result.
LEMMA FreedTable ==
  ASSUME NEW tbl \in [Chunks -> Row], NEW n, NEW st,
         SeqInv(tbl, n), ResultInv(tbl, st),
         NEW S \in SUBSET {c \in Chunks : tbl[c].state = "leased"}
  PROVE  /\ SeqInv(Freed(tbl, S), n)
         /\ ResultInv(Freed(tbl, S), st)
         /\ AllocatedIn(Freed(tbl, S)) = AllocatedIn(tbl)
         /\ \A c \in Chunks : Freed(tbl, S)[c].seq = tbl[c].seq
         /\ NoMatchedIn(Freed(tbl, S)) = NoMatchedIn(tbl)
         /\ Cardinality(HeldIn(tbl)) =
              Cardinality(HeldIn(Freed(tbl, S))) + Cardinality(S)
<1>. DEFINE new == Freed(tbl, S)
<1>1. \A c \in Chunks :
        /\ new[c].seq = tbl[c].seq /\ new[c].kind = tbl[c].kind
        /\ new[c].checked = tbl[c].checked
        /\ c \in S => new[c].state = "available" /\ tbl[c].state = "leased"
        /\ c \notin S => new[c] = tbl[c]
  BY DEF Freed, Released, Row
<1>. HIDE DEF new
<1>2. SeqInv(new, n) /\ AllocatedIn(new) = AllocatedIn(tbl)
  BY <1>1, SameSequences
<1>3. ResultInv(new, st)
  BY <1>1 DEF ResultInv
<1>4. NoMatchedIn(new) = NoMatchedIn(tbl)
  BY <1>1 DEF NoMatchedIn
<1>5. HeldIn(new) = HeldIn(tbl) \ S /\ S \in SUBSET HeldIn(tbl)
  BY <1>1 DEF HeldIn
<1>6. Cardinality(HeldIn(new)) = Cardinality(HeldIn(tbl)) - Cardinality(S)
  <2>1. HeldIn(tbl) \cap S = S
    BY <1>5
  <2>2. QED
    BY <1>5, <2>1, CountsFinite, FS_Difference
<1>7. Cardinality(S) \in Nat
  BY ChunksFinite
<1>8. QED
  BY <1>1, <1>2, <1>3, <1>4, <1>6, <1>7, CountsFinite DEF new

\* Granting a waiting row.
LEMMA GrantedTable ==
  ASSUME NEW tbl \in [Chunks -> Row], NEW n, NEW st,
         SeqInv(tbl, n), ResultInv(tbl, st),
         NEW c \in Chunks, tbl[c].state = "available",
         NEW row, row.state = "leased", row.seq = tbl[c].seq,
         row.kind = tbl[c].kind
  PROVE  /\ SeqInv(Put(tbl, c, row), n)
         /\ ResultInv(Put(tbl, c, row), st)
         /\ AllocatedIn(Put(tbl, c, row)) = AllocatedIn(tbl)
         /\ \A b \in Chunks : Put(tbl, c, row)[b].seq = tbl[b].seq
         /\ NoMatchedIn(Put(tbl, c, row)) = NoMatchedIn(tbl)
         /\ Cardinality(HeldIn(Put(tbl, c, row))) = Cardinality(HeldIn(tbl)) + 1
<1>. DEFINE new == Put(tbl, c, row)
<1>1. \A b \in Chunks :
        /\ new[b].seq = tbl[b].seq /\ new[b].kind = tbl[b].kind
        /\ b = c => new[b].state = "leased"
        /\ b # c => new[b] = tbl[b]
  BY DEF Put
<1>. HIDE DEF new
<1>2. SeqInv(new, n) /\ AllocatedIn(new) = AllocatedIn(tbl)
  BY <1>1, SameSequences
<1>3. ResultInv(new, st)
  BY <1>1 DEF ResultInv
<1>4. NoMatchedIn(new) = NoMatchedIn(tbl)
  BY <1>1 DEF NoMatchedIn
<1>5. HeldIn(new) = HeldIn(tbl) \cup {c} /\ c \notin HeldIn(tbl)
  BY <1>1 DEF HeldIn
<1>6. Cardinality(HeldIn(new)) = Cardinality(HeldIn(tbl)) + 1
  BY <1>5, CountsFinite, AddOne
<1>7. QED
  BY <1>1, <1>2, <1>3, <1>4, <1>6 DEF new

\* Inserting a leased row with the next sequence number.
LEMMA InsertedTable ==
  ASSUME NEW tbl \in [Chunks -> Row], NEW n \in Nat, NEW st,
         SeqInv(tbl, n), ResultInv(tbl, st),
         NEW c \in Chunks, tbl[c].state = "absent",
         NEW row \in Row, row.state = "leased", row.seq = n, row.kind = "none"
  PROVE  /\ SeqInv(Put(tbl, c, row), n + 1)
         /\ ResultInv(Put(tbl, c, row), st)
         /\ AllocatedIn(Put(tbl, c, row)) = AllocatedIn(tbl) \cup {c}
         /\ \A b \in Chunks : b # c => Put(tbl, c, row)[b] = tbl[b]
         /\ Put(tbl, c, row)[c] = row
         /\ NoMatchedIn(Put(tbl, c, row)) = NoMatchedIn(tbl)
         /\ Cardinality(HeldIn(Put(tbl, c, row))) = Cardinality(HeldIn(tbl)) + 1
<1>. DEFINE new == Put(tbl, c, row)
<1>1. new[c] = row /\ \A b \in Chunks : b # c => new[b] = tbl[b]
  BY DEF Put
<1>. HIDE DEF new
<1>2. tbl[c].kind = "none"
  BY DEF ResultInv
<1>3. ResultInv(new, st)
  BY <1>1 DEF ResultInv
<1>4. NoMatchedIn(new) = NoMatchedIn(tbl)
  BY <1>1, <1>2 DEF NoMatchedIn
<1>5. HeldIn(new) = HeldIn(tbl) \cup {c} /\ c \notin HeldIn(tbl)
  BY <1>1 DEF HeldIn
<1>6. AllocatedIn(new) = AllocatedIn(tbl) \cup {c} /\ c \notin AllocatedIn(tbl)
  BY <1>1 DEF AllocatedIn
<1>7. Cardinality(AllocatedIn(new)) = n + 1
  <2>1. Cardinality(AllocatedIn(tbl) \cup {c}) = Cardinality(AllocatedIn(tbl)) + 1
    BY <1>6, CountsFinite, AddOne
  <2>2. QED
    BY <1>6, <2>1 DEF SeqInv
<1>8. {new[b].seq : b \in AllocatedIn(new)} = 0 .. (n + 1) - 1
  <2>1. {new[b].seq : b \in AllocatedIn(new)} =
          {tbl[b].seq : b \in AllocatedIn(tbl)} \cup {n}
    <3>1. \A b \in AllocatedIn(tbl) : b \in Chunks /\ b # c
      BY <1>6, CountsFinite
    <3>2. \A b \in AllocatedIn(tbl) : new[b].seq = tbl[b].seq
      BY <1>1, <3>1
    <3>3. {new[b].seq : b \in AllocatedIn(tbl) \cup {c}} =
            {new[b].seq : b \in AllocatedIn(tbl)} \cup {new[c].seq}
      OBVIOUS
    <3>4. {new[b].seq : b \in AllocatedIn(tbl)} = {tbl[b].seq : b \in AllocatedIn(tbl)}
      BY <3>2
    <3>5. QED
      BY <1>1, <1>6, <3>3, <3>4
  <2>2. 0 .. (n + 1) - 1 = (0 .. n - 1) \cup {n}
    OBVIOUS
  <2>3. {tbl[b].seq : b \in AllocatedIn(tbl)} = 0 .. n - 1
    BY DEF SeqInv
  <2>4. QED
    BY <2>1, <2>2, <2>3
<1>9. \A a, b \in AllocatedIn(new) : new[a].seq = new[b].seq => a = b
  <2>1. \A b \in AllocatedIn(tbl) : tbl[b].seq # n
    BY DEF SeqInv
  <2>2. \A b \in AllocatedIn(tbl) : new[b] = tbl[b]
    BY <1>1, <1>6, CountsFinite
  <2>3. QED
    BY <1>1, <1>6, <2>1, <2>2 DEF SeqInv
<1>10. Cardinality(HeldIn(new)) = Cardinality(HeldIn(tbl)) + 1
  BY <1>5, CountsFinite, AddOne
<1>11. SeqInv(new, n + 1)
  BY <1>7, <1>8, <1>9 DEF SeqInv
<1>12. QED
  BY <1>1, <1>3, <1>4, <1>6, <1>10, <1>11 DEF new

\* Completing a leased row.
LEMMA FinishedTable ==
  ASSUME NEW tbl \in [Chunks -> Row], NEW n, NEW st,
         SeqInv(tbl, n), ResultInv(tbl, st),
         NEW c \in Chunks, tbl[c].state = "leased",
         NEW checked \in Nat, NEW key \in Keys \cup {Null},
         Plausible(c, checked, key),
         NEW new, new = Put(tbl, c, Finished(tbl[c], checked, key))
  PROVE  /\ SeqInv(new, n)
         /\ ResultInv(new, IF key = Null THEN st ELSE "found")
         /\ AllocatedIn(new) = AllocatedIn(tbl)
         /\ \A b \in Chunks : new[b].seq = tbl[b].seq
         /\ HeldIn(new) = HeldIn(tbl)
         /\ Cardinality(NoMatchedIn(new)) =
              Cardinality(NoMatchedIn(tbl)) + CompletedIncrement(key)
<1>1. \A b \in Chunks :
        /\ new[b].seq = tbl[b].seq
        /\ b = c => /\ new[b].state = "completed"
                    /\ new[b].kind = Kind(key)
                    /\ new[b].checked = checked
        /\ b # c => new[b] = tbl[b]
  BY DEF Put, Finished, Row
<1>2. SeqInv(new, n) /\ AllocatedIn(new) = AllocatedIn(tbl)
  BY <1>1, SameSequences
<1>3. ResultInv(new, IF key = Null THEN st ELSE "found")
  BY <1>1 DEF ResultInv, Plausible, Kind
<1>4. HeldIn(new) = HeldIn(tbl)
  BY <1>1 DEF HeldIn
<1>5. tbl[c].kind = "none"
  BY DEF ResultInv
<1>6. CASE key = Null
  <2>1. NoMatchedIn(new) = NoMatchedIn(tbl) \cup {c} /\ c \notin NoMatchedIn(tbl)
    BY <1>1, <1>5, <1>6 DEF NoMatchedIn, Kind
  <2>2. Cardinality(NoMatchedIn(new)) = Cardinality(NoMatchedIn(tbl)) + 1
    BY <2>1, CountsFinite, FS_AddElement
  <2>3. QED
    BY <1>1, <1>2, <1>3, <1>4, <1>6, <2>2 DEF CompletedIncrement
<1>7. CASE key # Null
  <2>1. NoMatchedIn(new) = NoMatchedIn(tbl)
    BY <1>1, <1>5, <1>7 DEF NoMatchedIn, Kind
  <2>2. QED
    BY <1>1, <1>2, <1>3, <1>4, <1>7, <2>1, CountsFinite DEF CompletedIncrement
<1>8. QED
  BY <1>6, <1>7

-----------------------------------------------------------------------------
(***************************************************************************)
(* Every action preserves the invariant                                    *)
(***************************************************************************)

\* _mark_exhausted_if_done only gives the verdict to a fully covered table.
LEMMA Marked ==
  ASSUME TypeOK, NEW tbl, TableInv(tbl, next_sequence, state)
  PROVE  TableInv(tbl, next_sequence, MarkedState(tbl))
<1>1. CASE MarkedState(tbl) = state
  BY <1>1
<1>2. CASE MarkedState(tbl) # state
  <2>1. /\ state = "running" /\ next_sequence >= Total
        /\ MarkedState(tbl) = "exhausted"
        /\ \A c \in Chunks : tbl[c].state \in {"absent", "completed"}
    BY <1>2 DEF MarkedState
  <2>2. AllocatedIn(tbl) = Chunks
    <3>1. /\ Cardinality(AllocatedIn(tbl)) = next_sequence
          /\ SeqInv(tbl, next_sequence) /\ ResultInv(tbl, state)
      BY DEF TableInv, SeqInv
    <3>2. Cardinality(AllocatedIn(tbl)) <= Total
      BY ChunksFinite, CountsFinite, FS_Subset
    <3>3. Cardinality(AllocatedIn(tbl)) = Cardinality(Chunks)
      BY <2>1, <3>1, <3>2, ChunksFinite, CountsFinite, TotalAssumption DEF TypeOK
    <3>4. QED
      BY <3>3, ChunksFinite, CountsFinite, FS_Subset
  <2>3. \A c \in Chunks : tbl[c].state = "completed"
    BY <2>1, <2>2 DEF AllocatedIn
  <2>4. Covered(tbl)
    BY <2>1, <2>3 DEF Covered, TableInv, ResultInv
  <2>5. ResultInv(tbl, "exhausted")
    BY <2>4 DEF Covered, ResultInv
  <2>6. QED
    BY <2>1, <2>4, <2>5 DEF TableInv
<1>3. QED
  BY <1>1, <1>2

\* Releasing leased rows keeps the table's invariant, whatever the verdict.
LEMMA FreedInv ==
  ASSUME NEW tbl \in [Chunks -> Row], NEW n, NEW st, TableInv(tbl, n, st),
         NEW S \in SUBSET {c \in Chunks : tbl[c].state = "leased"}
  PROVE  TableInv(Freed(tbl, S), n, st)
<1>1. ASSUME st = "exhausted" PROVE Covered(Freed(tbl, S))
  <2>1. Covered(tbl)
    BY <1>1 DEF TableInv
  <2>2. \A c \in Chunks : c \notin S
    BY <2>1 DEF Covered
  <2>3. QED
    BY <2>1, <2>2 DEF Covered, Freed
<1>2. QED
  BY <1>1, FreedTable DEF TableInv

\* The sweep, and a single release, are releases.
LEMMA SweepIsFreed ==
  ASSUME TypeOK
  PROVE  /\ \A at : /\ Swept(at) = Freed(work, ExpiredAt(at))
                    /\ ExpiredAt(at) \in SUBSET Leased
         /\ \A c \in Leased : [work EXCEPT ![c] = Released(@)] = Freed(work, {c})
         /\ Leased \in SUBSET {c \in Chunks : work[c].state = "leased"}
<1>1. \A c \in Leased : [work EXCEPT ![c] = Released(@)] = Freed(work, {c})
  BY DEF Freed, Leased, TypeOK
<1>2. QED
  BY <1>1 DEF Swept, Freed, ExpiredAt, Leased

\* The primed invariant over primed arguments, as the steps below establish it.
LEMMA NextIInv ==
  ASSUME TypeOK', TableInv(work', next_sequence', state'),
         Cardinality(issued') =
           Cardinality(HeldIn(work')) + reclaimed_leases' + total_failures',
         completed_chunks' = Cardinality(NoMatchedIn(work')),
         IsFiniteSet(issued'), AffineInv', KeyInv'
  PROVE  IInv'
<1>1. TableInv(work, next_sequence, state)'
  BY DEF TableInv, SeqInv, ResultInv, Covered, AllocatedIn
<1>2. CountInv(work, completed_chunks)'
  BY DEF CountInv, HeldIn, NoMatchedIn
<1>3. QED
  BY <1>1, <1>2 DEF IInv

\* Any call that only releases leased rows and counts them, and then perhaps
\* marks the campaign exhausted: lease without work, status, fail, and the
\* expired branch of heartbeat and complete.
LEMMA ReleaseStep ==
  ASSUME IInv, TypeOK', NEW S \in SUBSET Leased,
         work' = Freed(work, S),
         reclaimed_leases' + total_failures' =
           reclaimed_leases + total_failures + Cardinality(S),
         state' \in {state, MarkedState(work')},
         UNCHANGED <<planner_mode, hypothesis_enabled, seed, next_sequence,
                     completed_chunks, found_key, issued>>
  PROVE  IInv'
<1>1. /\ TypeOK /\ work \in [Chunks -> Row]
      /\ TableInv(work, next_sequence, state)
      /\ CountInv(work, completed_chunks)
      /\ S \in SUBSET {c \in Chunks : work[c].state = "leased"}
      /\ Cardinality(S) \in Nat
  BY ChunksFinite DEF IInv, TypeOK, Leased
<1>2. TableInv(work', next_sequence, state)
  BY <1>1, FreedInv
<1>3. TableInv(work', next_sequence', state')
  BY <1>1, <1>2, Marked
<1>4. /\ AllocatedIn(work') = AllocatedIn(work)
      /\ \A c \in Chunks : work'[c].seq = work[c].seq
      /\ NoMatchedIn(work') = NoMatchedIn(work)
      /\ Cardinality(HeldIn(work)) = Cardinality(HeldIn(work')) + Cardinality(S)
  BY <1>1, FreedTable DEF TableInv
<1>5. AffineInv'
  BY <1>4, CountsFinite DEF IInv, AffineInv, AllocatedIn
<1>6. KeyInv'
  BY DEF IInv, KeyInv, MarkedState
<1>7. Cardinality(issued') =
        Cardinality(HeldIn(work')) + reclaimed_leases' + total_failures'
  BY <1>1, <1>4, CountsFinite DEF CountInv, TypeOK
<1>8. QED
  BY <1>1, <1>3, <1>4, <1>5, <1>6, <1>7, NextIInv DEF IInv, CountInv

\* A lease that retries a waiting row keeps the invariant: what its sweep
\* releases and its grant takes balance in the counters.
LEMMA LeaseRetryStep ==
  ASSUME IInv, TypeOK', NEW w \in Workers, NEW at \in Nat, NEW term \in LeaseTerms,
         LeaseRetry(w, at, term)
  PROVE  IInv'
<1>. DEFINE mid == Swept(at)
<1>1. /\ TypeOK /\ work \in [Chunks -> Row]
      /\ TableInv(work, next_sequence, state)
      /\ CountInv(work, completed_chunks)
      /\ IsFiniteSet(issued) /\ issued # Tokens
  BY DEF IInv, TypeOK, LeaseRetry
<1>2. /\ mid = Freed(work, ExpiredAt(at))
      /\ ExpiredAt(at) \in SUBSET {c \in Chunks : work[c].state = "leased"}
  BY <1>1, SweepIsFreed
<1>3. /\ SeqInv(mid, next_sequence) /\ ResultInv(mid, state)
      /\ AllocatedIn(mid) = AllocatedIn(work)
      /\ \A c \in Chunks : mid[c].seq = work[c].seq
      /\ NoMatchedIn(mid) = NoMatchedIn(work)
      /\ Cardinality(HeldIn(work)) =
           Cardinality(HeldIn(mid)) + Cardinality(ExpiredAt(at))
  BY <1>1, <1>2, FreedTable DEF TableInv
<1>4. PICK c \in Retryable(at) :
        work' = [mid EXCEPT ![c] = Granted(@, w, FreshToken, at + term)]
  BY DEF LeaseRetry
<1>. DEFINE row == Granted(mid[c], w, FreshToken, at + term)
<1>5. /\ mid \in [Chunks -> Row] /\ c \in Chunks /\ mid[c].state = "available"
      /\ row.state = "leased" /\ row.seq = mid[c].seq /\ row.kind = mid[c].kind
      /\ work' = Put(mid, c, row)
  <2>1. mid \in [Chunks -> Row] /\ c \in Chunks
    BY <1>1, SweepTypes
  <2>2. mid[c].state = "available"
    BY <2>1, <1>1, <1>4 DEF Retryable, Swept, Released, Row
  <2>3. mid[c] \in Row
    BY <2>1
  <2>. HIDE DEF mid
  <2>4. row.state = "leased" /\ row.seq = mid[c].seq /\ row.kind = mid[c].kind
    BY <2>3 DEF Granted, Row
  <2>5. QED
    BY <2>1, <2>2, <2>4, <1>4 DEF Put
<1>. HIDE DEF mid, row
<1>6. /\ SeqInv(work', next_sequence) /\ ResultInv(work', state)
      /\ AllocatedIn(work') = AllocatedIn(work)
      /\ \A b \in Chunks : work'[b].seq = work[b].seq
      /\ NoMatchedIn(work') = NoMatchedIn(work)
      /\ Cardinality(HeldIn(work')) = Cardinality(HeldIn(mid)) + 1
  BY <1>3, <1>5, GrantedTable
<1>7. /\ state' = state /\ state = "running"
      /\ UNCHANGED <<planner_mode, hypothesis_enabled, seed, next_sequence,
                     completed_chunks, found_key, total_failures>>
      /\ issued' = issued \cup {FreshToken}
      /\ reclaimed_leases' = reclaimed_leases + Cardinality(ExpiredAt(at))
  BY DEF LeaseRetry, Reclaim, modeVars, creditVars
<1>8. TableInv(work', next_sequence', state')
  BY <1>6, <1>7 DEF TableInv
<1>9. IsFiniteSet(issued') /\ Cardinality(issued') = Cardinality(issued) + 1
  BY <1>1, <1>7, FreshTokenType, FS_AddElement
<1>10. Cardinality(issued') =
         Cardinality(HeldIn(work')) + reclaimed_leases' + total_failures'
  <2>1. Cardinality(ExpiredAt(at)) \in Nat
    BY <1>1, SweepTypes
  <2>2. QED
    BY <1>1, <1>3, <1>6, <1>7, <1>9, <2>1, CountsFinite DEF CountInv, TypeOK
<1>11. AffineInv' /\ KeyInv'
  <2>1. AffineInv'
    BY <1>6, <1>7, CountsFinite DEF IInv, AffineInv, AllocatedIn
  <2>2. KeyInv'
    BY <1>7 DEF IInv, KeyInv
  <2>3. QED
    BY <2>1, <2>2
<1>12. QED
  BY <1>1, <1>6, <1>7, <1>8, <1>9, <1>10, <1>11, NextIInv DEF CountInv

\* A lease that allocates keeps the invariant: the new row takes the next
\* sequence number, and in affine order the chunk that number stands for.
LEMMA LeaseFreshStep ==
  ASSUME IInv, TypeOK', NEW w \in Workers, NEW at \in Nat, NEW term \in LeaseTerms,
         LeaseFresh(w, at, term)
  PROVE  IInv'
<1>1. /\ TypeOK /\ work \in [Chunks -> Row] /\ next_sequence \in Nat
      /\ TableInv(work, next_sequence, state)
      /\ CountInv(work, completed_chunks)
      /\ IsFiniteSet(issued) /\ issued # Tokens /\ state = "running"
  BY DEF IInv, TypeOK, LeaseFresh
<1>2. FreshToken \in Tokens /\ FreshToken \notin issued
  BY <1>1, FreshTokenType
<1>3. PICK c \in Proposed :
        c \notin Allocated /\ work' = [work EXCEPT ![c] = NewRow(w, at + term)]
  BY DEF LeaseFresh
<1>4. /\ state' = state /\ next_sequence' = next_sequence + 1
      /\ UNCHANGED <<planner_mode, hypothesis_enabled, seed, completed_chunks,
                     found_key, reclaimed_leases, total_failures>>
      /\ issued' = issued \cup {FreshToken}
      /\ next_sequence < Total
  BY DEF LeaseFresh, modeVars, creditVars
<1>5. /\ c \in Chunks /\ work[c].state = "absent"
      /\ planner_mode = "affine" /\ hypothesis_enabled = 0 =>
           c = Order[seed][next_sequence]
  <2>1. next_sequence \in Chunks
    BY <1>1, <1>4, TotalAssumption DEF Chunks
  <2>2. Order[seed][next_sequence] \in Chunks
    BY <1>1, <2>1, OrderAssumption DEF TypeOK
  <2>3. QED
    BY <1>3, <2>2 DEF Proposed, Allocated
<1>6. /\ NewRow(w, at + term) \in Row
      /\ NewRow(w, at + term).state = "leased"
      /\ NewRow(w, at + term).seq = next_sequence
      /\ NewRow(w, at + term).kind = "none"
  <2>1. at + term \in Nat
    BY TimeAssumption
  <2>2. QED
    BY <1>1, <1>2, <2>1 DEF NewRow, NoRow, Granted, Row
<1>7. /\ SeqInv(work', next_sequence + 1) /\ ResultInv(work', state)
      /\ AllocatedIn(work') = AllocatedIn(work) \cup {c}
      /\ \A b \in Chunks : b # c => work'[b] = work[b]
      /\ work'[c] = NewRow(w, at + term)
      /\ NoMatchedIn(work') = NoMatchedIn(work)
      /\ Cardinality(HeldIn(work')) = Cardinality(HeldIn(work)) + 1
  <2>1. work' = Put(work, c, NewRow(w, at + term))
    BY <1>3 DEF Put
  <2>2. QED
    BY <1>1, <1>5, <1>6, <2>1, InsertedTable DEF TableInv
<1>8. TableInv(work', next_sequence', state')
  BY <1>1, <1>4, <1>7 DEF TableInv
<1>9. IsFiniteSet(issued') /\ Cardinality(issued') = Cardinality(issued) + 1
  BY <1>1, <1>2, <1>4, FS_AddElement
<1>10. Cardinality(issued') =
         Cardinality(HeldIn(work')) + reclaimed_leases' + total_failures'
  BY <1>1, <1>4, <1>7, <1>9, CountsFinite DEF CountInv, TypeOK
<1>11. AffineInv'
  <2>. SUFFICES ASSUME planner_mode = "affine", hypothesis_enabled = 0,
                       NEW b \in AllocatedIn(work')
                PROVE  Order[seed][work'[b].seq] = b
    BY <1>4 DEF AffineInv, AllocatedIn
  <2>1. CASE b = c
    BY <2>1, <1>5, <1>6, <1>7
  <2>2. CASE b # c
    BY <2>2, <1>7, CountsFinite DEF IInv, AffineInv
  <2>3. QED
    BY <2>1, <2>2
<1>12. KeyInv'
  BY <1>4 DEF IInv, KeyInv
<1>13. QED
  BY <1>1, <1>4, <1>7, <1>8, <1>9, <1>10, <1>11, <1>12, NextIInv DEF CountInv

\* Extending a lease, like scrubbing a key, changes no column the invariant
\* looks at.
LEMMA QuietStep ==
  ASSUME IInv, TypeOK',
         \A c \in Chunks : /\ work'[c].state = work[c].state
                           /\ work'[c].seq = work[c].seq
                           /\ work'[c].kind = work[c].kind
                           /\ work'[c].checked = work[c].checked,
         UNCHANGED <<state, planner_mode, hypothesis_enabled, seed, next_sequence,
                     completed_chunks, reclaimed_leases, total_failures, issued>>,
         found_key' \in {found_key, Null}
  PROVE  IInv'
<1>1. /\ TableInv(work, next_sequence, state)
      /\ CountInv(work, completed_chunks)
      /\ IsFiniteSet(issued)
  BY DEF IInv
<1>2. SeqInv(work', next_sequence) /\ AllocatedIn(work') = AllocatedIn(work)
  BY <1>1, SameSequences DEF TableInv
<1>3. ResultInv(work', state) /\ (state = "exhausted" => Covered(work'))
  BY <1>1 DEF TableInv, ResultInv, Covered
<1>4. TableInv(work', next_sequence', state')
  BY <1>2, <1>3 DEF TableInv
<1>5. HeldIn(work') = HeldIn(work) /\ NoMatchedIn(work') = NoMatchedIn(work)
  BY DEF HeldIn, NoMatchedIn
<1>6. AffineInv'
  BY <1>2, CountsFinite DEF IInv, AffineInv, AllocatedIn
<1>7. KeyInv'
  BY NullAssumption, KeyAssumption DEF IInv, KeyInv
<1>8. QED
  BY <1>1, <1>4, <1>5, <1>6, <1>7, NextIInv DEF CountInv

\* An accepted result keeps the invariant: it turns one held row into a result
\* and counts it once.
LEMMA CreditStep ==
  ASSUME IInv, TypeOK', NEW c \in Leased, NEW t, NEW w, NEW checked \in Nat,
         NEW key \in Keys \cup {Null}, Plausible(c, checked, key),
         Credit(c, t, w, checked, key)
  PROVE  IInv'
<1>. DEFINE row == Finished(work[c], checked, key)
            st == IF key = Null THEN state ELSE "found"
<1>1. /\ TypeOK /\ work \in [Chunks -> Row] /\ c \in Chunks
      /\ work[c].state = "leased"
      /\ TableInv(work, next_sequence, state)
      /\ CountInv(work, completed_chunks)
      /\ IsFiniteSet(issued)
  BY DEF IInv, TypeOK, Leased
<1>2. /\ work' = Put(work, c, row)
      /\ completed_chunks' = completed_chunks + CompletedIncrement(key)
      /\ UNCHANGED <<planner_mode, hypothesis_enabled, seed, next_sequence,
                     reclaimed_leases, total_failures, issued>>
      /\ key = Null => state' = MarkedState(work') /\ found_key' = found_key
      /\ key # Null => state' = "found" /\ found_key' = key
  BY DEF Credit, Put, modeVars, countVars
<1>3. /\ SeqInv(work', next_sequence) /\ ResultInv(work', st)
      /\ AllocatedIn(work') = AllocatedIn(work)
      /\ \A b \in Chunks : work'[b].seq = work[b].seq
      /\ HeldIn(work') = HeldIn(work)
      /\ Cardinality(NoMatchedIn(work')) =
           Cardinality(NoMatchedIn(work)) + CompletedIncrement(key)
  <2>1. SeqInv(work, next_sequence) /\ ResultInv(work, state)
    BY <1>1 DEF TableInv
  <2>2. QED
    BY <1>1, <1>2, <2>1, FinishedTable
<1>4. state # "exhausted"
  BY <1>1 DEF TableInv, Covered
<1>5. TableInv(work', next_sequence, st)
  BY <1>3, <1>4 DEF TableInv
<1>6. TableInv(work', next_sequence', state')
  <2>1. CASE key = Null
    BY <2>1, <1>1, <1>2, <1>5, Marked
  <2>2. CASE key # Null
    BY <2>2, <1>2, <1>5
  <2>3. QED
    BY <2>1, <2>2
<1>7. AffineInv'
  BY <1>2, <1>3, CountsFinite DEF IInv, AffineInv, AllocatedIn
<1>8. KeyInv'
  BY <1>2 DEF IInv, KeyInv, MarkedState, Plausible
<1>9. QED
  BY <1>1, <1>2, <1>3, <1>6, <1>7, <1>8, NextIInv DEF CountInv

\* The mode changes, a candidate found outside a lease and the clock leave the
\* table and the counters alone.
LEMMA NoRowStep ==
  ASSUME IInv, TypeOK', AffineInv', KeyInv',
         UNCHANGED <<work, next_sequence, completed_chunks, reclaimed_leases,
                     total_failures, issued>>,
         state' \in {state, "found"}
  PROVE  IInv'
<1>1. /\ TableInv(work, next_sequence, state)
      /\ CountInv(work, completed_chunks)
      /\ IsFiniteSet(issued)
  BY DEF IInv
<1>2. TableInv(work', next_sequence', state')
  BY <1>1 DEF TableInv, ResultInv
<1>3. QED
  BY <1>1, <1>2, NextIInv DEF CountInv

\* A heartbeat or completion that comes too late keeps the invariant.
LEMMA RejectExpiredStep ==
  ASSUME IInv, TypeOK', NEW at, NEW c \in Leased, RejectExpired(c, at)
  PROVE  IInv'
<1>1. work' = Freed(work, {c})
  BY SweepIsFreed DEF RejectExpired, IInv
<1>2. Cardinality({c}) = 1 /\ {c} \in SUBSET Leased
  BY FS_Singleton
<1>3. /\ reclaimed_leases' + total_failures' =
           reclaimed_leases + total_failures + Cardinality({c})
      /\ state' = state
      /\ UNCHANGED <<planner_mode, hypothesis_enabled, seed, next_sequence,
                     completed_chunks, found_key, issued>>
  BY <1>2 DEF RejectExpired, modeVars, creditVars, IInv, TypeOK
<1>4. QED
  BY <1>1, <1>2, <1>3, ReleaseStep

\* A call that sweeps and marks: status, and a lease that finds no work.
LEMMA SweepStep ==
  ASSUME IInv, TypeOK', NEW at \in Nat, Status(at)
  PROVE  IInv'
<1>1. /\ work' = Freed(work, ExpiredAt(at)) /\ ExpiredAt(at) \in SUBSET Leased
      /\ Cardinality(ExpiredAt(at)) \in Nat
      /\ work' = Swept(at)
  BY SweepIsFreed, SweepTypes DEF Status, IInv
<1>2. /\ reclaimed_leases' + total_failures' =
           reclaimed_leases + total_failures + Cardinality(ExpiredAt(at))
      /\ state' = MarkedState(work')
      /\ UNCHANGED <<planner_mode, hypothesis_enabled, seed, next_sequence,
                     completed_chunks, found_key, issued>>
  BY <1>1 DEF Status, Reclaim, modeVars, creditVars, IInv, TypeOK
<1>3. QED
  BY <1>1, <1>2, ReleaseStep

\* Every step keeps the invariant.
LEMMA InvStep == IInv /\ [Next]_vars => IInv'
<1>. SUFFICES ASSUME IInv, [Next]_vars PROVE IInv'
  OBVIOUS
<1>0. TypeOK /\ TypeOK'
  BY TypeStep DEF IInv
<1>1. CASE Tick
  <2>1. AffineInv' /\ KeyInv'
    BY <1>1 DEF Tick, modeVars, IInv, AffineInv, KeyInv, AllocatedIn
  <2>2. QED
    BY <1>0, <1>1, <2>1, NoRowStep DEF Tick, creditVars, countVars
<1>2. CASE LeaseCall
  <2>1. PICK at \in Nat :
          \/ \E w \in Workers, term \in LeaseTerms :
               LeaseRetry(w, at, term) \/ LeaseFresh(w, at, term)
          \/ LeaseNone(at)
    BY <1>2 DEF LeaseCall, Readings
  <2>2. CASE LeaseNone(at)
    BY <1>0, <2>2, SweepStep DEF LeaseNone, Status
  <2>3. QED
    BY <1>0, <2>1, <2>2, LeaseRetryStep, LeaseFreshStep
<1>3. CASE TokenCall
  <2>1. PICK t \in Tokens, w \in Workers :
          \/ \E at \in Readings, term \in LeaseTerms : Heartbeat(t, w, at, term)
          \/ \E at \in Readings, checked \in Counts, key \in Keys \cup {Null} :
               Complete(t, w, checked, key, at)
          \/ Fail(t, w)
    BY <1>3 DEF TokenCall
  <2>2. ASSUME NEW at, NEW term, NEW c \in Leased, Extend(c, at, term)
        PROVE  IInv'
    <3>1. /\ \A b \in Chunks : /\ work'[b].state = work[b].state
                               /\ work'[b].seq = work[b].seq
                               /\ work'[b].kind = work[b].kind
                               /\ work'[b].checked = work[b].checked
          /\ UNCHANGED <<state, planner_mode, hypothesis_enabled, seed,
                         next_sequence, completed_chunks, reclaimed_leases,
                         total_failures, issued, found_key>>
      BY <1>0, <2>2 DEF Extend, TypeOK, Row, modeVars, creditVars, countVars
    <3>2. QED
      BY <1>0, <3>1, QuietStep
  <2>3. CASE \E at \in Readings, term \in LeaseTerms : Heartbeat(t, w, at, term)
    BY <1>0, <2>2, <2>3, RejectExpiredStep DEF Heartbeat
  <2>4. CASE \E at \in Readings, checked \in Counts, key \in Keys \cup {Null} :
               Complete(t, w, checked, key, at)
    <3>1. Counts \subseteq Nat
      BY SizeAssumption DEF Counts
    <3>2. PICK at \in Readings, checked \in Nat, key \in Keys \cup {Null} :
            Complete(t, w, checked, key, at)
      BY <2>4, <3>1
    <3>3. PICK c \in Leased :
            \/ RejectExpired(c, at)
            \/ Plausible(c, checked, key) /\ Credit(c, t, w, checked, key)
      BY <3>2 DEF Complete
    <3>4. QED
      BY <1>0, <3>3, RejectExpiredStep, CreditStep
  <2>5. CASE Fail(t, w)
    <3>1. PICK c \in Leased : work' = [work EXCEPT ![c] = Released(@)]
      BY <2>5 DEF Fail
    <3>2. work' = Freed(work, {c})
      BY <1>0, <3>1, SweepIsFreed
    <3>3. Cardinality({c}) = 1 /\ {c} \in SUBSET Leased
      BY FS_Singleton
    <3>4. /\ reclaimed_leases' + total_failures' =
               reclaimed_leases + total_failures + Cardinality({c})
          /\ state' = state
          /\ UNCHANGED <<planner_mode, hypothesis_enabled, seed, next_sequence,
                         completed_chunks, found_key, issued>>
      BY <1>0, <2>5, <3>3 DEF Fail, modeVars, creditVars, TypeOK
    <3>5. QED
      BY <1>0, <3>2, <3>3, <3>4, ReleaseStep
  <2>6. QED
    BY <2>1, <2>3, <2>4, <2>5
<1>4. CASE KeyCall
  <2>1. ASSUME NEW key \in Keys, RecordVerifiedCandidate(key)
        PROVE  IInv'
    <3>1. AffineInv' /\ KeyInv'
      BY <2>1 DEF RecordVerifiedCandidate, modeVars, IInv, AffineInv, KeyInv,
                  AllocatedIn
    <3>2. QED
      BY <1>0, <2>1, <3>1, NoRowStep
      DEF RecordVerifiedCandidate, creditVars, countVars
  <2>2. ASSUME NEW key \in Keys, ScrubFoundKey(key)
        PROVE  IInv'
    <3>1. \A b \in Chunks : /\ work'[b].state = work[b].state
                            /\ work'[b].seq = work[b].seq
                            /\ work'[b].kind = work[b].kind
                            /\ work'[b].checked = work[b].checked
      <4>1. \A b \in Chunks : work[b] \in Row
        BY <1>0 DEF TypeOK
      <4>2. QED
        BY <2>2, <4>1 DEF ScrubFoundKey, Row
    <3>2. QED
      BY <1>0, <2>2, <3>1, QuietStep
      DEF ScrubFoundKey, modeVars, creditVars, countVars
  <2>3. QED
    BY <1>4, <2>1, <2>2 DEF KeyCall
<1>5. CASE OperatorCall
  <2>1. ASSUME NEW at \in Readings, Status(at)
        PROVE  IInv'
    BY <1>0, <2>1, SweepStep DEF Readings
  <2>2. CASE EnableCold
    <3>1. AffineInv' /\ KeyInv'
      BY <2>2 DEF EnableCold, IInv, AffineInv, KeyInv
    <3>2. QED
      BY <1>0, <2>2, <3>1, NoRowStep DEF EnableCold, creditVars, countVars
  <2>3. CASE EnableHypothesis
    <3>1. AffineInv' /\ KeyInv'
      BY <2>3 DEF EnableHypothesis, IInv, AffineInv, KeyInv
    <3>2. QED
      BY <1>0, <2>3, <3>1, NoRowStep DEF EnableHypothesis, creditVars, countVars
  <2>4. ASSUME NEW s \in Seeds, Reseed(s)
        PROVE  IInv'
    <3>1. AffineInv' /\ KeyInv'
      BY <1>0, <2>4 DEF Reseed, IInv, AffineInv, KeyInv, TypeOK
    <3>2. QED
      BY <1>0, <2>4, <3>1, NoRowStep DEF Reseed, creditVars, countVars
  <2>5. QED
    BY <1>5, <2>1, <2>2, <2>3, <2>4 DEF OperatorCall
<1>6. CASE UNCHANGED vars
  <2>1. AffineInv' /\ KeyInv'
    BY <1>6 DEF vars, modeVars, IInv, AffineInv, KeyInv, AllocatedIn
  <2>2. QED
    BY <1>0, <1>6, <2>1, NoRowStep DEF vars, creditVars, countVars
<1>7. QED
  BY <1>1, <1>2, <1>3, <1>4, <1>5, <1>6 DEF Next

\* A freshly initialised database satisfies the invariant.
LEMMA InvInit == Init => IInv
<1>. SUFFICES ASSUME Init PROVE IInv
  OBVIOUS
<1>1. TypeOK
  BY NoRowType DEF Init, TypeOK
<1>2. \A c \in Chunks : work[c].state = "absent" /\ work[c].kind = "none"
  BY DEF Init, NoRow
<1>3. AllocatedIn(work) = {} /\ HeldIn(work) = {} /\ NoMatchedIn(work) = {}
  BY <1>2 DEF AllocatedIn, HeldIn, NoMatchedIn
<1>4. Cardinality({}) = 0 /\ IsFiniteSet({})
  BY FS_EmptySet
<1>5. SeqInv(work, next_sequence)
  <2>1. {work[c].seq : c \in {}} = 0 .. 0 - 1
    OBVIOUS
  <2>2. QED
    BY <1>3, <1>4, <2>1 DEF SeqInv, Init
<1>6. TableInv(work, next_sequence, state)
  BY <1>2, <1>5 DEF TableInv, ResultInv, Init
<1>7. CountInv(work, completed_chunks) /\ IsFiniteSet(issued)
  BY <1>3, <1>4 DEF CountInv, Init
<1>8. AffineInv /\ KeyInv
  BY <1>3 DEF AffineInv, KeyInv, Init
<1>9. QED
  BY <1>1, <1>6, <1>7, <1>8 DEF IInv

\* The inductive invariant holds in every reachable state of the database.
THEOREM Invariant == Spec => []IInv
BY InvInit, InvStep, PTL DEF Spec

-----------------------------------------------------------------------------
(***************************************************************************)
(* The invariants of Coordinator, as consequences                          *)
(***************************************************************************)

\* The cursor, the sequence column and the number of rows agree, through every
\* reclaim, retry and planner change.
THEOREM SequencesDenseCorrect == Spec => []SequencesDense
<1>1. IInv => SequencesDense
  BY DEF IInv, TableInv, SeqInv, SequencesDense, AllocatedIn, Allocated
<1>2. QED
  BY <1>1, Invariant, PTL

\* While the cursor is short of the total, _allocate_chunk has a chunk to offer
\* that is not in the table, so the INSERT of lease never collides.
THEOREM AllocationNeverCollidesCorrect == Spec => []AllocationNeverCollides
<1>1. IInv => AllocationNeverCollides
  <2>. SUFFICES ASSUME IInv, next_sequence < Total
                PROVE  \E c \in Proposed : c \notin Allocated
    BY DEF AllocationNeverCollides
  <2>1. SeqInv(work, next_sequence) /\ TypeOK /\ Allocated = AllocatedIn(work)
    BY DEF IInv, TableInv, Allocated, AllocatedIn
  <2>2. CASE hypothesis_enabled = 0 /\ planner_mode = "affine"
    <3>1. next_sequence \in Chunks /\ Order[seed][next_sequence] \in Chunks
      BY <2>1, TotalAssumption, OrderAssumption DEF Chunks, TypeOK
    <3>2. Order[seed][next_sequence] \notin Allocated
      <4>. SUFFICES ASSUME NEW c \in Allocated, c = Order[seed][next_sequence]
                    PROVE  FALSE
        OBVIOUS
      <4>1. work[c].seq \in 0 .. next_sequence - 1
        BY <2>1 DEF SeqInv
      <4>2. work[c].seq \in Chunks
        BY <4>1, <2>1, TotalAssumption DEF Chunks, TypeOK
      <4>3. Order[seed][work[c].seq] = Order[seed][next_sequence]
        BY <2>1, <2>2 DEF IInv, AffineInv
      <4>4. work[c].seq = next_sequence
        BY <2>1, <3>1, <4>2, <4>3, OrderAssumption DEF TypeOK
      <4>5. QED
        BY <4>1, <4>4, <2>1 DEF TypeOK
    <3>3. QED
      BY <2>2, <3>2 DEF Proposed
  <2>3. CASE ~(hypothesis_enabled = 0 /\ planner_mode = "affine")
    <3>1. AllocatedIn(work) \in SUBSET Chunks
      BY CountsFinite
    <3>2. AllocatedIn(work) # Chunks
      BY <2>1, ChunksFinite, TotalAssumption DEF SeqInv, TypeOK
    <3>3. QED
      BY <2>1, <2>3, <3>1, <3>2 DEF Proposed
  <2>4. QED
    BY <2>2, <2>3
<1>2. QED
  BY <1>1, Invariant, PTL

\* An exhausted verdict means every key of every chunk was credited no-match.
THEOREM ExhaustedMeansCoveredCorrect == Spec => []ExhaustedMeansCovered
<1>1. IInv => ExhaustedMeansCovered
  BY DEF IInv, TableInv, Covered, ExhaustedMeansCovered
<1>2. QED
  BY <1>1, Invariant, PTL

\* completed_chunks is the number of no-match rows, after any replays.
THEOREM CompletedChunksExactCorrect == Spec => []CompletedChunksExact
<1>1. IInv => CompletedChunksExact
  BY DEF IInv, CountInv, CompletedChunksExact, NoMatchedIn, NoMatched
<1>2. QED
  BY <1>1, Invariant, PTL

\* Every lease granted is held, completed, reclaimed or failed: exactly one.
THEOREM LeaseBalanceCorrect == Spec => []LeaseBalance
<1>1. IInv => LeaseBalance
  BY DEF IInv, CountInv, LeaseBalance, HeldIn, Held
<1>2. QED
  BY <1>1, Invariant, PTL

\* Only the key that derives the campaign address is ever recorded, and only a
\* found campaign records it.
THEOREM FoundIsVerifiedCorrect == Spec => []FoundIsVerified
<1>1. IInv => FoundIsVerified
  <2>. SUFFICES ASSUME IInv PROVE FoundIsVerified
    OBVIOUS
  <2>1. ASSUME NEW c \in Chunks, work[c].kind = "found"
        PROVE  state = "found" /\ c = Home[Target]
    BY <2>1 DEF IInv, TableInv, ResultInv
  <2>2. QED
    BY <2>1 DEF IInv, KeyInv, FoundIsVerified
<1>2. QED
  BY <1>1, Invariant, PTL

-----------------------------------------------------------------------------
(***************************************************************************)
(* The action properties: what no call may do to a row or to the verdict   *)
(***************************************************************************)

\* What a call may do to one row: nothing; hand out a row that waits or is new;
\* release a lease that is over or reported failed; extend a lease; complete
\* one that is live; or scrub the key of a found row.
RowStep(c) ==
  \/ work'[c] = work[c]
  \/ work[c].state \in {"absent", "available"} /\ work'[c].state = "leased"
  \/ /\ c \in Leased
     /\ work'[c].state # "completed"
     /\ now >= work[c].expires \/ GivenBack(c)
  \/ /\ c \in Leased
     /\ work'[c].token = work[c].token
     /\ work'[c].state = "completed" => now < work[c].expires + Lag
  \/ work'[c] = [work[c] EXCEPT !.key = Null] /\ found_key' = Null

\* A sweep releases only leases whose deadline the clock has reached.
LEMMA SweepRowStep ==
  ASSUME TypeOK, NEW at \in Readings, NEW c \in Chunks
  PROVE  \/ c \notin ExpiredAt(at) /\ Swept(at)[c] = work[c]
         \/ /\ c \in Leased /\ now >= work[c].expires
            /\ Swept(at)[c].state = "available"
<1>1. work[c] \in Row /\ at \in Nat /\ at <= now /\ now \in Nat
  BY DEF TypeOK, Readings
<1>2. QED
  BY <1>1 DEF Swept, ExpiredAt, Leased, Released, Row

\* Every step changes every row in one of those ways.
LEMMA RowSteps ==
  ASSUME TypeOK, [Next]_vars, NEW c \in Chunks
  PROVE  RowStep(c)
<1>0. /\ work \in [Chunks -> Row] /\ work[c] \in Row
      /\ now \in Nat /\ total_failures \in Nat
  BY DEF TypeOK
<1>1. CASE Tick \/ UNCHANGED vars
  BY <1>1 DEF Tick, vars, RowStep
<1>2. CASE LeaseCall
  <2>1. PICK at \in Readings :
          \/ \E w \in Workers, term \in LeaseTerms :
               LeaseRetry(w, at, term) \/ LeaseFresh(w, at, term)
          \/ LeaseNone(at)
    BY <1>2 DEF LeaseCall
  <2>2. ASSUME NEW w, NEW term, LeaseRetry(w, at, term)
        PROVE  RowStep(c)
    <3>1. PICK d \in Retryable(at) :
            work' = [Swept(at) EXCEPT ![d] = Granted(@, w, FreshToken, at + term)]
      BY <2>2 DEF LeaseRetry
    <3>2. CASE c # d
      <4>1. work'[c] = Swept(at)[c]
        BY <3>1, <3>2 DEF Swept
      <4>2. QED
        BY <4>1, SweepRowStep DEF RowStep
    <3>3. CASE c = d
      <4>1. work'[c].state = "leased"
        <5>1. Swept(at)[c] \in Row
          BY <1>0, RowTypes DEF Swept
        <5>2. work'[c] = Granted(Swept(at)[c], w, FreshToken, at + term)
          BY <3>1, <3>3 DEF Swept
        <5>3. QED
          BY <5>1, <5>2 DEF Granted, Row
      <4>2. work[c].state = "available" \/ c \in ExpiredAt(at)
        BY <3>3 DEF Retryable
      <4>3. QED
        BY <4>1, <4>2, SweepRowStep DEF RowStep
    <3>4. QED
      BY <3>2, <3>3
  <2>3. ASSUME NEW w, NEW term, LeaseFresh(w, at, term)
        PROVE  RowStep(c)
    <3>1. PICK d \in Proposed :
            d \notin Allocated /\ work' = [work EXCEPT ![d] = NewRow(w, at + term)]
      BY <2>3 DEF LeaseFresh
    <3>2. NewRow(w, at + term).state = "leased"
      BY DEF NewRow, Granted, NoRow
    <3>3. QED
      BY <1>0, <3>1, <3>2 DEF RowStep, Allocated
  <2>4. CASE LeaseNone(at)
    BY <2>4, SweepRowStep DEF LeaseNone, RowStep
  <2>5. QED
    BY <2>1, <2>2, <2>3, <2>4
<1>3. CASE TokenCall
  <2>1. PICK t \in Tokens, w \in Workers :
          \/ \E at \in Readings, term \in LeaseTerms : Heartbeat(t, w, at, term)
          \/ \E at \in Readings, checked \in Counts, key \in Keys \cup {Null} :
               Complete(t, w, checked, key, at)
          \/ Fail(t, w)
    BY <1>3 DEF TokenCall
  <2>2. ASSUME NEW d \in Leased, NEW at \in Readings, RejectExpired(d, at)
        PROVE  RowStep(c)
    <3>1. /\ d \in ExpiredAt(at)
          /\ work' = [work EXCEPT ![d] = Released(@)]
      BY <2>2 DEF RejectExpired
    <3>2. CASE c = d
      <4>1. work'[c] = Swept(at)[c]
        BY <1>0, <3>1, <3>2 DEF Swept
      <4>2. QED
        BY <4>1, SweepRowStep DEF RowStep
    <3>3. QED
      BY <1>0, <3>1, <3>2 DEF RowStep
  <2>3. ASSUME NEW d \in Leased, NEW at, NEW term, Extend(d, at, term)
        PROVE  RowStep(c)
    <3>1. work' = [work EXCEPT ![d].expires = at + term]
      BY <2>3 DEF Extend
    <3>2. CASE c = d
      <4>1. work'[c].token = work[c].token /\ work'[c].state = "leased"
        BY <1>0, <3>1, <3>2 DEF Leased, Row
      <4>2. QED
        BY <3>2, <4>1 DEF RowStep
    <3>3. QED
      BY <1>0, <3>1, <3>2 DEF RowStep
  <2>4. ASSUME NEW d \in Leased, NEW at \in Readings, d \notin ExpiredAt(at),
               NEW checked, NEW key, Credit(d, t, w, checked, key)
        PROVE  RowStep(c)
    <3>1. work' = [work EXCEPT ![d] = Finished(@, checked, key)]
      BY <2>4 DEF Credit
    <3>2. CASE c = d
      <4>1. work'[c].token = work[c].token
        BY <1>0, <3>1, <3>2 DEF Finished, Row
      <4>2. now < work[c].expires + Lag
        <5>1. at \in Nat /\ now - at <= Lag /\ at < work[c].expires
          BY <1>0, <2>4, <3>2 DEF Readings, ExpiredAt, Row
        <5>2. QED
          BY <1>0, <5>1, TimeAssumption DEF Row
      <4>3. QED
        BY <3>2, <4>1, <4>2 DEF RowStep
    <3>3. QED
      BY <1>0, <3>1, <3>2 DEF RowStep
  <2>5. CASE Fail(t, w)
    <3>1. PICK d \in Leased : /\ Owns(d, t, w)
                              /\ work' = [work EXCEPT ![d] = Released(@)]
                              /\ total_failures' = total_failures + 1
                              /\ last_failure' = [token |-> t, worker |-> w]
      BY <2>5 DEF Fail
    <3>2. CASE c = d
      <4>1. work'[c].state = "available"
        BY <1>0, <3>1, <3>2 DEF Released, Row
      <4>2. GivenBack(c)
        BY <3>1, <3>2 DEF GivenBack, Owns
      <4>3. QED
        BY <3>1, <3>2, <4>1, <4>2 DEF RowStep
    <3>3. QED
      BY <1>0, <3>1, <3>2 DEF RowStep
  <2>6. QED
    BY <2>1, <2>2, <2>3, <2>4, <2>5 DEF Heartbeat, Complete
<1>4. CASE KeyCall
  BY <1>4 DEF KeyCall, RecordVerifiedCandidate, ScrubFoundKey, RowStep
<1>5. CASE OperatorCall
  <2>1. ASSUME NEW at \in Readings, Status(at)
        PROVE  RowStep(c)
    BY <2>1, SweepRowStep DEF Status, RowStep
  <2>2. CASE EnableCold \/ EnableHypothesis \/ \E s \in Seeds : Reseed(s)
    BY <2>2 DEF EnableCold, EnableHypothesis, Reseed, RowStep
  <2>3. QED
    BY <1>5, <2>1, <2>2 DEF OperatorCall
<1>6. QED
  BY <1>1, <1>2, <1>3, <1>4, <1>5 DEF Next

\* A completed row is never reopened, re-leased or given another result.
THEOREM CompletedIsFinalCorrect == Spec => CompletedIsFinal
<1>1. TypeOK /\ [Next]_vars => CompletedKept
  BY RowSteps DEF CompletedKept, RowStep, Leased
<1>2. TypeOK /\ [Next]_vars => [CompletedKept]_vars
  BY <1>1
<1>3. QED
  BY <1>2, TypeCorrect, PTL DEF Spec, CompletedIsFinal

\* No call takes a lease from its worker before the deadline it was last told, but
\* the worker's own failure report under that lease's token.
THEOREM LeaseHonouredCorrect == Spec => LeaseHonoured
<1>1. ASSUME TypeOK, [Next]_vars, NEW c \in Leased, work'[c].token # work[c].token
      PROVE  now >= work[c].expires \/ GivenBack(c)
  <2>1. work[c] \in Row /\ c \in Chunks
    BY <1>1 DEF TypeOK, Leased
  <2>2. [work[c] EXCEPT !.key = Null].token = work[c].token
    BY <2>1 DEF Row
  <2>3. QED
    BY <1>1, <2>1, <2>2, RowSteps DEF RowStep, Leased
<1>2. TypeOK /\ [Next]_vars => [LeaseKept]_vars
  BY <1>1 DEF LeaseKept
<1>3. QED
  BY <1>2, TypeCorrect, PTL DEF Spec, LeaseHonoured

\* A result is credited only before its lease's deadline, up to the wait for the
\* write lock.
THEOREM LateResultRejectedCorrect == Spec => LateResultRejected
<1>1. ASSUME TypeOK, [Next]_vars, NEW c \in Leased, work'[c].state = "completed"
      PROVE  now < work[c].expires + Lag
  <2>1. work[c] \in Row /\ c \in Chunks /\ work[c].state = "leased"
    BY <1>1 DEF TypeOK, Leased
  <2>2. [work[c] EXCEPT !.key = Null].state = "leased"
    BY <2>1 DEF Row
  <2>3. QED
    BY <1>1, <2>1, <2>2, RowSteps DEF RowStep
<1>2. TypeOK /\ [Next]_vars => [CompletedInTime]_vars
  BY <1>1 DEF CompletedInTime
<1>3. QED
  BY <1>2, TypeCorrect, PTL DEF Spec, LateResultRejected

\* The verdict of a campaign is never taken back and ends the leasing.
THEOREM VerdictStandsCorrect == Spec => VerdictStands
<1>1. ASSUME [Next]_vars PROVE VerdictKept
  <2>1. CASE Tick \/ UNCHANGED vars
    BY <2>1 DEF Tick, vars, countVars, VerdictKept
  <2>2. CASE LeaseCall
    BY <2>2 DEF LeaseCall, LeaseRetry, LeaseFresh, LeaseNone, MarkedState,
                VerdictKept
  <2>3. CASE TokenCall
    <3>1. ASSUME NEW c, NEW t, NEW w, NEW checked, NEW key,
                 Credit(c, t, w, checked, key)
          PROVE  VerdictKept
      BY <3>1 DEF Credit, MarkedState, countVars, VerdictKept
    <3>2. ASSUME NEW c, NEW at, RejectExpired(c, at)
          PROVE  VerdictKept
      BY <3>2 DEF RejectExpired, VerdictKept
    <3>3. ASSUME NEW c, NEW at, NEW term, Extend(c, at, term)
          PROVE  VerdictKept
      BY <3>3 DEF Extend, countVars, VerdictKept
    <3>4. ASSUME NEW t, NEW w, Fail(t, w)
          PROVE  VerdictKept
      BY <3>4 DEF Fail, VerdictKept
    <3>5. QED
      BY <2>3, <3>1, <3>2, <3>3, <3>4 DEF TokenCall, Heartbeat, Complete
  <2>4. CASE KeyCall
    BY <2>4 DEF KeyCall, RecordVerifiedCandidate, ScrubFoundKey, countVars,
                VerdictKept
  <2>5. CASE OperatorCall
    BY <2>5 DEF OperatorCall, Status, EnableCold, EnableHypothesis, Reseed,
                MarkedState, countVars, VerdictKept
  <2>6. QED
    BY <1>1, <2>1, <2>2, <2>3, <2>4, <2>5 DEF Next
<1>2. [Next]_vars => [VerdictKept]_vars
  BY <1>1
<1>3. QED
  BY <1>2, PTL DEF Spec, VerdictStands

\* An accepted completion can be replayed for as long as its key is on record:
\* its row is never touched again but by the scrub.
THEOREM ReplayAcceptedCorrect == Spec => []ReplayAccepted
<1>1. Init => ReplayAccepted
  BY DEF Init, ReplayAccepted
<1>2. ASSUME IInv, ReplayAccepted, [Next]_vars
      PROVE  ReplayAccepted'
  <2>1. TypeOK /\ work \in [Chunks -> Row] /\ CompletedKept
    BY <1>2, RowSteps DEF IInv, TypeOK, CompletedKept, RowStep, Leased
  <2>2. ASSUME NEW r \in accepted
        PROVE  \E c \in Held' : Owns(c, r.token, r.worker)'
                 /\ \/ SameResult(c, r.checked, r.key)'
                    \/ work'[c].kind = "found" /\ work'[c].key = Null
    <3>1. PICK c \in Held : Owns(c, r.token, r.worker)
             /\ \/ SameResult(c, r.checked, r.key)
                \/ work[c].kind = "found" /\ work[c].key = Null
      BY <1>2 DEF ReplayAccepted
    <3>2. work[c].state = "completed" /\ c \in Chunks /\ work[c] \in Row
      BY <1>2, <2>1, <3>1 DEF Held, SameResult, IInv, TableInv, ResultInv
    <3>3. work'[c] = work[c] \/ work'[c] = [work[c] EXCEPT !.key = Null]
      BY <2>1, <3>2 DEF CompletedKept
    <3>4. /\ work'[c].state = "completed" /\ work'[c].token = work[c].token
          /\ work'[c].worker = work[c].worker /\ work'[c].kind = work[c].kind
          /\ work'[c].checked = work[c].checked
          /\ work'[c].key = work[c].key \/ work'[c].key = Null
      BY <3>2, <3>3 DEF Row
    <3>5. QED
      BY <3>1, <3>2, <3>4 DEF Held, Owns, SameResult, Kind
  <2>3. ASSUME NEW c \in Leased, NEW t \in Tokens, NEW w \in Workers, NEW checked,
               NEW key, Owns(c, t, w), Credit(c, t, w, checked, key)
        PROVE  c \in Held' /\ Owns(c, t, w)' /\ SameResult(c, checked, key)'
    <3>1. work'[c] = Finished(work[c], checked, key) /\ work[c] \in Row
          /\ c \in Chunks
      BY <2>1, <2>3 DEF Credit, Leased
    <3>2. QED
      BY <2>3, <3>1 DEF Finished, Row, Held, Owns, SameResult
  <2>4. \/ accepted' = accepted
        \/ \E c \in Leased, t \in Tokens, w \in Workers, checked \in Counts,
              key \in Keys \cup {Null} :
              Owns(c, t, w) /\ Credit(c, t, w, checked, key)
    BY <1>2
    DEF Next, Tick, LeaseCall, LeaseRetry, LeaseFresh, LeaseNone, TokenCall,
        Heartbeat, RejectExpired, Extend, Complete, Fail, KeyCall,
        RecordVerifiedCandidate, ScrubFoundKey, OperatorCall, Status, EnableCold,
        EnableHypothesis, Reseed, vars, creditVars
  <2>5. QED
    <3>1. CASE accepted' = accepted
      BY <2>2, <3>1 DEF ReplayAccepted
    <3>2. CASE accepted' # accepted
      <4>1. PICK c \in Leased, t \in Tokens, w \in Workers, checked \in Counts,
                 key \in Keys \cup {Null} :
                 Owns(c, t, w) /\ Credit(c, t, w, checked, key)
        BY <2>4, <3>2
      <4>2. accepted' = accepted \cup {[token |-> t, worker |-> w,
                                        checked |-> checked, key |-> key]}
        BY <4>1 DEF Credit
      <4>3. QED
        BY <2>2, <2>3, <4>1, <4>2 DEF ReplayAccepted
    <3>3. QED
      BY <3>1, <3>2
<1>3. QED
  BY <1>1, <1>2, Invariant, PTL DEF Spec

-----------------------------------------------------------------------------
(***************************************************************************)
(* The number of keys checked.  Sums over the chunks are followed with the *)
(* least number principle, as a fact about sets of naturals.               *)
(***************************************************************************)

Below == {ss \in Nat \X Nat : ss[1] < ss[2]}

\* Every set of naturals that is not empty has a least member.
LEMMA Least ==
  ASSUME NEW T, T \subseteq Nat, T # {}
  PROVE  \E x \in T : \A y \in T : x <= y
<1>1. IsWellFoundedOn(Below, Nat)
  BY NatLessThanWellFounded DEF OpToRel, Below
<1>2. PICK x \in T : \A y \in T : <<y, x>> \notin Below
  BY <1>1, WFMin
<1>3. \A y \in T : <<y, x>> \in Nat \X Nat /\ <<y, x>>[1] = y /\ <<y, x>>[2] = x
  OBVIOUS
<1>4. \A y \in T : ~(y < x)
  BY <1>2, <1>3 DEF Below
<1>5. x \in Nat /\ T \subseteq Nat
  OBVIOUS
<1>6. QED
  BY <1>4, <1>5

\* s[n] is the sum of f over the chunks below n.
IsSum(s, f, N) ==
  /\ s \in [0 .. N -> Nat]
  /\ s[0] = 0
  /\ \A n \in 0 .. N - 1 : s[n + 1] = s[n] + f[n]

LEMMA SumExists ==
  ASSUME NEW f \in [Chunks -> Nat]
  PROVE  \E s : IsSum(s, f, Total)
<1>. DEFINE T == {N \in 0 .. Total : ~ \E s : IsSum(s, f, N)}
<1>1. SUFFICES ASSUME T # {} PROVE FALSE
  BY TotalAssumption
<1>2. PICK N \in T : \A y \in T : N <= y
  <2>1. T \subseteq Nat
    OBVIOUS
  <2>. HIDE DEF T
  <2>2. QED
    BY <1>1, <2>1, Least
<1>3. N \in 0 .. Total /\ ~ \E s : IsSum(s, f, N)
  OBVIOUS
<1>4. N # 0
  <2>1. IsSum([n \in 0 .. 0 |-> 0], f, 0)
    BY DEF IsSum
  <2>2. QED
    BY <1>3, <2>1
<1>5. PICK p \in Chunks : p + 1 = N
  <2>1. N - 1 \in Chunks /\ (N - 1) + 1 = N
    BY <1>3, <1>4, TotalAssumption DEF Chunks
  <2>2. QED
    BY <2>1
<1>6. PICK s : IsSum(s, f, p)
  <2>1. p \in 0 .. Total /\ ~(N <= p)
    BY <1>3, <1>5, TotalAssumption DEF Chunks
  <2>2. p \notin T
    BY <1>2, <2>1
  <2>3. QED
    BY <2>1, <2>2
<1>. DEFINE t == [n \in 0 .. N |-> IF n <= p THEN s[n] ELSE s[p] + f[p]]
<1>7. p \in Nat /\ N \in Nat /\ N = p + 1
  BY <1>5, TotalAssumption DEF Chunks
<1>8. s \in [0 .. p -> Nat] /\ s[0] = 0 /\ s[p] + f[p] \in Nat
  BY <1>6, <1>7 DEF IsSum
<1>9. t \in [0 .. N -> Nat]
  BY <1>7, <1>8
<1>10. t[0] = 0
  BY <1>7, <1>8
<1>11. ASSUME NEW n \in 0 .. N - 1 PROVE t[n + 1] = t[n] + f[n]
  <2>1. n \in 0 .. p /\ t[n] = s[n]
    BY <1>7
  <2>2. CASE n = p
    <3>1. t[n + 1] = s[p] + f[p]
      BY <1>7, <2>2
    <3>2. QED
      BY <2>1, <2>2, <3>1
  <2>3. CASE n # p
    <3>1. n \in 0 .. p - 1 /\ n + 1 \in 0 .. p
      BY <1>7, <2>1, <2>3
    <3>2. t[n + 1] = s[n + 1]
      BY <1>7, <3>1
    <3>3. QED
      BY <1>6, <2>1, <3>1, <3>2 DEF IsSum
  <2>4. QED
    BY <2>2, <2>3
<1>12. IsSum(t, f, N)
  <2>. HIDE DEF t
  <2>1. QED
    BY <1>9, <1>10, <1>11 DEF IsSum
<1>13. QED
  BY <1>3, <1>12

\* The recursive sum in CheckedKeysExact is that sum.
LEMMA CheckedIsSum ==
  ASSUME NEW tbl \in [Chunks -> Row]
  PROVE  \E s : IsSum(s, [c \in Chunks |-> tbl[c].checked], Total) /\ Checked(tbl) = s[Total]
<1>. DEFINE f == [c \in Chunks |-> tbl[c].checked]
            Is(g) == g = [n \in 0 .. Total |->
                            IF n = 0 THEN 0 ELSE g[n - 1] + tbl[n - 1].checked]
            sum == CHOOSE g : Is(g)
<1>1. f \in [Chunks -> Nat]
  BY DEF Row
<1>2. PICK s : IsSum(s, f, Total)
  BY <1>1, SumExists
<1>3. Is(s)
  <2>1. s = [n \in 0 .. Total |-> s[n]]
    BY <1>2 DEF IsSum
  <2>2. ASSUME NEW n \in 0 .. Total
        PROVE  s[n] = IF n = 0 THEN 0 ELSE s[n - 1] + tbl[n - 1].checked
    <3>1. CASE n = 0
      BY <1>2, <3>1 DEF IsSum
    <3>2. CASE n # 0
      <4>1. n - 1 \in 0 .. Total - 1 /\ (n - 1) + 1 = n /\ n - 1 \in Chunks
        BY <3>2, TotalAssumption DEF Chunks
      <4>2. s[(n - 1) + 1] = s[n - 1] + f[n - 1]
        BY <1>2, <4>1 DEF IsSum
      <4>3. QED
        BY <3>2, <4>1, <4>2
    <3>3. QED
      BY <3>1, <3>2
  <2>3. QED
    BY <2>1, <2>2
<1>4. Is(sum)
  <2>. HIDE DEF Is
  <2>1. QED
    BY <1>3
<1>5. Checked(tbl) = sum[Total]
  BY DEF Checked
<1>6. \A n \in 0 .. Total : sum[n] = s[n]
  <2>. DEFINE T == {n \in 0 .. Total : sum[n] # s[n]}
  <2>1. SUFFICES ASSUME T # {} PROVE FALSE
    OBVIOUS
  <2>2. PICK n \in T : \A y \in T : n <= y
    <3>1. T \subseteq Nat
      OBVIOUS
    <3>. HIDE DEF T
    <3>2. QED
      BY <2>1, <3>1, Least
  <2>3. n \in 0 .. Total /\ sum[n] # s[n]
    OBVIOUS
  <2>4. /\ sum[n] = IF n = 0 THEN 0 ELSE sum[n - 1] + tbl[n - 1].checked
        /\ s[n] = IF n = 0 THEN 0 ELSE s[n - 1] + tbl[n - 1].checked
    <3>. HIDE DEF sum, T
    <3>1. QED
      BY <1>3, <1>4, <2>3
  <2>5. n - 1 \in 0 .. Total /\ ~(n <= n - 1)
    BY <2>3, <2>4, TotalAssumption
  <2>6. sum[n - 1] = s[n - 1]
    BY <2>2, <2>5
  <2>7. QED
    BY <2>3, <2>4, <2>6
<1>7. Checked(tbl) = s[Total]
  <2>. HIDE DEF sum
  <2>1. QED
    BY <1>5, <1>6, TotalAssumption
<1>8. QED
  BY <1>2, <1>7

\* A row that reports d more moves the sum by d.
LEMMA SumMoves ==
  ASSUME NEW old \in [Chunks -> Row], NEW new \in [Chunks -> Row],
         NEW c \in Chunks, NEW d \in Nat, new[c].checked = old[c].checked + d,
         \A b \in Chunks : b # c => new[b].checked = old[b].checked
  PROVE  Checked(new) = Checked(old) + d /\ Checked(old) \in Nat
<1>. DEFINE f == [b \in Chunks |-> old[b].checked]
            g == [b \in Chunks |-> new[b].checked]
<1>1. PICK s : IsSum(s, f, Total) /\ Checked(old) = s[Total]
  BY CheckedIsSum
<1>2. PICK t : IsSum(t, g, Total) /\ Checked(new) = t[Total]
  BY CheckedIsSum
<1>3. \A b \in Chunks : f[b] \in Nat /\ g[b] = IF b = c THEN f[b] + d ELSE f[b]
  BY DEF Row
<1>. HIDE DEF f, g
<1>. DEFINE Shift(n) == IF n > c THEN d ELSE 0
            T == {n \in 0 .. Total : t[n] # s[n] + Shift(n)}
<1>4. T = {}
  <2>1. SUFFICES ASSUME T # {} PROVE FALSE
    OBVIOUS
  <2>2. PICK n \in T : \A y \in T : n <= y
    <3>1. T \subseteq Nat
      OBVIOUS
    <3>. HIDE DEF T
    <3>2. QED
      BY <2>1, <3>1, Least
  <2>3. n \in 0 .. Total /\ t[n] # s[n] + Shift(n)
    OBVIOUS
  <2>4. n # 0
    BY <1>1, <1>2, <2>3 DEF IsSum, Chunks
  <2>5. PICK p \in Chunks : p + 1 = n
    <3>1. n - 1 \in Chunks /\ (n - 1) + 1 = n
      BY <2>3, <2>4, TotalAssumption DEF Chunks
    <3>2. QED
      BY <3>1
  <2>6. p \in 0 .. Total - 1 /\ p \in 0 .. Total /\ ~(n <= p)
    BY <2>5, TotalAssumption DEF Chunks
  <2>7. t[p] = s[p] + Shift(p)
    <3>1. p \notin T
      BY <2>2, <2>6
    <3>2. QED
      BY <2>6, <3>1
  <2>8. t[n] = t[p] + g[p] /\ s[n] = s[p] + f[p] /\ s[p] \in Nat /\ t[p] \in Nat
    BY <1>1, <1>2, <2>5, <2>6 DEF IsSum
  <2>9. Shift(n) = Shift(p) + (IF p = c THEN d ELSE 0)
    BY <2>5, <2>6 DEF Chunks
  <2>10. QED
    BY <1>3, <2>3, <2>5, <2>7, <2>8, <2>9
<1>5. t[Total] = s[Total] + Shift(Total)
  BY <1>4, TotalAssumption
<1>6. Shift(Total) = d /\ s[Total] \in Nat
  BY <1>1, TotalAssumption DEF Chunks, IsSum
<1>7. QED
  BY <1>1, <1>2, <1>5, <1>6

\* An empty table reports nothing.
LEMMA SumOfNothing ==
  ASSUME NEW tbl \in [Chunks -> Row], \A c \in Chunks : tbl[c].checked = 0
  PROVE  Checked(tbl) = 0
<1>1. PICK s : IsSum(s, [c \in Chunks |-> tbl[c].checked], Total) /\ Checked(tbl) = s[Total]
  BY CheckedIsSum
<1>. DEFINE T == {n \in 0 .. Total : s[n] # 0}
<1>2. T = {}
  <2>1. SUFFICES ASSUME T # {} PROVE FALSE
    OBVIOUS
  <2>2. PICK n \in T : \A y \in T : n <= y
    <3>1. T \subseteq Nat
      OBVIOUS
    <3>. HIDE DEF T
    <3>2. QED
      BY <2>1, <3>1, Least
  <2>3. n \in 0 .. Total /\ n # 0
    BY <1>1 DEF IsSum
  <2>4. n - 1 \in Chunks /\ n - 1 \in 0 .. Total - 1 /\ (n - 1) + 1 = n /\ ~(n <= n - 1)
        /\ n - 1 \in 0 .. Total
    BY <2>3, TotalAssumption DEF Chunks
  <2>5. s[n - 1] = 0
    BY <2>2, <2>4
  <2>6. s[(n - 1) + 1] = s[n - 1] + 0
    BY <1>1, <2>4 DEF IsSum
  <2>7. QED
    BY <2>4, <2>5, <2>6
<1>3. QED
  BY <1>1, <1>2, TotalAssumption

\* A row that has no result reports nothing.
Blank == \A c \in Chunks : work[c].state # "completed" => work[c].checked = 0

\* A step reports nothing, or credits one row that had none and counts it.
LEMMA CheckedSteps ==
  ASSUME TypeOK, Blank, [Next]_vars
  PROVE  \/ /\ checked_keys' = checked_keys
            /\ \A c \in Chunks : work'[c].checked = work[c].checked
         \/ \E c \in Leased, n \in Nat :
              /\ checked_keys' = checked_keys + n
              /\ work'[c].checked = n /\ work'[c].state = "completed"
              /\ \A b \in Chunks : b # c => work'[b] = work[b]
<1>. DEFINE Silent == /\ checked_keys' = checked_keys
                      /\ \A c \in Chunks : work'[c].checked = work[c].checked
            Counted == \E c \in Leased, n \in Nat :
                         /\ checked_keys' = checked_keys + n
                         /\ work'[c].checked = n /\ work'[c].state = "completed"
                         /\ \A b \in Chunks : b # c => work'[b] = work[b]
<1>0. work \in [Chunks -> Row] /\ \A c \in Chunks : work[c] \in Row
  BY DEF TypeOK
<1>1. \A at : /\ Swept(at) \in [Chunks -> Row]
              /\ \A c \in Chunks : Swept(at)[c].checked = work[c].checked
  <2>1. \A row \in Row : Released(row) \in Row /\ Released(row).checked = row.checked
    BY RowTypes DEF Released, Row
  <2>2. QED
    BY <1>0, <2>1 DEF Swept
<1>2. CASE Tick \/ UNCHANGED vars
  BY <1>2 DEF Tick, vars, creditVars
<1>3. CASE LeaseCall
  <2>1. PICK at \in Readings :
          \/ \E w \in Workers, term \in LeaseTerms :
               LeaseRetry(w, at, term) \/ LeaseFresh(w, at, term)
          \/ LeaseNone(at)
    BY <1>3 DEF LeaseCall
  <2>2. ASSUME NEW w, NEW term, LeaseRetry(w, at, term) PROVE Silent
    <3>1. PICK d \in Chunks :
            work' = [Swept(at) EXCEPT ![d] = Granted(@, w, FreshToken, at + term)]
      BY <2>2 DEF LeaseRetry, Retryable, ExpiredAt, Leased
    <3>2. Granted(Swept(at)[d], w, FreshToken, at + term).checked = Swept(at)[d].checked
      BY <1>1 DEF Granted, Row
    <3>3. \A c \in Chunks : work'[c].checked = work[c].checked
      BY <1>1, <3>1, <3>2
    <3>4. QED
      BY <2>2, <3>3 DEF LeaseRetry, creditVars
  <2>3. ASSUME NEW w, NEW term, LeaseFresh(w, at, term) PROVE Silent
    <3>1. PICK d : d \notin Allocated /\ work' = [work EXCEPT ![d] = NewRow(w, at + term)]
      BY <2>3 DEF LeaseFresh
    <3>2. NewRow(w, at + term).checked = 0
      BY DEF NewRow, Granted, NoRow
    <3>3. \A c \in Chunks : c = d => work[c].checked = 0
      BY <3>1 DEF Blank, Allocated
    <3>4. \A c \in Chunks : work'[c].checked = work[c].checked
      BY <1>0, <3>1, <3>2, <3>3
    <3>5. QED
      BY <2>3, <3>4 DEF LeaseFresh, creditVars
  <2>4. CASE LeaseNone(at)
    BY <1>1, <2>4 DEF LeaseNone, creditVars
  <2>5. QED
    BY <2>1, <2>2, <2>3, <2>4
<1>4. CASE TokenCall
  <2>1. PICK t \in Tokens, w \in Workers :
          \/ \E at \in Readings, term \in LeaseTerms : Heartbeat(t, w, at, term)
          \/ \E at \in Readings, checked \in Counts, key \in Keys \cup {Null} :
               Complete(t, w, checked, key, at)
          \/ Fail(t, w)
    BY <1>4 DEF TokenCall
  <2>2. ASSUME NEW c \in Chunks, work' = [work EXCEPT ![c] = Released(@)],
               UNCHANGED creditVars
        PROVE  Silent
    <3>1. Released(work[c]).checked = work[c].checked
      BY <1>0 DEF Released, Row
    <3>2. QED
      BY <1>0, <2>2, <3>1 DEF creditVars
  <2>3. CASE \E at \in Readings, term \in LeaseTerms : Heartbeat(t, w, at, term)
    <3>0. PICK at \in Readings, term \in LeaseTerms : Heartbeat(t, w, at, term)
      BY <2>3
    <3>1. PICK c \in Leased : RejectExpired(c, at) \/ Extend(c, at, term)
      BY <3>0 DEF Heartbeat
    <3>2. c \in Chunks
      BY DEF Leased
    <3>3. CASE RejectExpired(c, at)
      BY <2>2, <3>2, <3>3 DEF RejectExpired
    <3>4. CASE Extend(c, at, term)
      BY <1>0, <3>2, <3>4 DEF Extend, creditVars, Row
    <3>5. QED
      BY <3>1, <3>3, <3>4
  <2>4. CASE \E at \in Readings, checked \in Counts, key \in Keys \cup {Null} :
               Complete(t, w, checked, key, at)
    <3>0. PICK at \in Readings, checked \in Nat, key \in Keys \cup {Null} :
            Complete(t, w, checked, key, at)
      BY <2>4, SizeAssumption DEF Counts
    <3>1. PICK c \in Leased : RejectExpired(c, at) \/ Credit(c, t, w, checked, key)
      BY <3>0 DEF Complete
    <3>2. c \in Chunks
      BY DEF Leased
    <3>3. CASE RejectExpired(c, at)
      BY <2>2, <3>2, <3>3 DEF RejectExpired
    <3>4. CASE Credit(c, t, w, checked, key)
      <4>1. /\ work' = [work EXCEPT ![c] = Finished(@, checked, key)]
            /\ checked_keys' = checked_keys + checked
        BY <3>4 DEF Credit
      <4>2. /\ Finished(work[c], checked, key).checked = checked
            /\ Finished(work[c], checked, key).state = "completed"
        BY <1>0, <3>2 DEF Finished, Row
      <4>3. QED
        BY <1>0, <3>2, <4>1, <4>2
    <3>5. QED
      BY <3>1, <3>3, <3>4
  <2>5. CASE Fail(t, w)
    <3>1. PICK c \in Leased : work' = [work EXCEPT ![c] = Released(@)] /\ UNCHANGED creditVars
      BY <2>5 DEF Fail
    <3>2. QED
      BY <2>2, <3>1 DEF Leased
  <2>6. QED
    BY <2>1, <2>3, <2>4, <2>5
<1>5. CASE KeyCall
  <2>1. ASSUME NEW key, RecordVerifiedCandidate(key) PROVE Silent
    BY <2>1 DEF RecordVerifiedCandidate, creditVars
  <2>2. ASSUME NEW key, ScrubFoundKey(key) PROVE Silent
    <3>1. \A c \in Chunks : work'[c] \in {work[c], [work[c] EXCEPT !.key = Null]}
      BY <2>2 DEF ScrubFoundKey
    <3>2. \A c \in Chunks : [work[c] EXCEPT !.key = Null].checked = work[c].checked
      BY <1>0 DEF Row
    <3>3. \A c \in Chunks : work'[c].checked = work[c].checked
      BY <3>1, <3>2
    <3>4. QED
      BY <2>2, <3>3 DEF ScrubFoundKey, creditVars
  <2>3. QED
    BY <1>5, <2>1, <2>2 DEF KeyCall
<1>6. CASE OperatorCall
  BY <1>1, <1>6 DEF OperatorCall, Status, EnableCold, EnableHypothesis, Reseed, creditVars
<1>7. QED
  BY <1>2, <1>3, <1>4, <1>5, <1>6 DEF Next

\* checked_keys is the sum of what the completed rows report.
THEOREM CheckedKeysExactCorrect == Spec => []CheckedKeysExact
<1>1. Init => Blank /\ CheckedKeysExact
  <2>1. SUFFICES ASSUME Init PROVE Blank /\ CheckedKeysExact
    OBVIOUS
  <2>2. work = [c \in Chunks |-> NoRow] /\ checked_keys = 0
    BY <2>1 DEF Init
  <2>3. work \in [Chunks -> Row] /\ \A c \in Chunks : work[c].checked = 0
    BY <2>2, NoRowType DEF NoRow
  <2>4. QED
    BY <2>2, <2>3, SumOfNothing DEF Blank, CheckedKeysExact
<1>2. TypeOK /\ TypeOK' /\ Blank /\ CheckedKeysExact /\ [Next]_vars => Blank' /\ CheckedKeysExact'
  <2>1. SUFFICES ASSUME TypeOK, TypeOK', Blank, CheckedKeysExact, [Next]_vars
                 PROVE  Blank' /\ CheckedKeysExact'
    OBVIOUS
  <2>2. work \in [Chunks -> Row] /\ work' \in [Chunks -> Row]
    BY <2>1 DEF TypeOK
  <2>3. \A c \in Chunks : work[c].state = "completed" => work'[c].state = "completed"
    <3>1. SUFFICES ASSUME NEW c \in Chunks, work[c].state = "completed"
                   PROVE  work'[c].state = "completed"
      OBVIOUS
    <3>2. [work[c] EXCEPT !.key = Null].state = work[c].state
      BY <2>2 DEF Row
    <3>3. RowStep(c)
      BY <2>1, RowSteps
    <3>4. QED
      BY <3>1, <3>2, <3>3 DEF RowStep, Leased
  <2>4. CASE /\ checked_keys' = checked_keys
             /\ \A c \in Chunks : work'[c].checked = work[c].checked
    <3>1. Blank'
      BY <2>1, <2>3, <2>4 DEF Blank
    <3>2. 0 \in Chunks /\ \A c \in Chunks : work[c].checked \in Nat
      BY <2>2, TotalAssumption DEF Chunks, Row
    <3>3. Checked(work') = Checked(work) + 0 /\ Checked(work) \in Nat
      BY <2>2, <2>4, <3>2, SumMoves
    <3>4. QED
      BY <2>1, <2>4, <3>1, <3>3 DEF CheckedKeysExact
  <2>5. ASSUME NEW c \in Leased, NEW n \in Nat,
               checked_keys' = checked_keys + n,
               work'[c].checked = n, work'[c].state = "completed",
               \A b \in Chunks : b # c => work'[b] = work[b]
        PROVE  Blank' /\ CheckedKeysExact'
    <3>1. c \in Chunks /\ work[c].checked = 0
      BY <2>1 DEF Leased, Blank
    <3>2. Blank'
      BY <2>1, <2>5 DEF Blank
    <3>3. Checked(work') = Checked(work) + n
      BY <2>2, <2>5, <3>1, SumMoves
    <3>4. QED
      BY <2>1, <2>5, <3>2, <3>3 DEF CheckedKeysExact
  <2>6. QED
    BY <2>1, <2>4, <2>5, CheckedSteps
<1>3. QED
  BY <1>1, <1>2, TypeCorrect, PTL DEF Spec

-----------------------------------------------------------------------------
(***************************************************************************)
(* Coordinator implements CoverageLedger                                   *)
(***************************************************************************)

\* The verdict comes with the last report: while the campaign runs, a chunk is
\* still uncredited.  It makes the marking in status and in an empty lease idle.
Open(tbl, st) == st = "running" => NoMatchedIn(tbl) # Chunks

HolderIn(tbl) ==
  [c \in Chunks |-> IF tbl[c].state = "leased" THEN tbl[c].token ELSE Null]

\* _mark_exhausted_if_done gives the verdict exactly when every chunk is
\* credited.
LEMMA MarkedExactly ==
  ASSUME TypeOK, NEW tbl, SeqInv(tbl, next_sequence), ResultInv(tbl, state)
  PROVE  MarkedState(tbl) = IF state = "running" /\ NoMatchedIn(tbl) = Chunks
                            THEN "exhausted" ELSE state
<1>1. CASE state # "running"
  BY <1>1 DEF MarkedState
<1>2. CASE state = "running" /\ NoMatchedIn(tbl) = Chunks
  <2>1. \A c \in Chunks : tbl[c].state = "completed"
    BY <1>2 DEF NoMatchedIn, ResultInv
  <2>2. AllocatedIn(tbl) = Chunks
    BY <2>1 DEF AllocatedIn
  <2>3. next_sequence >= Total
    BY <2>2, ChunksFinite, TotalAssumption DEF SeqInv
  <2>4. QED
    BY <1>2, <2>1, <2>3 DEF MarkedState
<1>3. CASE state = "running" /\ NoMatchedIn(tbl) # Chunks
  <2>1. TableInv(tbl, next_sequence, state)
    BY <1>3 DEF TableInv
  <2>2. TableInv(tbl, next_sequence, MarkedState(tbl))
    BY <2>1, Marked
  <2>3. MarkedState(tbl) # "exhausted"
    <3>1. PICK c \in Chunks : tbl[c].kind # "nomatch"
      BY <1>3 DEF NoMatchedIn
    <3>2. QED
      BY <2>2, <3>1 DEF TableInv, Covered
  <2>4. QED
    BY <1>3, <2>3 DEF MarkedState
<1>4. QED
  BY <1>1, <1>2, <1>3

\* Releasing rows is revoking their holders.
LEMMA FreedHolders ==
  ASSUME TypeOK, NEW S \in SUBSET Leased
  PROVE  HolderIn(Freed(work, S)) = Ledger!Revoked(S)
<1>1. \A c \in Chunks : work[c] \in Row
  BY DEF TypeOK
<1>2. \A c \in S : Released(work[c]).state = "available"
  BY <1>1 DEF Released, Row, Leased
<1>3. QED
  BY <1>2 DEF HolderIn, Freed, Ledger!Revoked

\* A call that only releases rows revokes, and leaves the verdict alone.
LEMMA RevokeStep ==
  ASSUME IInv, Open(work, state), NEW S \in SUBSET Leased,
         work' = Freed(work, S), state' \in {state, MarkedState(work')},
         next_sequence' = next_sequence, issued' = issued
  PROVE  Ledger!Revoke(S) /\ Open(work', state')
<1>1. /\ TypeOK /\ work \in [Chunks -> Row]
      /\ SeqInv(work, next_sequence) /\ ResultInv(work, state)
      /\ S \in SUBSET {c \in Chunks : work[c].state = "leased"}
  BY DEF IInv, TableInv, TypeOK, Leased
<1>2. /\ SeqInv(work', next_sequence) /\ ResultInv(work', state)
      /\ NoMatchedIn(work') = NoMatchedIn(work)
  BY <1>1, FreedTable
<1>3. state' = state
  BY <1>1, <1>2, MarkedExactly DEF Open
<1>4. HolderIn(work') = Ledger!Revoked(S)
  BY <1>1, FreedHolders
<1>5. Ledger!Revoke(S)
  BY <1>2, <1>3, <1>4 DEF Ledger!Revoke, HolderIn, NoMatchedIn, NoMatched
<1>6. QED
  BY <1>2, <1>3, <1>5 DEF Open

\* A lease that retries a row revokes the late holders and grants.
LEMMA RetryGrants ==
  ASSUME IInv, Open(work, state), NEW w \in Workers, NEW at \in Nat, NEW term,
         LeaseRetry(w, at, term)
  PROVE  /\ \E S \in SUBSET Chunks, c \in Chunks, t \in Tokens : Ledger!Grant(S, c, t)
         /\ Open(work', state')
<1>. DEFINE mid == Swept(at)
            S == ExpiredAt(at)
<1>1. /\ TypeOK /\ work \in [Chunks -> Row] /\ issued # Tokens
      /\ SeqInv(work, next_sequence) /\ ResultInv(work, state)
  BY DEF IInv, TableInv, TypeOK, LeaseRetry
<1>2. /\ mid = Freed(work, S) /\ S \in SUBSET Leased /\ S \in SUBSET Chunks
      /\ mid \in [Chunks -> Row]
  BY <1>1, SweepIsFreed, SweepTypes
<1>3. FreshToken \in Tokens /\ FreshToken \notin issued
  BY <1>1, FreshTokenType
<1>4. PICK c \in Retryable(at) :
        work' = [mid EXCEPT ![c] = Granted(@, w, FreshToken, at + term)]
  BY DEF LeaseRetry
<1>5. c \in Chunks /\ mid[c].state = "available" /\ mid[c] \in Row
  <2>1. c \in Chunks /\ mid[c] \in Row
    BY <1>1, <1>2, SweepTypes
  <2>2. QED
    BY <1>1, <2>1 DEF Retryable, Swept, Released, Row
<1>6. ResultInv(mid, state) /\ NoMatchedIn(mid) = NoMatchedIn(work)
  BY <1>1, <1>2, FreedTable DEF Leased
<1>7. HolderIn(mid) = Ledger!Revoked(S)
  BY <1>1, <1>2, FreedHolders
<1>. HIDE DEF mid, S
<1>8. /\ work'[c].state = "leased" /\ work'[c].token = FreshToken
      /\ work'[c].kind = mid[c].kind
      /\ \A b \in Chunks : b # c => work'[b] = mid[b]
  <2>1. work'[c] = Granted(mid[c], w, FreshToken, at + term)
    BY <1>2, <1>4, <1>5
  <2>2. QED
    BY <1>2, <1>4, <1>5, <2>1 DEF Granted, Row
<1>9. HolderIn(work') = [Ledger!Revoked(S) EXCEPT ![c] = FreshToken]
  <2>1. HolderIn(work') = [HolderIn(mid) EXCEPT ![c] = FreshToken]
    BY <1>5, <1>8 DEF HolderIn
  <2>2. QED
    BY <2>1, <1>7
<1>10. NoMatchedIn(work') = NoMatchedIn(work)
  BY <1>6, <1>8 DEF NoMatchedIn
<1>11. Ledger!Revoked(S)[c] = Null /\ c \notin NoMatched
  <2>1. HolderIn(mid)[c] = Null
    BY <1>5 DEF HolderIn
  <2>2. mid[c].kind = "none"
    BY <1>5, <1>6 DEF ResultInv
  <2>3. QED
    BY <1>6, <1>7, <2>1, <2>2 DEF NoMatchedIn, NoMatched
<1>12. state = "running" /\ state' = state /\ issued' = issued \cup {FreshToken}
  BY DEF LeaseRetry
<1>13. Ledger!Grant(S, c, FreshToken)
  BY <1>3, <1>9, <1>10, <1>11, <1>12
  DEF Ledger!Grant, HolderIn, NoMatchedIn, NoMatched
<1>14. Open(work', state')
  BY <1>10, <1>12 DEF Open
<1>15. QED
  BY <1>2, <1>3, <1>5, <1>13, <1>14 DEF Ledger!Grant

\* A lease that allocates grants a chunk nobody held.
LEMMA FreshGrants ==
  ASSUME IInv, Open(work, state), NEW w \in Workers, NEW at, NEW term,
         LeaseFresh(w, at, term)
  PROVE  /\ \E c \in Chunks, t \in Tokens : Ledger!Grant({}, c, t)
         /\ Open(work', state')
<1>1. /\ TypeOK /\ work \in [Chunks -> Row] /\ issued # Tokens
      /\ ResultInv(work, state)
      /\ state = "running" /\ state' = state /\ issued' = issued \cup {FreshToken}
  BY DEF IInv, TableInv, TypeOK, LeaseFresh
<1>2. FreshToken \in Tokens /\ FreshToken \notin issued
  BY <1>1, FreshTokenType
<1>3. PICK c \in Proposed :
        c \notin Allocated /\ work' = [work EXCEPT ![c] = NewRow(w, at + term)]
  BY DEF LeaseFresh
<1>4. c \in Chunks /\ work[c].state = "absent"
  <2>1. next_sequence < Total /\ next_sequence \in Nat
    BY <1>1 DEF LeaseFresh, TypeOK
  <2>2. Order[seed][next_sequence] \in Chunks
    BY <1>1, <2>1, TotalAssumption, OrderAssumption DEF TypeOK, Chunks
  <2>3. QED
    BY <1>3, <2>2 DEF Proposed, Allocated
<1>5. /\ work'[c].state = "leased" /\ work'[c].token = FreshToken
      /\ work'[c].kind = "none" /\ work[c].kind = "none"
      /\ \A b \in Chunks : b # c => work'[b] = work[b]
  <2>1. work'[c] = NewRow(w, at + term)
    BY <1>1, <1>3, <1>4
  <2>2. QED
    BY <1>1, <1>3, <1>4, <2>1 DEF NewRow, NoRow, Granted, ResultInv
<1>6. HolderIn(work') = [Ledger!Revoked({}) EXCEPT ![c] = FreshToken]
  BY <1>4, <1>5 DEF HolderIn, Ledger!Revoked
<1>7. NoMatchedIn(work') = NoMatchedIn(work) /\ c \notin NoMatchedIn(work)
  BY <1>5 DEF NoMatchedIn
<1>8. Ledger!Revoked({})[c] = Null
  BY <1>4 DEF Ledger!Revoked
<1>9. Ledger!Grant({}, c, FreshToken)
  BY <1>1, <1>2, <1>6, <1>7, <1>8
  DEF Ledger!Grant, HolderIn, NoMatchedIn, NoMatched
<1>10. Open(work', state')
  BY <1>1, <1>7 DEF Open
<1>11. QED
  BY <1>2, <1>4, <1>9, <1>10 DEF Ledger!Grant

\* An accepted no-match is a report, an accepted key a find.
LEMMA CreditReports ==
  ASSUME IInv, Open(work, state), NEW c \in Leased, NEW t \in Tokens, NEW w,
         Owns(c, t, w), NEW checked \in Nat, NEW key \in Keys \cup {Null},
         Plausible(c, checked, key), Credit(c, t, w, checked, key)
  PROVE  Ledger!LedgerNext /\ Open(work', state')
<1>1. /\ TypeOK /\ work \in [Chunks -> Row] /\ c \in Chunks
      /\ work[c].state = "leased" /\ work[c].token = t
      /\ SeqInv(work, next_sequence) /\ ResultInv(work, state)
  BY DEF IInv, TableInv, TypeOK, Leased, Owns
<1>2. /\ work' = Put(work, c, Finished(work[c], checked, key))
      /\ next_sequence' = next_sequence /\ issued' = issued
      /\ key = Null => state' = MarkedState(work')
      /\ key # Null => state' = "found"
  BY DEF Credit, Put, countVars
<1>3. /\ SeqInv(work', next_sequence)
      /\ ResultInv(work', IF key = Null THEN state ELSE "found")
  BY <1>1, <1>2, FinishedTable
<1>4. /\ work'[c].state = "completed" /\ work'[c].kind = Kind(key)
      /\ \A b \in Chunks : b # c => work'[b] = work[b]
      /\ work[c].kind = "none"
  BY <1>1, <1>2 DEF Put, Finished, Row, ResultInv
<1>5. HolderIn(work)[c] # Null /\ HolderIn(work') = [HolderIn(work) EXCEPT ![c] = Null]
  BY <1>1, <1>4, NullAssumption DEF HolderIn
<1>6. CASE key = Null
  <2>1. NoMatchedIn(work') = NoMatchedIn(work) \cup {c}
    BY <1>1, <1>4, <1>6 DEF NoMatchedIn, Kind
  <2>2. state' = IF state = "running" /\ NoMatchedIn(work') = Chunks
                 THEN "exhausted" ELSE state
    BY <1>1, <1>2, <1>3, <1>6, MarkedExactly
  <2>3. Ledger!Report(c)
    BY <1>2, <1>5, <2>1, <2>2 DEF Ledger!Report, HolderIn, NoMatchedIn, NoMatched
  <2>4. QED
    BY <1>1, <2>2, <2>3 DEF Ledger!LedgerNext, Open
<1>7. CASE key # Null
  <2>1. NoMatchedIn(work') = NoMatchedIn(work)
    BY <1>1, <1>4, <1>7 DEF NoMatchedIn, Kind
  <2>2. Ledger!Find
    BY <1>1, <1>2, <1>5, <1>7, <2>1 DEF Ledger!Find, HolderIn, NoMatchedIn, NoMatched
  <2>3. QED
    BY <1>2, <1>7, <2>2 DEF Ledger!LedgerNext, Open
<1>8. QED
  BY <1>6, <1>7

\* A call that changes no holder and no result is no step of the contract,
\* unless it records a key.
LEMMA IdleStep ==
  ASSUME Open(work, state), issued' = issued,
         state' \in {state, "found"},
         \A c \in Chunks : /\ work'[c].state = work[c].state
                           /\ work'[c].token = work[c].token
                           /\ work'[c].kind = work[c].kind
  PROVE  [Ledger!LedgerNext]_(Ledger!ledgerVars) /\ Open(work', state')
<1>1. HolderIn(work') = HolderIn(work) /\ NoMatchedIn(work') = NoMatchedIn(work)
  BY DEF HolderIn, NoMatchedIn
<1>2. CASE state' = state
  BY <1>1, <1>2 DEF Ledger!ledgerVars, HolderIn, NoMatchedIn, NoMatched, Open
<1>3. CASE state' = "found"
  <2>1. Ledger!Find
    BY <1>1, <1>3 DEF Ledger!Find, HolderIn, NoMatchedIn, NoMatched
  <2>2. QED
    BY <1>3, <2>1 DEF Ledger!LedgerNext, Open
<1>4. QED
  BY <1>2, <1>3

\* Every step of the coordinator is a step of the contract or none.
LEMMA LedgerStep ==
  ASSUME IInv, Open(work, state), [Next]_vars
  PROVE  [Ledger!LedgerNext]_(Ledger!ledgerVars) /\ Open(work', state')
<1>0. /\ TypeOK /\ work \in [Chunks -> Row] /\ \A c \in Chunks : work[c] \in Row
      /\ Leased \in SUBSET Chunks
  BY DEF IInv, TypeOK, Leased
<1>r. ASSUME NEW S \in SUBSET Leased, Ledger!Revoke(S)
      PROVE  Ledger!LedgerNext
  <2>1. S \in SUBSET Chunks
    BY <1>0
  <2>2. QED
    BY <1>r, <2>1 DEF Ledger!LedgerNext
<1>1. CASE Tick \/ UNCHANGED vars
  BY <1>1, IdleStep DEF Tick, vars, countVars
<1>2. ASSUME NEW at \in Readings,
             LeaseNone(at) \/ Status(at)
      PROVE  [Ledger!LedgerNext]_(Ledger!ledgerVars) /\ Open(work', state')
  <2>1. work' = Freed(work, ExpiredAt(at)) /\ ExpiredAt(at) \in SUBSET Leased
    BY <1>0, <1>2, SweepIsFreed DEF LeaseNone, Status
  <2>2. /\ state' = MarkedState(work') /\ next_sequence' = next_sequence
        /\ issued' = issued
    BY <1>2 DEF LeaseNone, Status
  <2>3. QED
    BY <1>r, <2>1, <2>2, RevokeStep
<1>3. CASE LeaseCall
  <2>1. PICK at \in Readings :
          \/ \E w \in Workers, term \in LeaseTerms :
               LeaseRetry(w, at, term) \/ LeaseFresh(w, at, term)
          \/ LeaseNone(at)
    BY <1>3 DEF LeaseCall
  <2>2. at \in Nat
    BY DEF Readings
  <2>3. ASSUME NEW w \in Workers, NEW term, LeaseRetry(w, at, term)
        PROVE  Ledger!LedgerNext /\ Open(work', state')
    BY <2>2, <2>3, RetryGrants DEF Ledger!LedgerNext
  <2>4. ASSUME NEW w \in Workers, NEW term, LeaseFresh(w, at, term)
        PROVE  Ledger!LedgerNext /\ Open(work', state')
    BY <2>4, FreshGrants DEF Ledger!LedgerNext
  <2>5. QED
    BY <1>2, <2>1, <2>3, <2>4
<1>4. CASE TokenCall
  <2>1. PICK t \in Tokens, w \in Workers :
          \/ \E at \in Readings, term \in LeaseTerms : Heartbeat(t, w, at, term)
          \/ \E at \in Readings, checked \in Counts, key \in Keys \cup {Null} :
               Complete(t, w, checked, key, at)
          \/ Fail(t, w)
    BY <1>4 DEF TokenCall
  <2>2. ASSUME NEW c \in Leased, work' = [work EXCEPT ![c] = Released(@)],
               UNCHANGED <<state, next_sequence, issued>>
        PROVE  Ledger!LedgerNext /\ Open(work', state')
    <3>1. work' = Freed(work, {c}) /\ {c} \in SUBSET Leased
      BY <1>0, <2>2, SweepIsFreed
    <3>2. QED
      BY <1>r, <2>2, <3>1, RevokeStep
  <2>3. ASSUME NEW c \in Leased, NEW at, RejectExpired(c, at)
        PROVE  Ledger!LedgerNext /\ Open(work', state')
    BY <2>2, <2>3 DEF RejectExpired
  <2>4. ASSUME NEW c \in Leased, NEW at, NEW term, Extend(c, at, term)
        PROVE  [Ledger!LedgerNext]_(Ledger!ledgerVars) /\ Open(work', state')
    <3>1. /\ \A b \in Chunks : /\ work'[b].state = work[b].state
                               /\ work'[b].token = work[b].token
                               /\ work'[b].kind = work[b].kind
          /\ state' = state /\ issued' = issued
      BY <1>0, <2>4 DEF Extend, Row, countVars
    <3>2. QED
      BY <3>1, IdleStep
  <2>5. CASE \E at \in Readings, checked \in Counts, key \in Keys \cup {Null} :
               Complete(t, w, checked, key, at)
    <3>1. Counts \subseteq Nat
      BY SizeAssumption DEF Counts
    <3>2. PICK at \in Readings, checked \in Nat, key \in Keys \cup {Null} :
            Complete(t, w, checked, key, at)
      BY <2>5, <3>1
    <3>3. PICK c \in Leased :
            /\ Owns(c, t, w)
            /\ \/ RejectExpired(c, at)
               \/ Plausible(c, checked, key) /\ Credit(c, t, w, checked, key)
      BY <3>2 DEF Complete
    <3>4. QED
      BY <2>3, <3>3, CreditReports
  <2>6. CASE Fail(t, w)
    BY <2>2, <2>6 DEF Fail
  <2>7. QED
    BY <2>1, <2>3, <2>4, <2>5, <2>6 DEF Heartbeat
<1>5. CASE KeyCall
  <2>1. /\ \A c \in Chunks : /\ work'[c].state = work[c].state
                             /\ work'[c].token = work[c].token
                             /\ work'[c].kind = work[c].kind
        /\ issued' = issued /\ state' \in {state, "found"}
    BY <1>0, <1>5 DEF KeyCall, RecordVerifiedCandidate, ScrubFoundKey, countVars, Row
  <2>2. QED
    BY <2>1, IdleStep
<1>6. CASE OperatorCall
  <2>1. CASE EnableCold \/ EnableHypothesis \/ \E s \in Seeds : Reseed(s)
    BY <2>1, IdleStep DEF EnableCold, EnableHypothesis, Reseed, countVars
  <2>2. QED
    BY <1>2, <1>6, <2>1 DEF OperatorCall
<1>7. QED
  BY <1>1, <1>3, <1>4, <1>5, <1>6 DEF Next

\* The coordinator keeps the coverage contract: one holder per chunk under a
\* token never used before, credit that is never taken back, and a verdict that
\* comes with the last report.
THEOREM CoordinatorImplementsLedger == Spec => ImplementsLedger
<1>1. Init => Ledger!LedgerInit /\ Open(work, state)
  <2>. SUFFICES ASSUME Init PROVE Ledger!LedgerInit /\ Open(work, state)
    OBVIOUS
  <2>1. \A c \in Chunks : work[c].state = "absent" /\ work[c].kind = "none"
    BY DEF Init, NoRow
  <2>2. 0 \in Chunks
    BY TotalAssumption DEF Chunks
  <2>3. NoMatchedIn(work) = {} /\ HolderIn(work) = [c \in Chunks |-> Null]
    BY <2>1 DEF NoMatchedIn, HolderIn
  <2>4. QED
    BY <2>2, <2>3
    DEF Init, Ledger!LedgerInit, Ledger!Free, HolderIn, NoMatchedIn, NoMatched, Open
<1>2. IInv /\ Open(work, state) /\ [Next]_vars
        => [Ledger!LedgerNext]_(Ledger!ledgerVars) /\ Open(work, state)'
  <2>. SUFFICES ASSUME IInv, Open(work, state), [Next]_vars
                PROVE  [Ledger!LedgerNext]_(Ledger!ledgerVars) /\ Open(work, state)'
    OBVIOUS
  <2>1. Open(work', state') => Open(work, state)'
    BY DEF Open, NoMatchedIn
  <2>2. QED
    BY <2>1, LedgerStep
<1>3. QED
  BY <1>1, <1>2, Invariant, PTL DEF Spec, ImplementsLedger, Ledger!LedgerSpec

=============================================================================
