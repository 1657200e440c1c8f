--------------------------- MODULE CoverageLedger ---------------------------
(***************************************************************************)
(* What the coordinator promises its callers, without rows, clocks,        *)
(* sequence numbers or planner modes: who holds which chunk, which chunks  *)
(* are credited as searched, and the verdict of the campaign.              *)
(*                                                                         *)
(*   - a chunk has one holder at a time, under a token never used before;  *)
(*   - a credited chunk stays credited and is never handed out again;      *)
(*   - the verdict "exhausted" comes with the report that credits the last *)
(*     chunk and at no other moment; "found" ends the leasing for good.    *)
(*                                                                         *)
(* Coordinator.tla implements it (ImplementsLedger).                       *)
(***************************************************************************)
CONSTANTS Chunks, Tokens, None

VARIABLES
  holder,   \* holder[c]: the token chunk c is held under, or None
  covered,  \* chunks credited as searched without a match
  used,     \* tokens handed out so far
  verdict

ledgerVars == <<holder, covered, used, verdict>>

Free == [c \in Chunks |-> None]

LedgerInit ==
  /\ holder = Free
  /\ covered = {}
  /\ used = {}
  /\ verdict = "running"

Revoked(S) == [c \in Chunks |-> IF c \in S THEN None ELSE holder[c]]

\* Holders that are late or gave up lose their chunks.
Revoke(S) ==
  /\ holder' = Revoked(S)
  /\ UNCHANGED <<covered, used, verdict>>

\* Chunk c is handed out; holders that are late lose theirs on the way.
Grant(S, c, t) ==
  /\ verdict = "running"
  /\ c \notin covered
  /\ Revoked(S)[c] = None
  /\ t \notin used
  /\ holder' = [Revoked(S) EXCEPT ![c] = t]
  /\ used' = used \cup {t}
  /\ UNCHANGED <<covered, verdict>>

\* The holder of c reports it searched.
Report(c) ==
  /\ holder[c] # None
  /\ holder' = [holder EXCEPT ![c] = None]
  /\ covered' = covered \cup {c}
  /\ verdict' = IF verdict = "running" /\ covered' = Chunks
                THEN "exhausted" ELSE verdict
  /\ UNCHANGED used

\* The key is found, by the holder of c or outside any lease.
Find ==
  /\ \/ holder' = holder
     \/ \E c \in Chunks : holder[c] # None /\ holder' = [holder EXCEPT ![c] = None]
  /\ verdict' = "found"
  /\ UNCHANGED <<covered, used>>

LedgerNext ==
  \/ \E S \in SUBSET Chunks :
       Revoke(S) \/ \E c \in Chunks, t \in Tokens : Grant(S, c, t)
  \/ \E c \in Chunks : Report(c)
  \/ Find

LedgerSpec == LedgerInit /\ [][LedgerNext]_ledgerVars

=============================================================================
