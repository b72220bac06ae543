--------------------------- MODULE WorkQueueProofs ---------------------------
(***************************************************************************)
(* Theorems about WorkQueue, for any sets of paid and cash jobs, seekers   *)
(* and listings, and any capacity.                                         *)
(***************************************************************************)
EXTENDS WorkQueue, FiniteSetTheorems, TLAPS

-----------------------------------------------------------------------------
(* The inductive invariant                                                  *)

JobType == [status : Statuses, before : Statuses, started : BOOLEAN,
            seeker : Seekers \cup {"none"}, source : Sources \cup {"none"}]
RowType == [status : {"none", "WAITING", "SERVING", "DONE", "CANCELLED"}, position : Nat, wait : Nat]

\* What a booking asks of the queue.
Working(b) == b.status = "ONGOING" \/ (b.status \in Paused /\ b.before = "ONGOING")
Agreed(b)  == b.status = "ACCEPTED" \/ (b.status \in Paused /\ b.before = "ACCEPTED")

\* A booking remembers a status exactly while it is paused, work that goes on
\* was started, and nothing is started that was not booked.
JobOK(b) ==
    /\ IF b.status \in Paused THEN b.before \in {"ACCEPTED", "ONGOING", "AWAITING_CONFIRMATION"}
                              ELSE b.before = "none"
    /\ Working(b) => b.started
    /\ b.started => b.status # "none"

Follows(r, b) ==
    /\ r.status = "SERVING" <=> Working(b)
    /\ r.status = "WAITING" <=> Agreed(b)
    /\ r.status = "none" <=> b.status = "none"

\* Rows that a recalculation can be given: finitely many active ones, one of
\* them served, no two at one position.
RowsOK(rows) ==
    /\ rows \in [PaidJobs -> RowType] /\ IsFiniteSet(ActiveIn(rows))
    /\ \A j \in PaidJobs : rows[j].status # "none" => rows[j].position > 0
    /\ \A j, k \in ActiveIn(rows) : rows[j].position = rows[k].position => j = k
    /\ \A j, k \in ServingIn(rows) : j = k

\* Rows that a recalculation leaves behind: it would not change them again.
Compact(rows) ==
    /\ \A j \in ServingIn(rows) : rows[j].position = 1
    /\ \A j \in WaitingIn(rows) : rows[j].position = NewPosition(rows, j)

MirrorInv == mirror \in [PaidJobs -> Nat] /\ \A j \in ActiveIn(row) : mirror[j] = row[j].position

JobsInv ==
    /\ job \in [Jobs -> JobType]
    /\ \A j \in Jobs : JobOK(job[j])
    /\ \A j, k \in Jobs : Working(job[j]) /\ Working(job[k]) => j = k
    /\ \A j \in PaidJobs : Follows(row[j], job[j])

\* While a job is being started it stays ready and the provider idle.
StartInv == starting \in Jobs => Ready(starting) /\ \A k \in Jobs : ~Working(job[k])

WaitInv ==
    \A j \in WaitingIn(row) :
        row[j].wait >= Cardinality(Ahead(row, j)) + (IF \E k \in Jobs : Working(job[k]) THEN 1 ELSE 0)

IInv == RowsOK(row) /\ Compact(row) /\ MirrorInv /\ JobsInv /\ StartInv /\ WaitInv

-----------------------------------------------------------------------------
(* The queue by itself                                                      *)

\* The rows ahead of a waiting one are counted, and fewer than all.
LEMMA AheadCounts ==
    ASSUME NEW rows, RowsOK(rows)
    PROVE  /\ IsFiniteSet(WaitingIn(rows)) /\ Cardinality(WaitingIn(rows)) \in Nat
           /\ \A j \in WaitingIn(rows) : /\ IsFiniteSet(Ahead(rows, j)) /\ Cardinality(Ahead(rows, j)) \in Nat
                                         /\ Cardinality(Ahead(rows, j)) + 1 <= Cardinality(WaitingIn(rows))
           /\ \A j, k \in WaitingIn(rows) :
                 rows[j].position < rows[k].position => Cardinality(Ahead(rows, j)) + 1 <= Cardinality(Ahead(rows, k))
<1> DEFINE W == WaitingIn(rows)
<1>1. W \in SUBSET ActiveIn(rows) /\ W \subseteq PaidJobs /\ IsFiniteSet(ActiveIn(rows))
  BY DEF ActiveIn, WaitingIn, RowsOK
<1>2. IsFiniteSet(W)
  BY <1>1, FS_Subset
<1>3. Cardinality(W) \in Nat
  BY <1>2, FS_CardinalityType
<1>4. \A j \in W : rows[j].position \in Nat
  BY <1>1 DEF RowsOK, RowType
<1> HIDE DEF W
<1>5. ASSUME NEW j \in W
      PROVE  /\ Ahead(rows, j) \in SUBSET W /\ j \notin Ahead(rows, j)
             /\ IsFiniteSet(Ahead(rows, j)) /\ Cardinality(Ahead(rows, j)) \in Nat
             /\ Cardinality(Ahead(rows, j) \cup {j}) = Cardinality(Ahead(rows, j)) + 1
  <2>1. Ahead(rows, j) \in SUBSET W /\ j \notin Ahead(rows, j)
    BY <1>4 DEF Ahead, W
  <2>2. IsFiniteSet(Ahead(rows, j))
    BY <1>2, <2>1, FS_Subset
  <2>3. QED
    BY <2>1, <2>2, FS_CardinalityType, FS_AddElement
<1>6. ASSUME NEW j \in W PROVE Cardinality(Ahead(rows, j)) + 1 <= Cardinality(W)
  <2>1. Ahead(rows, j) \cup {j} \in SUBSET W
    BY <1>5
  <2>2. Cardinality(Ahead(rows, j) \cup {j}) <= Cardinality(W)
    BY <1>2, <2>1, FS_Subset
  <2>3. QED
    BY <1>5, <2>2
<1>7. ASSUME NEW j \in W, NEW k \in W, rows[j].position < rows[k].position
      PROVE  Cardinality(Ahead(rows, j)) + 1 <= Cardinality(Ahead(rows, k))
  <2>1. Ahead(rows, j) \cup {j} \in SUBSET Ahead(rows, k)
    BY <1>4, <1>7 DEF Ahead, W
  <2>2. Cardinality(Ahead(rows, j) \cup {j}) <= Cardinality(Ahead(rows, k))
    BY <1>5, <2>1, FS_Subset
  <2>3. QED
    BY <1>5, <2>2
<1>8. QED
  BY <1>2, <1>3, <1>5, <1>6, <1>7 DEF W

\* Two positions are one or two places after the rows ahead.
LEMMA NewPositions ==
    ASSUME NEW rows, RowsOK(rows), NEW j \in WaitingIn(rows)
    PROVE  /\ NewPosition(rows, j) \in Nat /\ NewPosition(rows, j) >= 1
           /\ ServingIn(rows) # {} => NewPosition(rows, j) = 2 + Cardinality(Ahead(rows, j))
           /\ ServingIn(rows) = {} => NewPosition(rows, j) = 1 + Cardinality(Ahead(rows, j))
           /\ \A k \in WaitingIn(rows) : NewPosition(rows, j) < NewPosition(rows, k) <=> rows[j].position < rows[k].position
<1>1. /\ Cardinality(Ahead(rows, j)) \in Nat
      /\ \A k \in WaitingIn(rows) : /\ Cardinality(Ahead(rows, k)) \in Nat
                                    /\ rows[j].position < rows[k].position =>
                                          Cardinality(Ahead(rows, j)) + 1 <= Cardinality(Ahead(rows, k))
                                    /\ rows[k].position < rows[j].position =>
                                          Cardinality(Ahead(rows, k)) + 1 <= Cardinality(Ahead(rows, j))
  BY AheadCounts
<1>2. \A k \in WaitingIn(rows) : rows[k].position \in Nat /\ (rows[k].position = rows[j].position => k = j)
  BY DEF RowsOK, RowType, WaitingIn, ActiveIn
<1>3. /\ ServingIn(rows) # {} => \A k \in WaitingIn(rows) : NewPosition(rows, k) = 2 + Cardinality(Ahead(rows, k))
      /\ ServingIn(rows) = {} => \A k \in WaitingIn(rows) : NewPosition(rows, k) = 1 + Cardinality(Ahead(rows, k))
  BY DEF NewPosition
<1>4. ASSUME NEW k \in WaitingIn(rows)
      PROVE  NewPosition(rows, j) < NewPosition(rows, k) <=> rows[j].position < rows[k].position
  <2>1. \/ rows[j].position < rows[k].position \/ rows[k].position < rows[j].position
        \/ k = j /\ rows[j].position = rows[k].position
    BY <1>2
  <2>2. QED
    BY <1>1, <1>2, <1>3, <2>1
<1>5. QED
  BY <1>1, <1>3, <1>4

\* The job at work comes before every waiting one.
AtFront(rows, jobs) == IF ServingIn(rows) # {} \/ CashInProgress(jobs) THEN 1 ELSE 0

RowAfter(rows, jobs, j) ==
    IF j \in WaitingIn(rows)
    THEN [rows[j] EXCEPT !.position = NewPosition(rows, j),
                         !.wait = AtFront(rows, jobs) + Cardinality(Ahead(rows, j))]
    ELSE IF j \in ServingIn(rows) THEN [rows[j] EXCEPT !.position = 1, !.wait = 0]
    ELSE rows[j]

\* The recalculation row by row.
LEMMA RowByRow ==
    ASSUME NEW rows, NEW jobs
    PROVE  Recalculated(rows, jobs) = [j \in PaidJobs |-> RowAfter(rows, jobs, j)]
BY Zenon DEF Recalculated, RowAfter, AtFront

\* A waiting row by its fields.
LEMMA RowFields ==
    ASSUME NEW rows, NEW jobs, NEW j \in WaitingIn(rows), rows[j] \in RowType,
           NewPosition(rows, j) \in Nat, Cardinality(Ahead(rows, j)) \in Nat,
           NEW n, n = RowAfter(rows, jobs, j)
    PROVE  /\ n \in RowType /\ n.status = rows[j].status
           /\ n.position = NewPosition(rows, j) /\ n.wait = AtFront(rows, jobs) + Cardinality(Ahead(rows, j))
<1> DEFINE f == AtFront(rows, jobs)
           p == NewPosition(rows, j)
           c == Cardinality(Ahead(rows, j))
<1>1. f \in Nat
  BY DEF AtFront
<1>2. n = [rows[j] EXCEPT !.position = p, !.wait = f + c]
  BY Zenon DEF RowAfter
<1>3. p \in Nat /\ c \in Nat
  OBVIOUS
<1> HIDE DEF f, p, c
<1>4. f + c \in Nat
  BY <1>1, <1>3
<1>5. n \in RowType /\ n.status = rows[j].status /\ n.position = p /\ n.wait = f + c
  BY <1>2, <1>3, <1>4 DEF RowType
<1>6. QED
  BY <1>5 DEF f, p, c

\* The other rows.
LEMMA RowOf ==
    ASSUME NEW rows, NEW jobs, NEW j, j \notin WaitingIn(rows), NEW n, n = RowAfter(rows, jobs, j)
    PROVE  /\ j \in ServingIn(rows) /\ rows[j] \in RowType =>
                 n \in RowType /\ n.status = rows[j].status /\ n.position = 1
           /\ j \notin ServingIn(rows) => n = rows[j]
<1>1. /\ j \in ServingIn(rows) => n = [rows[j] EXCEPT !.position = 1, !.wait = 0]
      /\ j \notin ServingIn(rows) => n = rows[j]
  BY Zenon DEF RowAfter
<1>2. ASSUME NEW x \in Nat, NEW y \in Nat, rows[j] \in RowType, n = [rows[j] EXCEPT !.position = x, !.wait = y]
      PROVE  n \in RowType /\ n.status = rows[j].status /\ n.position = x
  BY <1>2 DEF RowType
<1>3. 0 \in Nat /\ 1 \in Nat
  OBVIOUS
<1>4. QED
  BY <1>1, <1>2, <1>3, Zenon

\* What recalculateQueueInTransaction does: it keeps the rows' statuses and their
\* order, and leaves them compact.
LEMMA Recalculates ==
    ASSUME NEW rows, RowsOK(rows), NEW jobs, NEW r, r = Recalculated(rows, jobs)
    PROVE  /\ RowsOK(r) /\ Compact(r)
           /\ \A j \in PaidJobs : r[j].status = rows[j].status
           /\ WaitingIn(r) = WaitingIn(rows) /\ ServingIn(r) = ServingIn(rows)
           /\ \A j \in WaitingIn(rows) :
                 /\ Ahead(r, j) = Ahead(rows, j)
                 /\ r[j].wait = AtFront(rows, jobs) + Cardinality(Ahead(rows, j))
<1> DEFINE W == WaitingIn(rows)
           S == ServingIn(rows)
<1>1. /\ rows \in [PaidJobs -> RowType] /\ W \subseteq PaidJobs /\ S \subseteq PaidJobs /\ W \cap S = {}
      /\ ActiveIn(rows) = W \cup S
  BY DEF RowsOK, WaitingIn, ServingIn, ActiveIn
<1>2. \A j \in W : NewPosition(rows, j) \in Nat /\ NewPosition(rows, j) >= 1 /\ Cardinality(Ahead(rows, j)) \in Nat
  BY NewPositions, AheadCounts
<1>3. r = [j \in PaidJobs |-> RowAfter(rows, jobs, j)] /\ \A j \in PaidJobs : r[j] = RowAfter(rows, jobs, j)
  BY RowByRow
<1>4. ASSUME NEW j \in W
      PROVE  /\ r[j] \in RowType /\ r[j].status = rows[j].status
             /\ r[j].position = NewPosition(rows, j)
             /\ r[j].wait = AtFront(rows, jobs) + Cardinality(Ahead(rows, j))
  BY <1>1, <1>2, <1>3, RowFields
<1>5. ASSUME NEW j \in S PROVE r[j] \in RowType /\ r[j].status = rows[j].status /\ r[j].position = 1
  <2>1. rows[j] \in RowType /\ j \notin W
    BY <1>1
  <2>2. r[j] = RowAfter(rows, jobs, j)
    BY <1>1, <1>3
  <2>3. QED
    BY <2>1, <2>2, RowOf
<1>6. \A j \in PaidJobs \ (W \cup S) : r[j] = rows[j]
  BY <1>1, <1>3, RowOf
<1> HIDE DEF W, S
<1>7. r \in [PaidJobs -> RowType] /\ \A j \in PaidJobs : r[j].status = rows[j].status
  <2>1. \A j \in PaidJobs : r[j] \in RowType /\ r[j].status = rows[j].status
    BY <1>1, <1>4, <1>5, <1>6
  <2>2. r = [j \in PaidJobs |-> r[j]]
    BY <1>3
  <2>3. QED
    BY <2>1, <2>2
<1>8. WaitingIn(r) = W /\ ServingIn(r) = S /\ ActiveIn(r) = W \cup S
  BY <1>7 DEF WaitingIn, ServingIn, ActiveIn, W, S
<1>9. \A j, k \in W : r[j].position < r[k].position <=> rows[j].position < rows[k].position
  BY <1>4, NewPositions DEF W
<1>10. \A j \in W : Ahead(r, j) = Ahead(rows, j)
  BY <1>8, <1>9 DEF Ahead, W
<1>11. \A j \in W : NewPosition(r, j) = NewPosition(rows, j)
  BY <1>8, <1>10 DEF NewPosition, S
<1>12. Compact(r)
  BY <1>4, <1>5, <1>8, <1>11 DEF Compact
<1>13. \A j, k \in W \cup S : r[j].position = r[k].position => j = k
  <2>1. ASSUME NEW j \in W, NEW k \in W, r[j].position = r[k].position PROVE j = k
    <3>1. ~(rows[j].position < rows[k].position) /\ ~(rows[k].position < rows[j].position)
      BY <1>2, <1>4, <1>9, <2>1
    <3>2. rows[j].position = rows[k].position
      BY <1>1, <3>1 DEF RowType
    <3>3. QED
      BY <1>1, <3>2 DEF RowsOK
  <2>2. ASSUME NEW j \in S, NEW k \in W PROVE r[j].position # r[k].position
    <3>1. r[k].position = 2 + Cardinality(Ahead(rows, k))
      BY <1>4, NewPositions DEF W, S
    <3>2. QED
      BY <1>2, <1>5, <3>1
  <2>3. \A j, k \in S : j = k
    BY DEF RowsOK, S
  <2>4. QED
    BY <2>1, <2>2, <2>3
<1>14. RowsOK(r)
  <2>1. \A j \in PaidJobs : r[j].status # "none" => r[j].position > 0
    <3> SUFFICES ASSUME NEW j \in PaidJobs, r[j].status # "none" PROVE r[j].position > 0
      OBVIOUS
    <3>1. CASE j \in W
      BY <1>2, <1>4, <3>1
    <3>2. CASE j \in S
      BY <1>5, <3>2
    <3>3. CASE j \notin W \cup S
      BY <1>6, <1>7, <3>3 DEF RowsOK
    <3>4. QED
      BY <3>1, <3>2, <3>3
  <2>2. IsFiniteSet(ActiveIn(r)) /\ \A j, k \in ServingIn(r) : j = k
    BY <1>1, <1>8 DEF RowsOK, S
  <2>3. QED
    BY <1>7, <1>8, <1>13, <2>1, <2>2 DEF RowsOK
<1>15. QED
  BY <1>4, <1>7, <1>8, <1>10, <1>12, <1>14 DEF W, S

\* One row at most is served, and the active rows are it and the waiting ones.
LEMMA ActiveCounts ==
    ASSUME NEW rows, RowsOK(rows)
    PROVE  /\ Cardinality(ServingIn(rows)) = IF ServingIn(rows) = {} THEN 0 ELSE 1
           /\ Cardinality(ActiveIn(rows)) = Cardinality(WaitingIn(rows)) + Cardinality(ServingIn(rows))
           /\ Cardinality(WaitingIn(rows)) \in Nat /\ Cardinality(ActiveIn(rows)) \in Nat
<1> DEFINE W == WaitingIn(rows)
           S == ServingIn(rows)
<1>1. /\ S \in SUBSET ActiveIn(rows) /\ ActiveIn(rows) = W \cup S /\ W \cap S = {} /\ IsFiniteSet(ActiveIn(rows))
      /\ \A j, k \in S : j = k
  BY DEF ActiveIn, WaitingIn, ServingIn, RowsOK
<1>2. IsFiniteSet(W) /\ Cardinality(W) \in Nat
  BY AheadCounts
<1> HIDE DEF W, S
<1>3. IsFiniteSet(S)
  BY <1>1, FS_Subset
<1>4. Cardinality(S) = IF S = {} THEN 0 ELSE 1
  <2>1. CASE S = {}
    BY <2>1, FS_EmptySet
  <2>2. CASE S # {}
    <3>1. PICK j \in S : TRUE
      BY <2>2
    <3>2. S = {j}
      BY <1>1, <3>1
    <3>3. Cardinality({j}) = 1
      BY FS_Singleton
    <3>4. QED
      BY <2>2, <3>2, <3>3
  <2>3. QED
    BY <2>1, <2>2
<1>5. Cardinality(W \cup S) = Cardinality(W) + Cardinality(S)
  <2>1. Cardinality(W \cup S) = Cardinality(W) + Cardinality(S) - Cardinality(W \cap S)
    BY <1>2, <1>3, FS_Union
  <2>2. Cardinality(W \cap S) = 0
    BY <1>1, FS_EmptySet
  <2>3. QED
    BY <1>2, <1>4, <2>1, <2>2
<1>6. QED
  BY <1>1, <1>2, <1>4, <1>5 DEF W, S

\* A compact queue stands at 1, 2, ... without a gap: its positions are as many
\* as its rows, and none is beyond their number.
LEMMA Contiguous ==
    ASSUME NEW rows, RowsOK(rows), Compact(rows)
    PROVE  /\ {rows[j].position : j \in ActiveIn(rows)} = 1 .. Cardinality(ActiveIn(rows))
           /\ \A j \in ActiveIn(rows) : rows[j].position \in 1 .. Cardinality(ActiveIn(rows))
<1> DEFINE A == ActiveIn(rows)
           n == Cardinality(A)
           f == [j \in A |-> rows[j].position]
<1>1. /\ n \in Nat /\ n = Cardinality(WaitingIn(rows)) + Cardinality(ServingIn(rows))
      /\ Cardinality(ServingIn(rows)) = IF ServingIn(rows) = {} THEN 0 ELSE 1
      /\ Cardinality(WaitingIn(rows)) \in Nat
  BY ActiveCounts
<1>2. A = WaitingIn(rows) \cup ServingIn(rows) /\ IsFiniteSet(A)
  BY DEF ActiveIn, RowsOK
<1> HIDE DEF A, n
<1>3. \A j \in A : rows[j].position \in 1 .. n
  <2>1. ASSUME NEW j \in WaitingIn(rows) PROVE rows[j].position \in 1 .. n
    <3>1. Cardinality(Ahead(rows, j)) \in Nat /\ Cardinality(Ahead(rows, j)) + 1 <= Cardinality(WaitingIn(rows))
      BY AheadCounts
    <3>2. rows[j].position = NewPosition(rows, j)
      BY DEF Compact
    <3>3. /\ ServingIn(rows) # {} => rows[j].position = 2 + Cardinality(Ahead(rows, j))
          /\ ServingIn(rows) = {} => rows[j].position = 1 + Cardinality(Ahead(rows, j))
      BY <3>2, NewPositions
    <3>4. CASE ServingIn(rows) # {}
      BY <1>1, <3>1, <3>3, <3>4
    <3>5. CASE ServingIn(rows) = {}
      BY <1>1, <3>1, <3>3, <3>5
    <3>6. QED
      BY <3>4, <3>5
  <2>2. ASSUME NEW j \in ServingIn(rows) PROVE rows[j].position \in 1 .. n
    <3>1. rows[j].position = 1 /\ ServingIn(rows) # {}
      BY DEF Compact
    <3>2. QED
      BY <1>1, <3>1
  <2>3. QED
    BY <1>2, <2>1, <2>2
<1>4. f \in Injection(A, 1 .. n)
  <2>1. f \in [A -> 1 .. n]
    BY <1>3
  <2>2. \A j, k \in A : f[j] = f[k] => j = k
    BY DEF RowsOK, A
  <2>3. QED
    BY <2>1, <2>2 DEF Injection, IsInjective
<1>5. IsFiniteSet(1 .. n) /\ Cardinality(1 .. n) = n
  <2>1. 1 \in Int /\ n \in Int
    BY <1>1
  <2>2. IsFiniteSet(1 .. n) /\ Cardinality(1 .. n) = IF 1 > n THEN 0 ELSE n - 1 + 1
    BY <2>1, FS_Interval
  <2>3. ASSUME NEW c, c = IF 1 > n THEN 0 ELSE n - 1 + 1 PROVE c = n
    BY <1>1, <2>3
  <2>4. QED
    BY <2>2, <2>3, Zenon
<1>6. f \in Surjection(A, 1 .. n)
  <2>1. Cardinality(A) = Cardinality(1 .. n)
    BY <1>5 DEF n
  <2> HIDE DEF f
  <2>2. QED
    BY <1>4, <1>5, <2>1, FS_Injection
<1>7. \A i \in 1 .. n : \E j \in A : f[j] = i
  BY <1>6 DEF Surjection
<1>8. {rows[j].position : j \in A} = 1 .. n
  BY <1>3, <1>7
<1>9. QED
  BY <1>3, <1>8 DEF A, n

\* The unique indexes hold as long as nobody has to move backwards.
LEMMA Forwards ==
    ASSUME NEW rows, RowsOK(rows),
           \A j \in ServingIn(rows), k \in WaitingIn(rows) : rows[k].position # 1,
           \A j \in WaitingIn(rows) : NewPosition(rows, j) <= rows[j].position
    PROVE  IndexesHold(rows)
<1>1. \A j, k \in ActiveIn(rows) : rows[j].position = rows[k].position => j = k
  BY DEF RowsOK
<1>2. Cardinality(ServingIn(rows)) <= 1
  BY ActiveCounts
<1>3. \A j, k \in WaitingIn(rows) : rows[j].position < rows[k].position => NewPosition(rows, j) # rows[k].position
  <2> SUFFICES ASSUME NEW j \in WaitingIn(rows), NEW k \in WaitingIn(rows), rows[j].position < rows[k].position
               PROVE  NewPosition(rows, j) # rows[k].position
    OBVIOUS
  <2>1. NewPosition(rows, j) \in Nat
    BY NewPositions
  <2>2. rows[j].position \in Nat /\ rows[k].position \in Nat
    BY DEF RowsOK, RowType, WaitingIn
  <2>3. QED
    BY <2>1, <2>2
<1>4. QED
  BY <1>1, <1>2, <1>3 DEF IndexesHold

\* Closing a row: nobody behind it moves backwards.
LEMMA ClosingRow ==
    ASSUME RowsOK(row), Compact(row), NEW j \in PaidJobs, row[j].status # "none",
           NEW s \in {"DONE", "CANCELLED"}, NEW c, c = Closed(j, s)
    PROVE  /\ RowsOK(c) /\ IndexesHold(c)
           /\ c[j].status = s /\ \A k \in PaidJobs \ {j} : c[k] = row[k]
           /\ WaitingIn(c) = WaitingIn(row) \ {j} /\ ServingIn(c) = ServingIn(row) \ {j}
           /\ \A k \in PaidJobs : c[k].position = row[k].position
<1>1. /\ row \in [PaidJobs -> RowType] /\ IsFiniteSet(ActiveIn(row))
      /\ \A k \in PaidJobs : row[k].status # "none" => row[k].position > 0
      /\ c = [row EXCEPT ![j].status = s]
  BY DEF RowsOK, Closed
<1>2. c[j].status = s /\ c[j].position = row[j].position /\ c[j] \in RowType
  BY <1>1 DEF RowType
<1>3. \A k \in PaidJobs \ {j} : c[k] = row[k]
  BY <1>1
<1>4. c \in [PaidJobs -> RowType]
  <2>1. DOMAIN c = PaidJobs /\ c = [k \in PaidJobs |-> c[k]]
    BY <1>1
  <2>2. \A k \in PaidJobs : c[k] \in RowType
    BY <1>1, <1>2, <1>3
  <2>3. QED
    BY <2>1, <2>2
<1>5. \A k \in PaidJobs : c[k].position = row[k].position
  BY <1>2, <1>3
<1>6. WaitingIn(c) = WaitingIn(row) \ {j} /\ ServingIn(c) = ServingIn(row) \ {j} /\ ActiveIn(c) = ActiveIn(row) \ {j}
  BY <1>2, <1>3 DEF WaitingIn, ServingIn, ActiveIn
<1>7. RowsOK(c)
  <2>1. IsFiniteSet(ActiveIn(c))
    <3>1. IsFiniteSet(ActiveIn(row) \ {j})
      BY <1>1, FS_RemoveElement
    <3>2. QED
      BY <1>6, <3>1, Zenon
  <2>2. \A k \in PaidJobs : c[k].status # "none" => c[k].position > 0
    BY <1>1, <1>2, <1>3, <1>5
  <2>3. /\ \A k, l \in ActiveIn(c) : c[k].position = c[l].position => k = l
        /\ \A k, l \in ServingIn(c) : k = l
    BY <1>5, <1>6 DEF RowsOK, ActiveIn, WaitingIn, ServingIn
  <2>4. QED
    BY <1>4, <2>1, <2>2, <2>3 DEF RowsOK
<1>8. \A k \in ServingIn(c), l \in WaitingIn(c) : c[l].position # 1
  <2> SUFFICES ASSUME NEW k \in ServingIn(c), NEW l \in WaitingIn(c) PROVE c[l].position # 1
    OBVIOUS
  <2>1. k \in ServingIn(row) /\ l \in WaitingIn(row) /\ l \in PaidJobs
    BY <1>6 DEF WaitingIn
  <2>2. row[l].position = NewPosition(row, l) /\ ServingIn(row) # {}
    BY <2>1 DEF Compact
  <2>3. row[l].position = 2 + Cardinality(Ahead(row, l)) /\ Cardinality(Ahead(row, l)) \in Nat
    BY <2>1, <2>2, NewPositions, AheadCounts
  <2>4. QED
    BY <1>5, <2>1, <2>3
<1>9. \A k \in WaitingIn(c) : NewPosition(c, k) <= c[k].position
  <2> SUFFICES ASSUME NEW k \in WaitingIn(c) PROVE NewPosition(c, k) <= c[k].position
    OBVIOUS
  <2>1. k \in WaitingIn(row) /\ k \in PaidJobs
    BY <1>6 DEF WaitingIn
  <2>2. Ahead(c, k) \in SUBSET Ahead(row, k)
    BY <1>5, <1>6, <2>1 DEF Ahead, WaitingIn
  <2>3. /\ IsFiniteSet(Ahead(row, k)) /\ Cardinality(Ahead(row, k)) \in Nat
        /\ Cardinality(Ahead(c, k)) \in Nat
    BY <1>7, <2>1, AheadCounts
  <2>4. Cardinality(Ahead(c, k)) <= Cardinality(Ahead(row, k))
    BY <2>2, <2>3, FS_Subset
  <2>5. row[k].position = NewPosition(row, k)
    BY <2>1 DEF Compact
  <2>6. CASE ServingIn(row) # {}
    <3>1. row[k].position = 2 + Cardinality(Ahead(row, k))
      BY <2>1, <2>5, <2>6, NewPositions
    <3>2. NewPosition(c, k) \in {1 + Cardinality(Ahead(c, k)), 2 + Cardinality(Ahead(c, k))}
      BY <1>7, NewPositions
    <3>3. QED
      BY <1>5, <2>1, <2>3, <2>4, <3>1, <3>2
  <2>7. CASE ServingIn(row) = {}
    <3>1. row[k].position = 1 + Cardinality(Ahead(row, k))
      BY <2>1, <2>5, <2>7, NewPositions
    <3>2. NewPosition(c, k) = 1 + Cardinality(Ahead(c, k))
      BY <1>6, <1>7, <2>7, NewPositions
    <3>3. QED
      BY <1>5, <2>1, <2>3, <2>4, <3>1, <3>2
  <2>8. QED
    BY <2>6, <2>7
<1>10. IndexesHold(c)
  BY <1>7, <1>8, <1>9, Forwards
<1>11. QED
  BY <1>2, <1>3, <1>5, <1>6, <1>7, <1>10

\* Admitting a row: it goes behind everybody.
LEMMA AdmittedRow ==
    ASSUME RowsOK(row), Compact(row), NEW j \in PaidJobs, row[j].status = "none",
           NEW c, c = [row EXCEPT ![j] = [status |-> "WAITING", position |-> NextPosition, wait |-> 0]]
    PROVE  /\ RowsOK(c) /\ IndexesHold(c) /\ NextPosition \in Nat
           /\ c[j].status = "WAITING" /\ c[j].position = NextPosition /\ \A k \in PaidJobs \ {j} : c[k] = row[k]
           /\ WaitingIn(c) = WaitingIn(row) \cup {j} /\ ServingIn(c) = ServingIn(row)
           /\ \A k \in ActiveIn(row) : row[k].position < NextPosition
<1>1. /\ row \in [PaidJobs -> RowType] /\ IsFiniteSet(ActiveIn(row))
      /\ \A k \in PaidJobs : row[k].status # "none" => row[k].position > 0
  BY DEF RowsOK
<1>2. NextPosition \in Nat /\ NextPosition = Cardinality(ActiveIn(row)) + 1 /\ NextPosition >= 1
  BY ActiveCounts DEF NextPosition
<1>3. c[j].status = "WAITING" /\ c[j].position = NextPosition /\ c[j] \in RowType
  BY <1>1, <1>2 DEF RowType
<1>4. \A k \in PaidJobs \ {j} : c[k] = row[k]
  BY <1>1
<1>5. c \in [PaidJobs -> RowType]
  <2>1. c = [k \in PaidJobs |-> c[k]]
    BY <1>1
  <2>2. \A k \in PaidJobs : c[k] \in RowType
    BY <1>1, <1>3, <1>4
  <2>3. QED
    BY <2>1, <2>2
<1>6. /\ WaitingIn(c) = WaitingIn(row) \cup {j} /\ ServingIn(c) = ServingIn(row) /\ ActiveIn(c) = ActiveIn(row) \cup {j}
      /\ j \notin ActiveIn(row)
  BY <1>3, <1>4 DEF WaitingIn, ServingIn, ActiveIn
<1>7. \A k \in ActiveIn(row) : row[k].position \in Nat /\ row[k].position < NextPosition /\ c[k] = row[k]
  <2>1. \A k \in ActiveIn(row) : k \in PaidJobs \ {j} /\ row[k].position \in 1 .. Cardinality(ActiveIn(row))
    BY <1>6, Contiguous DEF ActiveIn, WaitingIn, ServingIn
  <2>2. QED
    BY <1>2, <1>4, <2>1, ActiveCounts
<1>8. RowsOK(c)
  <2>1. IsFiniteSet(ActiveIn(c))
    <3>1. IsFiniteSet(ActiveIn(row) \cup {j})
      BY <1>1, FS_AddElement
    <3>2. QED
      BY <1>6, <3>1, Zenon
  <2>2. \A k \in PaidJobs : c[k].status # "none" => c[k].position > 0
    BY <1>1, <1>2, <1>3, <1>4
  <2>3. \A k, l \in ActiveIn(c) : c[k].position = c[l].position => k = l
    <3>1. \A k, l \in ActiveIn(row) : row[k].position = row[l].position => k = l
      BY DEF RowsOK
    <3>2. \A k, l \in ActiveIn(row) : c[k].position = c[l].position => k = l
      BY <1>7, <3>1, Zenon
    <3>3. \A k \in ActiveIn(row) : c[k].position # c[j].position
      <4> SUFFICES ASSUME NEW k \in ActiveIn(row) PROVE c[k].position # c[j].position
        OBVIOUS
      <4>1. c[k].position \in Nat /\ c[k].position < NextPosition
        BY <1>7
      <4>2. QED
        BY <1>2, <1>3, <4>1
    <3>4. QED
      BY <1>6, <3>2, <3>3, Zenon
  <2>4. \A k, l \in ServingIn(c) : k = l
    BY <1>6 DEF RowsOK
  <2>5. QED
    BY <1>5, <2>1, <2>2, <2>3, <2>4 DEF RowsOK
<1>9. /\ \A k \in WaitingIn(row) : Ahead(c, k) = Ahead(row, k)
      /\ Ahead(c, j) = WaitingIn(row)
  <2>1. \A k \in WaitingIn(row) : /\ c[k].position = row[k].position /\ row[k].position < c[j].position
                                  /\ ~(c[j].position < row[k].position)
    <3> SUFFICES ASSUME NEW k \in WaitingIn(row)
                 PROVE  /\ c[k].position = row[k].position /\ row[k].position < c[j].position
                        /\ ~(c[j].position < row[k].position)
      OBVIOUS
    <3>1. k \in ActiveIn(row)
      BY DEF ActiveIn
    <3>2. row[k].position \in Nat /\ row[k].position < NextPosition /\ c[k] = row[k]
      BY <1>7, <3>1
    <3>3. QED
      BY <1>2, <1>3, <3>2
  <2>2. ~(c[j].position < c[j].position)
    BY <1>2, <1>3
  <2>3. QED
    BY <1>6, <2>1, <2>2 DEF Ahead
<1>10. ASSUME NEW k \in WaitingIn(c) PROVE NewPosition(c, k) <= c[k].position
  <2>1. CASE k \in WaitingIn(row)
    <3>1. NewPosition(c, k) = NewPosition(row, k)
      BY <1>6, <1>9, <2>1, Zenon DEF NewPosition
    <3>2. row[k].position = NewPosition(row, k)
      BY <2>1 DEF Compact
    <3>3. k \in ActiveIn(row)
      BY <2>1 DEF ActiveIn
    <3>4. QED
      BY <1>7, <3>1, <3>2, <3>3
  <2>2. CASE k = j
    <3>1. NewPosition(c, j) = (IF ServingIn(row) # {} THEN 2 ELSE 1) + Cardinality(WaitingIn(row))
      BY <1>6, <1>9, Zenon DEF NewPosition
    <3>2. Cardinality(ServingIn(row)) = IF ServingIn(row) = {} THEN 0 ELSE 1
      BY ActiveCounts
    <3>3. Cardinality(WaitingIn(row)) \in Nat
      BY ActiveCounts
    <3>4. NewPosition(c, j) = NextPosition
      BY <3>1, <3>2, <3>3 DEF NextPosition
    <3>5. QED
      BY <1>2, <1>3, <2>2, <3>4
  <2>3. QED
    BY <1>6, <2>1, <2>2
<1>11. ASSUME NEW k \in ServingIn(c), NEW l \in WaitingIn(c) PROVE c[l].position # 1
  <2>1. k \in ServingIn(row) /\ k \in ActiveIn(row) /\ row[k].position = 1
    BY <1>6 DEF ActiveIn, Compact
  <2>2. CASE l = j
    BY <1>2, <1>3, <1>7, <2>1, <2>2
  <2>3. CASE l \in WaitingIn(row)
    <3>1. l \in ActiveIn(row) /\ l # k
      BY <2>1, <2>3 DEF ActiveIn, WaitingIn, ServingIn
    <3>2. row[l].position # row[k].position
      BY <2>1, <3>1 DEF RowsOK
    <3>3. QED
      BY <1>7, <2>1, <3>1, <3>2
  <2>4. QED
    BY <1>6, <2>2, <2>3
<1>12. IndexesHold(c)
  BY <1>8, <1>10, <1>11, Forwards
<1>13. QED
  BY <1>2, <1>3, <1>4, <1>6, <1>7, <1>8, <1>12

\* Starting the first waiting job: it keeps its position, and so do the others.
LEMMA StartedRow ==
    ASSUME RowsOK(row), Compact(row), NEW j \in WaitingIn(row), Ahead(row, j) = {}, ServingIn(row) = {},
           NEW c, c = [row EXCEPT ![j] = [status |-> "SERVING", position |-> 1, wait |-> 0]]
    PROVE  /\ RowsOK(c) /\ IndexesHold(c)
           /\ c[j].status = "SERVING" /\ \A k \in PaidJobs \ {j} : c[k] = row[k]
           /\ WaitingIn(c) = WaitingIn(row) \ {j} /\ ServingIn(c) = {j}
           /\ row[j].position = 1 /\ \A k \in PaidJobs : c[k].position = row[k].position
<1>1. /\ row \in [PaidJobs -> RowType] /\ IsFiniteSet(ActiveIn(row))
      /\ \A k \in PaidJobs : row[k].status # "none" => row[k].position > 0
  BY DEF RowsOK
<1>2. j \in PaidJobs /\ j \in ActiveIn(row) /\ row[j].position = 1
  <2>1. row[j].position = NewPosition(row, j)
    BY DEF Compact
  <2>2. NewPosition(row, j) = 1 + Cardinality(Ahead(row, j))
    BY NewPositions
  <2>3. Cardinality(Ahead(row, j)) = 0
    BY FS_EmptySet
  <2>4. QED
    BY <2>1, <2>2, <2>3 DEF WaitingIn, ActiveIn
<1>3. c[j].status = "SERVING" /\ c[j].position = 1 /\ c[j] \in RowType
  BY <1>1, <1>2 DEF RowType
<1>4. \A k \in PaidJobs \ {j} : c[k] = row[k]
  BY <1>1
<1>5. c \in [PaidJobs -> RowType]
  <2>1. c = [k \in PaidJobs |-> c[k]]
    BY <1>1
  <2>2. \A k \in PaidJobs : c[k] \in RowType
    BY <1>1, <1>3, <1>4
  <2>3. QED
    BY <2>1, <2>2
<1>6. \A k \in PaidJobs : c[k].position = row[k].position
  BY <1>2, <1>3, <1>4
<1>7. WaitingIn(c) = WaitingIn(row) \ {j} /\ ServingIn(c) = {j} /\ ActiveIn(c) = ActiveIn(row)
  BY <1>2, <1>3, <1>4 DEF WaitingIn, ServingIn, ActiveIn
<1>8. RowsOK(c)
  <2>1. \A k \in PaidJobs : c[k].status # "none" => c[k].position > 0
    BY <1>1, <1>2, <1>3, <1>4, <1>6
  <2>2. \A k, l \in ActiveIn(c) : c[k].position = c[l].position => k = l
    <3>1. \A k, l \in ActiveIn(row) : row[k].position = row[l].position => k = l
      BY DEF RowsOK
    <3>2. ActiveIn(row) \subseteq PaidJobs
      BY DEF ActiveIn, WaitingIn, ServingIn
    <3>3. QED
      BY <1>6, <1>7, <3>1, <3>2
  <2>3. \A k, l \in ServingIn(c) : k = l
    BY <1>7
  <2>4. IsFiniteSet(ActiveIn(c))
    BY <1>1, <1>7
  <2>5. QED
    BY <1>5, <2>1, <2>2, <2>3, <2>4 DEF RowsOK
<1>9. ASSUME NEW k \in WaitingIn(c)
      PROVE  NewPosition(c, k) = c[k].position /\ c[k].position # 1
  <2>1. k \in WaitingIn(row) /\ k # j /\ k \in ActiveIn(row) /\ k \in PaidJobs
    BY <1>7 DEF WaitingIn, ActiveIn
  <2>2. row[k].position # 1 /\ row[k].position \in Nat /\ row[k].position > 0
    BY <1>1, <1>2, <2>1 DEF RowsOK, RowType, WaitingIn
  <2>3. j \in Ahead(row, k)
    BY <1>2, <2>2 DEF Ahead
  <2>4. Ahead(c, k) = Ahead(row, k) \ {j}
    BY <1>6, <1>7, <2>1 DEF Ahead, WaitingIn
  <2>5. IsFiniteSet(Ahead(row, k)) /\ Cardinality(Ahead(row, k)) \in Nat
    BY <2>1, AheadCounts
  <2>6. Cardinality(Ahead(row, k) \ {j}) = Cardinality(Ahead(row, k)) - 1
    BY <2>3, <2>5, FS_RemoveElement
  <2>7. NewPosition(c, k) = 2 + Cardinality(Ahead(c, k))
    BY <1>7, <1>8, NewPositions
  <2>8. row[k].position = 1 + Cardinality(Ahead(row, k))
    BY <2>1, NewPositions DEF Compact
  <2>9. Cardinality(Ahead(c, k)) = Cardinality(Ahead(row, k)) - 1
    BY <2>4, <2>6, Zenon
  <2>10. QED
    BY <1>6, <2>1, <2>2, <2>5, <2>7, <2>8, <2>9
<1>10. IndexesHold(c)
  <2>1. \A k \in ServingIn(c), l \in WaitingIn(c) : c[l].position # 1
    BY <1>9
  <2>2. \A k \in WaitingIn(c) : NewPosition(c, k) <= c[k].position
    <3> SUFFICES ASSUME NEW k \in WaitingIn(c) PROVE NewPosition(c, k) <= c[k].position
      OBVIOUS
    <3>1. NewPosition(c, k) \in Nat
      BY <1>8, NewPositions
    <3>2. c[k].position = NewPosition(c, k)
      BY <1>9
    <3>3. QED
      BY <3>1, <3>2
  <2>3. QED
    BY <1>8, <2>1, <2>2, Forwards
<1>11. QED
  BY <1>2, <1>3, <1>4, <1>6, <1>7, <1>8, <1>10

\* Rows that are compact already collide with nothing.
LEMMA CompactHolds ==
    ASSUME RowsOK(row), Compact(row)
    PROVE  IndexesHold(row)
<1>1. ASSUME NEW j \in ServingIn(row), NEW k \in WaitingIn(row) PROVE row[k].position # 1
  <2>1. row[k].position = 2 + Cardinality(Ahead(row, k)) /\ Cardinality(Ahead(row, k)) \in Nat
    BY NewPositions, AheadCounts DEF Compact
  <2>2. QED
    BY <2>1
<1>2. ASSUME NEW k \in WaitingIn(row) PROVE NewPosition(row, k) <= row[k].position
  <2>1. NewPosition(row, k) \in Nat /\ row[k].position = NewPosition(row, k)
    BY NewPositions DEF Compact
  <2>2. QED
    BY <2>1
<1>3. QED
  BY <1>1, <1>2, Forwards

\* The unique indexes never stand in the way of a transaction.
LEMMA Collides == RowsOK(row) /\ Compact(row) /\ MirrorInv => NeverCollides
<1> SUFFICES ASSUME RowsOK(row), Compact(row), MirrorInv PROVE NeverCollides
  OBVIOUS
<1>1. {row[j].position : j \in ActiveIn(row)} = 1 .. Cardinality(ActiveIn(row))
  BY Contiguous
<1>2. \A j \in ServingIn(row) : row[j].position = 1
  BY DEF Compact
<1>3. \A j \in ActiveIn(row) : mirror[j] = row[j].position
  BY DEF MirrorInv
<1>4. ASSUME NEW j \in ActiveIn(row), NEW s \in {"DONE", "CANCELLED"} PROVE IndexesHold(Closed(j, s))
  <2>1. j \in PaidJobs /\ row[j].status # "none"
    BY DEF ActiveIn, WaitingIn, ServingIn
  <2>2. QED
    BY <2>1, ClosingRow
<1>5. ASSUME NEW j \in PaidJobs, row[j].status = "none"
      PROVE  IndexesHold([row EXCEPT ![j] = [status |-> "WAITING", position |-> NextPosition, wait |-> 0]])
  BY <1>5, AdmittedRow
<1>6. ASSUME NEW j \in WaitingIn(row), Turn(j)
      PROVE  IndexesHold([row EXCEPT ![j] = [status |-> "SERVING", position |-> 1, wait |-> 0]])
  <2>1. Ahead(row, j) = {} /\ ServingIn(row) = {}
    BY <1>6 DEF Turn, WaitingIn
  <2>2. QED
    BY <2>1, StartedRow
<1>7. QED
  BY <1>1, <1>2, <1>3, <1>4, <1>5, <1>6 DEF NeverCollides

-----------------------------------------------------------------------------
(* The transactions                                                         *)

\* What a transaction on the queue leaves behind, wherever the rows it wrote
\* came from.
LEMMA Reindexes ==
    ASSUME NEW rows, RowsOK(rows), NEW jobs, NEW positions \in [PaidJobs -> Nat], Reindex(rows, jobs, positions),
           \A j \in ServingIn(rows) : positions[j] = 1
    PROVE  /\ RowsOK(row)' /\ Compact(row)' /\ MirrorInv' /\ job' = jobs
           /\ \A j \in PaidJobs : row'[j].status = rows[j].status
           /\ WaitingIn(row') = WaitingIn(rows) /\ ServingIn(row') = ServingIn(rows)
           /\ \A j \in WaitingIn(rows) :
                 /\ Ahead(row', j) = Ahead(rows, j)
                 /\ row'[j].wait = AtFront(rows, jobs) + Cardinality(Ahead(rows, j))
<1>1. /\ job' = jobs /\ row' = Recalculated(rows, jobs)
      /\ mirror' = [j \in PaidJobs |-> IF j \in WaitingIn(rows) THEN row'[j].position ELSE positions[j]]
  BY DEF Reindex
<1>2. /\ RowsOK(row') /\ Compact(row')
      /\ \A j \in PaidJobs : row'[j].status = rows[j].status
      /\ WaitingIn(row') = WaitingIn(rows) /\ ServingIn(row') = ServingIn(rows)
      /\ \A j \in WaitingIn(rows) :
            /\ Ahead(row', j) = Ahead(rows, j)
            /\ row'[j].wait = AtFront(rows, jobs) + Cardinality(Ahead(rows, j))
  BY <1>1, Recalculates
<1>3. RowsOK(row)' /\ Compact(row)'
  BY <1>2 DEF RowsOK, Compact, ActiveIn, WaitingIn, ServingIn, NewPosition, Ahead
<1>4. MirrorInv'
  <2>1. \A j \in PaidJobs : row'[j].position \in Nat
    BY <1>2 DEF RowsOK, RowType
  <2>2. mirror' \in [PaidJobs -> Nat]
    BY <1>1, <2>1
  <2>3. \A j \in WaitingIn(row') : mirror'[j] = row'[j].position
    BY <1>1, <1>2 DEF WaitingIn
  <2>4. \A j \in ServingIn(row') : mirror'[j] = row'[j].position
    <3> SUFFICES ASSUME NEW j \in ServingIn(row') PROVE mirror'[j] = row'[j].position
      OBVIOUS
    <3>1. j \in ServingIn(rows) /\ j \in PaidJobs /\ j \notin WaitingIn(rows) /\ row'[j].position = 1
      BY <1>2 DEF ServingIn, WaitingIn, Compact
    <3>2. QED
      BY <1>1, <3>1
  <2>5. QED
    BY <2>2, <2>3, <2>4 DEF MirrorInv, ActiveIn, WaitingIn, ServingIn
<1>5. QED
  BY <1>1, <1>2, <1>3, <1>4

\* A transaction on the queue keeps the order of the rows that wait.
LEMMA OrderKept ==
    ASSUME NEW rows, RowsOK(rows), NEW jobs, NEW positions, Reindex(rows, jobs, positions),
           NEW j \in WaitingIn(rows), NEW k \in WaitingIn(rows), rows[j].position < rows[k].position
    PROVE  row'[j].position < row'[k].position
<1>1. row' = Recalculated(rows, jobs)
  BY DEF Reindex
<1>2. Ahead(row', k) = Ahead(rows, k)
  BY <1>1, Recalculates
<1>3. j \in Ahead(row', k)
  BY <1>2 DEF Ahead
<1>4. QED
  BY <1>3 DEF Ahead

\* Job x goes on in jobs, and the others stay as they are.
Moves(x, jobs) ==
    /\ jobs \in [Jobs -> JobType]
    /\ \A k \in Jobs \ {x} : jobs[k] = job[k]
    /\ JobOK(jobs[x])

\* The bookings agree with the queue after one of them went on.
LEMMA JobMoves ==
    ASSUME JobsInv, NEW x \in Jobs, NEW jobs, Moves(x, jobs), job' = jobs,
           Working(jobs[x]) => \A k \in Jobs \ {x} : ~Working(job[k]),
           \A k \in PaidJobs \ {x} : row'[k].status = row[k].status,
           x \in PaidJobs => Follows(row'[x], jobs[x])
    PROVE  JobsInv'
<1>1. job' \in [Jobs -> JobType] /\ \A k \in Jobs \ {x} : job'[k] = job[k]
  BY DEF Moves
<1>2. \A k \in Jobs : JobOK(job'[k])
  <2>1. JobOK(job'[x]) /\ \A k \in Jobs : JobOK(job[k])
    BY DEF Moves, JobsInv
  <2>2. QED
    BY <1>1, <2>1, Zenon
<1>3. \A j, k \in Jobs : Working(job'[j]) /\ Working(job'[k]) => j = k
  <2>1. \A j, k \in Jobs : Working(job[j]) /\ Working(job[k]) => j = k
    BY DEF JobsInv
  <2>2. QED
    BY <1>1, <2>1, Zenon
<1>4. \A j \in PaidJobs : Follows(row'[j], job'[j])
  <2> SUFFICES ASSUME NEW j \in PaidJobs, j # x PROVE Follows(row'[j], job'[j])
    BY Zenon
  <2>1. row'[j].status = row[j].status /\ job'[j] = job[j] /\ Follows(row[j], job[j])
    BY <1>1 DEF JobsInv, Jobs
  <2>2. QED
    BY <2>1 DEF Follows
<1>5. QED
  BY <1>1, <1>2, <1>3, <1>4 DEF JobsInv

\* The job being started waits undisturbed while another one goes on.
LEMMA StartKept ==
    ASSUME StartInv, NEW x \in Jobs, NEW jobs, Moves(x, jobs), job' = jobs, starting' = starting, x # starting,
           Working(jobs[x]) => Working(job[x]),
           \A k \in PaidJobs \ {x} : row'[k].status = row[k].status
    PROVE  StartInv'
<1> SUFFICES ASSUME starting \in Jobs PROVE StartInv'
  BY DEF StartInv
<1>1. Ready(starting) /\ \A k \in Jobs : ~Working(job[k])
  BY DEF StartInv
<1>2. job'[starting] = job[starting] /\ (starting \in PaidJobs => row'[starting].status = row[starting].status)
  BY DEF Moves
<1>3. Ready(starting)'
  BY <1>1, <1>2 DEF Ready
<1>4. \A k \in Jobs : ~Working(job'[k])
  BY <1>1, Zenon DEF Moves
<1>5. QED
  BY <1>3, <1>4 DEF StartInv

\* Work in progress is found by the recalculation: the paid job has a row, the
\* cash job was started.
LEMMA WorkIsSeen ==
    ASSUME NEW rows, NEW jobs, NEW k \in Jobs, Working(jobs[k]), JobOK(jobs[k]),
           k \in PaidJobs => Follows(rows[k], jobs[k])
    PROVE  AtFront(rows, jobs) = 1
<1>1. CASE k \in PaidJobs
  <2>1. rows[k].status = "SERVING"
    BY <1>1 DEF Follows
  <2>2. k \in ServingIn(rows)
    BY <1>1, <2>1 DEF ServingIn
  <2>3. QED
    BY <2>2 DEF AtFront
<1>2. CASE k \in CashJobs
  <2>1. jobs[k].started /\ jobs[k].status \in {"ONGOING"} \cup Paused
    BY DEF JobOK, Working
  <2>2. CashInProgress(jobs)
    BY <1>2, <2>1 DEF CashInProgress
  <2>3. QED
    BY <2>2 DEF AtFront
<1>3. QED
  BY <1>1, <1>2 DEF Jobs

\* After a recalculation no estimate is too low.
LEMMA WaitsCounted ==
    ASSUME NEW rows, RowsOK(rows), NEW jobs, JobsInv', job' = jobs,
           \A j \in PaidJobs : row'[j].status = rows[j].status, WaitingIn(row') = WaitingIn(rows),
           \A j \in WaitingIn(rows) : /\ Ahead(row', j) = Ahead(rows, j)
                                      /\ row'[j].wait = AtFront(rows, jobs) + Cardinality(Ahead(rows, j))
    PROVE  WaitInv'
<1> SUFFICES ASSUME NEW j \in WaitingIn(row')
             PROVE  row'[j].wait >= Cardinality(Ahead(row', j)) + (IF \E k \in Jobs : Working(job'[k]) THEN 1 ELSE 0)
  BY DEF WaitInv, WaitingIn, Ahead
<1>1. /\ Ahead(row', j) = Ahead(rows, j) /\ row'[j].wait = AtFront(rows, jobs) + Cardinality(Ahead(rows, j))
      /\ j \in WaitingIn(rows)
  OBVIOUS
<1>2. Cardinality(Ahead(rows, j)) \in Nat
  BY <1>1, AheadCounts
<1>3. AtFront(rows, jobs) \in {0, 1}
  BY DEF AtFront
<1>4. (\E k \in Jobs : Working(job'[k])) => AtFront(rows, jobs) = 1
  <2> SUFFICES ASSUME NEW k \in Jobs, Working(job'[k]) PROVE AtFront(rows, jobs) = 1
    BY Zenon
  <2>1. JobOK(jobs[k]) /\ Working(jobs[k])
    BY DEF JobsInv
  <2>2. k \in PaidJobs => Follows(rows[k], jobs[k])
    <3>1. k \in PaidJobs => Follows(row'[k], jobs[k]) /\ row'[k].status = rows[k].status
      BY DEF JobsInv
    <3>2. QED
      BY <3>1 DEF Follows
  <2>3. QED
    BY <2>1, <2>2, WorkIsSeen
<1>5. QED
  BY <1>1, <1>2, <1>3, <1>4

\* A job goes on in a transaction on the queue.
LEMMA QueueStep ==
    ASSUME IInv, NEW x \in Jobs, NEW jobs, Moves(x, jobs), x # starting, starting' = starting,
           NEW rows, RowsOK(rows), NEW positions \in [PaidJobs -> Nat], Reindex(rows, jobs, positions),
           \A j \in ServingIn(rows) : positions[j] = 1,
           \A k \in PaidJobs \ {x} : rows[k].status = row[k].status,
           x \in PaidJobs => Follows(rows[x], jobs[x]),
           Working(jobs[x]) => Working(job[x])
    PROVE  IInv'
<1>1. /\ RowsOK(row)' /\ Compact(row)' /\ MirrorInv' /\ job' = jobs
      /\ \A j \in PaidJobs : row'[j].status = rows[j].status
      /\ WaitingIn(row') = WaitingIn(rows)
      /\ \A j \in WaitingIn(rows) :
            /\ Ahead(row', j) = Ahead(rows, j)
            /\ row'[j].wait = AtFront(rows, jobs) + Cardinality(Ahead(rows, j))
  BY Reindexes
<1>2. /\ \A k \in PaidJobs \ {x} : row'[k].status = row[k].status
      /\ x \in PaidJobs => Follows(row'[x], jobs[x])
  BY <1>1 DEF Follows
<1>3. JobsInv /\ StartInv
  BY DEF IInv
<1>4. Working(jobs[x]) => \A k \in Jobs \ {x} : ~Working(job[k])
  BY <1>3 DEF JobsInv
<1>5. JobsInv'
  BY <1>1, <1>2, <1>3, <1>4, JobMoves
<1>6. StartInv'
  BY <1>1, <1>2, <1>3, StartKept
<1>7. WaitInv'
  BY <1>1, <1>5, WaitsCounted
<1>8. QED
  BY <1>1, <1>5, <1>6, <1>7 DEF IInv

\* A job goes on without touching the queue.
LEMMA PlainStep ==
    ASSUME IInv, NEW x \in Jobs, NEW jobs, Moves(x, jobs), job' = jobs, x # starting,
           UNCHANGED <<queueVars, starting>>,
           x \in PaidJobs => Follows(row[x], jobs[x]),
           Working(jobs[x]) => Working(job[x])
    PROVE  IInv'
<1>1. row' = row /\ mirror' = mirror /\ starting' = starting
  BY DEF queueVars
<1>2. JobsInv /\ StartInv /\ RowsOK(row) /\ Compact(row) /\ MirrorInv /\ WaitInv
  BY DEF IInv
<1>3. RowsOK(row)' /\ Compact(row)' /\ MirrorInv'
  BY <1>1, <1>2 DEF RowsOK, Compact, MirrorInv, ActiveIn, WaitingIn, ServingIn, NewPosition, Ahead
<1>4. Working(jobs[x]) => \A k \in Jobs \ {x} : ~Working(job[k])
  BY <1>2 DEF JobsInv
<1>5. JobsInv'
  BY <1>1, <1>2, <1>4, JobMoves
<1>6. StartInv'
  BY <1>1, <1>2, StartKept
<1>7. (\E k \in Jobs : Working(job'[k])) => \E k \in Jobs : Working(job[k])
  BY Zenon DEF Moves
<1>8. WaitInv'
  <2> SUFFICES ASSUME NEW j \in WaitingIn(row)
               PROVE  row[j].wait >= Cardinality(Ahead(row, j)) + (IF \E k \in Jobs : Working(job'[k]) THEN 1 ELSE 0)
    BY <1>1 DEF WaitInv, WaitingIn, Ahead
  <2>1. row[j].wait >= Cardinality(Ahead(row, j)) + (IF \E k \in Jobs : Working(job[k]) THEN 1 ELSE 0)
    BY <1>2 DEF WaitInv
  <2>2. row[j].wait \in Nat /\ Cardinality(Ahead(row, j)) \in Nat
    BY <1>2, AheadCounts DEF RowsOK, RowType, WaitingIn
  <2>3. QED
    BY <1>7, <2>1, <2>2
<1>9. QED
  BY <1>3, <1>5, <1>6, <1>8 DEF IInv

\* Nothing the invariant speaks of changes.
LEMMA StutterStep ==
    ASSUME IInv, UNCHANGED <<job, queueVars, starting>>
    PROVE  IInv'
<1>1. job' = job /\ row' = row /\ mirror' = mirror /\ starting' = starting
  BY DEF queueVars
<1>2. QED
  BY <1>1 DEF IInv, RowsOK, Compact, MirrorInv, JobsInv, StartInv, WaitInv, ActiveIn, WaitingIn, ServingIn,
              NewPosition, Ahead, Ready

-----------------------------------------------------------------------------
(* The actions                                                              *)

\* A new booking with its seeker and source.
LEMMA NewJobs ==
    ASSUME JobsInv, NEW x \in Jobs, job[x].status = "none", NEW s \in Seekers, NEW source \in Sources,
           NEW status \in {"ACCEPTED", "PENDING_APPROVAL"},
           NEW jobs, jobs = [job EXCEPT ![x] = NewJob(s, source, status)]
    PROVE  /\ Moves(x, jobs) /\ ~Working(jobs[x])
           /\ jobs[x].status = status /\ jobs[x].before = "none"
<1>1. job \in [Jobs -> JobType]
  BY DEF JobsInv
<1>2. NewJob(s, source, status) \in JobType
  BY DEF NewJob, JobType, Statuses, Live
<1>3. jobs \in [Jobs -> JobType] /\ jobs[x] = NewJob(s, source, status) /\ \A k \in Jobs \ {x} : jobs[k] = job[k]
  BY <1>1, <1>2
<1>4. ~Working(jobs[x]) /\ JobOK(jobs[x]) /\ jobs[x].status = status /\ jobs[x].before = "none"
  BY <1>3 DEF NewJob, Working, JobOK, Paused
<1>5. QED
  BY <1>3, <1>4 DEF Moves

With(x, status, before) == [job EXCEPT ![x].status = status, ![x].before = before]
WithStatus(x, status)   == [job EXCEPT ![x].status = status]

\* A booking whose status changes, with what it remembers.
LEMMA ChangedJobs ==
    ASSUME JobsInv, NEW x \in Jobs, NEW status \in Statuses, NEW before \in Statuses,
           NEW jobs, jobs = With(x, status, before)
    PROVE  /\ jobs \in [Jobs -> JobType] /\ \A k \in Jobs \ {x} : jobs[k] = job[k]
           /\ jobs[x].status = status /\ jobs[x].before = before /\ jobs[x].started = job[x].started
<1>1. job \in [Jobs -> JobType]
  BY DEF JobsInv
<1>2. \A k \in Jobs \ {x} : jobs[k] = job[k]
  BY <1>1 DEF With
<1>3. job[x] \in JobType
  BY <1>1
<1>4. /\ jobs[x] \in JobType /\ jobs[x].status = status /\ jobs[x].before = before
      /\ jobs[x].started = job[x].started
  BY <1>1, <1>3 DEF JobType, With
<1>5. jobs \in [Jobs -> JobType]
  <2>1. jobs = [k \in Jobs |-> jobs[k]]
    BY <1>1 DEF With
  <2>2. \A k \in Jobs : jobs[k] \in JobType
    BY <1>1, <1>2, <1>4
  <2>3. QED
    BY <2>1, <2>2
<1>6. QED
  BY <1>2, <1>4, <1>5

\* The same without touching what it remembers.
LEMMA ChangedStatus ==
    ASSUME JobsInv, NEW x \in Jobs, NEW status \in Statuses, NEW jobs, jobs = WithStatus(x, status)
    PROVE  /\ jobs \in [Jobs -> JobType] /\ \A k \in Jobs \ {x} : jobs[k] = job[k]
           /\ jobs[x].status = status /\ jobs[x].before = job[x].before /\ jobs[x].started = job[x].started
<1>1. job \in [Jobs -> JobType]
  BY DEF JobsInv
<1>2. \A k \in Jobs \ {x} : jobs[k] = job[k]
  BY <1>1 DEF WithStatus
<1>3. /\ jobs[x] \in JobType /\ jobs[x].status = status /\ jobs[x].before = job[x].before
      /\ jobs[x].started = job[x].started
  BY <1>1 DEF JobType, WithStatus
<1>4. jobs \in [Jobs -> JobType]
  <2>1. jobs = [k \in Jobs |-> jobs[k]]
    BY <1>1 DEF WithStatus
  <2>2. \A k \in Jobs : jobs[k] \in JobType
    BY <1>1, <1>2, <1>3
  <2>3. QED
    BY <2>1, <2>2
<1>5. QED
  BY <1>2, <1>3, <1>4

\* Only an agreed job is being started.
LEMMA NotStarting ==
    ASSUME IInv, NEW x \in Jobs, job[x].status # "ACCEPTED"
    PROVE  x # starting
BY DEF IInv, StartInv, Ready

\* A paid booking is admitted.
LEMMA AdmitStep ==
    ASSUME IInv, NEW j \in PaidJobs, NEW s \in Seekers, NEW source \in Sources, Admit(j, s, source)
    PROVE  IInv'
<1> DEFINE rows == [row EXCEPT ![j] = [status |-> "WAITING", position |-> NextPosition, wait |-> 0]]
           jobs == [job EXCEPT ![j] = NewJob(s, source, "ACCEPTED")]
           positions == [mirror EXCEPT ![j] = NextPosition]
<1>1. /\ job[j].status = "none" /\ Reindex(rows, jobs, positions) /\ starting' = starting
      /\ j \in Jobs
  BY DEF Admit, requestVars, Jobs
<1>2. /\ RowsOK(row) /\ Compact(row) /\ JobsInv /\ mirror \in [PaidJobs -> Nat]
      /\ \A k \in ServingIn(row) : mirror[k] = 1
  BY DEF IInv, MirrorInv, Compact, ActiveIn
<1>3. row[j].status = "none"
  BY <1>1, <1>2 DEF JobsInv, Follows
<1>4. /\ RowsOK(rows) /\ NextPosition \in Nat /\ rows[j].status = "WAITING"
      /\ \A k \in PaidJobs \ {j} : rows[k] = row[k]
      /\ ServingIn(rows) = ServingIn(row)
  BY <1>2, <1>3, AdmittedRow
<1>5. Moves(j, jobs) /\ ~Working(jobs[j]) /\ jobs[j].status = "ACCEPTED"
  BY <1>1, <1>2, NewJobs
<1>6. positions \in [PaidJobs -> Nat] /\ \A k \in ServingIn(rows) : positions[k] = 1
  <2>1. j \notin ServingIn(row)
    BY <1>3 DEF ServingIn
  <2>2. QED
    BY <1>2, <1>4, <2>1
<1>7. Follows(rows[j], jobs[j])
  BY <1>4, <1>5 DEF Follows, Agreed
<1>8. j # starting
  BY <1>1, NotStarting
<1> HIDE DEF rows, jobs, positions
<1>9. QED
  BY <1>1, <1>4, <1>5, <1>6, <1>7, <1>8, QueueStep

\* A cash booking is asked for, and answered.
LEMMA CashStep ==
    ASSUME IInv, NEW j \in CashJobs, DirectBooking(j)
    PROVE  IInv'
<1>1. JobsInv /\ j \in Jobs /\ j \notin PaidJobs /\ JobOK(job[j])
  BY JobsAssumption DEF IInv, JobsInv, Jobs
<1>2. CASE \E s \in Seekers, source \in Sources : CreateCash(j, s, source)
  <2>1. PICK s \in Seekers, source \in Sources : CreateCash(j, s, source)
    BY <1>2
  <2>2. /\ job[j].status = "none" /\ UNCHANGED <<queueVars, starting>>
        /\ job' = [job EXCEPT ![j] = NewJob(s, source, IF source = "offer" THEN "ACCEPTED" ELSE "PENDING_APPROVAL")]
    BY <2>1 DEF CreateCash, requestVars
  <2>3. Moves(j, job') /\ ~Working(job'[j])
    BY <1>1, <2>2, NewJobs
  <2>4. j # starting
    BY <1>1, <2>2, NotStarting
  <2>5. QED
    BY <1>1, <2>2, <2>3, <2>4, PlainStep
<1>3. CASE RespondToDirectBooking(j)
  <2>1. /\ job[j].status = "PENDING_APPROVAL" /\ UNCHANGED <<queueVars, starting>>
        /\ \E status \in {"ACCEPTED", "DECLINED"} : job' = [job EXCEPT ![j].status = status]
    BY <1>3 DEF RespondToDirectBooking, AcceptDirectBooking, DeclineDirectBooking, requestVars
  <2>2. PICK status \in {"ACCEPTED", "DECLINED"} : job' = [job EXCEPT ![j].status = status]
    BY <2>1
  <2>3. status \in Statuses
    BY DEF Statuses, Live
  <2>4. /\ job' \in [Jobs -> JobType] /\ \A k \in Jobs \ {j} : job'[k] = job[k]
        /\ job'[j].status = status /\ job'[j].before = job[j].before /\ job'[j].started = job[j].started
    <3>1. job' = WithStatus(j, status)
      BY <2>2 DEF WithStatus
    <3>2. QED
      BY <1>1, <2>3, <3>1, ChangedStatus
  <2>5. JobOK(job'[j]) /\ ~Working(job'[j])
    BY <1>1, <2>1, <2>4 DEF JobOK, Working, Paused
  <2>6. j # starting
    BY <1>1, <2>1, NotStarting
  <2>7. Moves(j, job')
    BY <2>4, <2>5 DEF Moves
  <2>8. QED
    BY <1>1, <2>1, <2>5, <2>6, <2>7, PlainStep
<1>4. QED
  BY <1>2, <1>3 DEF DirectBooking

\* A job is found ready and the provider idle.
LEMMA StartCheckStep ==
    ASSUME IInv, NEW j \in Jobs, StartCheck(j)
    PROVE  IInv'
<1>1. /\ job' = job /\ row' = row /\ mirror' = mirror /\ starting' = j
      /\ Ready(j) /\ ~OtherOngoing(j)
  BY DEF StartCheck, queueVars
<1>2. \A k \in Jobs : ~Working(job[k])
  <2> SUFFICES ASSUME NEW k \in Jobs, Working(job[k]) PROVE FALSE
    OBVIOUS
  <2>1. JobOK(job[k]) /\ (k \in PaidJobs => Follows(row[k], job[k]))
    BY DEF IInv, JobsInv
  <2>2. k # j
    BY <1>1 DEF Ready, Working, Paused
  <2>3. job[k].started /\ job[k].status \in {"ONGOING"} \cup Paused
    BY <2>1 DEF JobOK, Working
  <2>4. k \in PaidJobs => row[k].status = "SERVING"
    BY <2>1 DEF Follows
  <2>5. QED
    BY <1>1, <2>2, <2>3, <2>4 DEF OtherOngoing, Jobs
<1>3. StartInv'
  BY <1>1, <1>2 DEF StartInv, Ready
<1>4. QED
  BY <1>1, <1>3 DEF IInv, RowsOK, Compact, MirrorInv, JobsInv, WaitInv, ActiveIn, WaitingIn, ServingIn,
                    NewPosition, Ahead

\* The rows after job j's row is closed, if it has one.
LEMMA Closing ==
    ASSUME IInv, NEW j \in Jobs, job[j].status # "none", NEW s \in {"DONE", "CANCELLED"},
           NEW rows, rows = Closed(j, s)
    PROVE  /\ RowsOK(rows) /\ \A k \in PaidJobs \ {j} : rows[k] = row[k]
           /\ j \in PaidJobs => rows[j].status = s
           /\ ServingIn(rows) \subseteq ServingIn(row) /\ WaitingIn(rows) \subseteq WaitingIn(row)
           /\ \A k \in PaidJobs : rows[k].position = row[k].position
           /\ mirror \in [PaidJobs -> Nat] /\ \A k \in ServingIn(rows) : mirror[k] = 1
<1>1. RowsOK(row) /\ Compact(row) /\ MirrorInv /\ JobsInv
  BY DEF IInv
<1>2. mirror \in [PaidJobs -> Nat] /\ \A k \in ServingIn(row) : mirror[k] = 1
  BY <1>1 DEF MirrorInv, Compact, ActiveIn
<1>3. CASE j \in PaidJobs
  <2>1. row[j].status # "none"
    BY <1>1, <1>3 DEF JobsInv, Follows
  <2>2. /\ RowsOK(rows) /\ rows[j].status = s /\ \A k \in PaidJobs \ {j} : rows[k] = row[k]
        /\ WaitingIn(rows) = WaitingIn(row) \ {j} /\ ServingIn(rows) = ServingIn(row) \ {j}
        /\ \A k \in PaidJobs : rows[k].position = row[k].position
    BY <1>1, <1>3, <2>1, ClosingRow
  <2>3. QED
    BY <1>2, <2>2
<1>4. CASE j \notin PaidJobs
  <2>1. rows = row
    BY <1>4 DEF Closed
  <2>2. QED
    BY <1>1, <1>2, <1>4, <2>1
<1>5. QED
  BY <1>3, <1>4

\* A job ends one way or another, its row with it.
LEMMA ClosingStep ==
    ASSUME IInv, NEW j \in Jobs, job[j].status # "none", j # starting, starting' = starting,
           NEW s \in {"DONE", "CANCELLED"}, NEW jobs, Moves(j, jobs),
           jobs[j].status \in {"AWAITING_CONFIRMATION", "COMPLETED", "CANCELED"},
           \/ Reindex(Closed(j, s), jobs, mirror)
           \/ j \notin PaidJobs /\ job' = jobs /\ UNCHANGED queueVars
    PROVE  IInv'
<1>1. ~Working(jobs[j]) /\ ~Agreed(jobs[j]) /\ jobs[j].status # "none"
  BY DEF Working, Agreed, Paused
<1>2. CASE Reindex(Closed(j, s), jobs, mirror)
  <2> DEFINE rows == Closed(j, s)
  <2>1. /\ RowsOK(rows) /\ \A k \in PaidJobs \ {j} : rows[k] = row[k]
        /\ j \in PaidJobs => rows[j].status = s
        /\ mirror \in [PaidJobs -> Nat] /\ \A k \in ServingIn(rows) : mirror[k] = 1
    BY Closing
  <2>2. j \in PaidJobs => Follows(rows[j], jobs[j])
    BY <1>1, <2>1 DEF Follows
  <2> HIDE DEF rows
  <2>3. Reindex(rows, jobs, mirror)
    BY <1>2 DEF rows
  <2>4. QED
    BY <1>1, <2>1, <2>2, <2>3, QueueStep
<1>3. CASE j \notin PaidJobs /\ job' = jobs /\ UNCHANGED queueVars
  BY <1>1, <1>3, PlainStep
<1>4. QED
  BY <1>2, <1>3

\* Finished, confirmed, settled or canceled.
LEMMA EndStep ==
    ASSUME IInv, NEW j \in Jobs, MarkJobComplete(j) \/ SettleCompletion(j) \/ CancelJob(j)
    PROVE  IInv'
<1>1. JobsInv /\ JobOK(job[j])
  BY DEF IInv, JobsInv
<1>2. CASE MarkJobComplete(j)
  <2>1. /\ job[j].status = "ONGOING" /\ j # starting /\ starting' = starting
        /\ Reindex(Closed(j, "DONE"), WithStatus(j, "AWAITING_CONFIRMATION"), mirror)
    BY <1>2 DEF MarkJobComplete, WithStatus, requestVars
  <2>2. "AWAITING_CONFIRMATION" \in Statuses
    BY DEF Statuses, Live
  <2>3. PICK jobs : jobs = WithStatus(j, "AWAITING_CONFIRMATION")
    OBVIOUS
  <2>4. /\ jobs \in [Jobs -> JobType] /\ \A k \in Jobs \ {j} : jobs[k] = job[k]
        /\ jobs[j].status = "AWAITING_CONFIRMATION" /\ jobs[j].before = job[j].before
    BY <1>1, <2>2, <2>3, ChangedStatus
  <2>5. Moves(j, jobs)
    BY <1>1, <2>1, <2>4 DEF Moves, JobOK, Working, Paused
  <2>6. QED
    BY <2>1, <2>3, <2>4, <2>5, ClosingStep
<1>3. ASSUME NEW status \in {"COMPLETED", "CANCELED"}, NEW s \in {"DONE", "CANCELLED"}, job[j].status # "none",
             j # starting, starting' = starting, NEW jobs, jobs = With(j, status, "none"),
             \/ Reindex(Closed(j, s), jobs, mirror)
             \/ j \notin PaidJobs /\ job' = jobs /\ UNCHANGED queueVars
      PROVE  IInv'
  <2>1. status \in Statuses /\ "none" \in Statuses
    BY DEF Statuses
  <2>2. /\ jobs \in [Jobs -> JobType] /\ \A k \in Jobs \ {j} : jobs[k] = job[k]
        /\ jobs[j].status = status /\ jobs[j].before = "none"
    BY <1>1, <1>3, <2>1, ChangedJobs
  <2>3. Moves(j, jobs)
    BY <2>2 DEF Moves, JobOK, Working, Paused
  <2>4. QED
    BY <1>3, <2>2, <2>3, ClosingStep
<1>4. CASE SettleCompletion(j)
  <2>1. /\ job[j].status # "none" /\ j # starting /\ starting' = starting
        /\ \/ Reindex(Closed(j, "DONE"), With(j, "COMPLETED", "none"), mirror)
           \/ j \notin PaidJobs /\ job' = With(j, "COMPLETED", "none") /\ UNCHANGED queueVars
    BY <1>4 DEF SettleCompletion, With, requestVars, Paused
  <2>2. QED
    BY <1>3, <2>1
<1>5. CASE CancelJob(j)
  <2>1. /\ job[j].status # "none" /\ j # starting /\ starting' = starting
        /\ \/ Reindex(Closed(j, "CANCELLED"), With(j, "CANCELED", "none"), mirror)
           \/ j \notin PaidJobs /\ job' = With(j, "CANCELED", "none") /\ UNCHANGED queueVars
    BY <1>5 DEF CancelJob, With, requestVars, Live, Paused
  <2>2. QED
    BY <1>3, <2>1
<1>6. QED
  BY <1>2, <1>4, <1>5

\* A case pauses a job, or gives it back as it was.
LEMMA CaseStep ==
    ASSUME IInv, NEW j \in Jobs, PauseForCase(j) \/ RestoreBooking(j)
    PROVE  IInv'
<1>1. JobsInv /\ JobOK(job[j]) /\ (j \in PaidJobs => Follows(row[j], job[j])) /\ job[j] \in JobType
  BY DEF IInv, JobsInv
<1>2. ASSUME NEW status \in Statuses, NEW before \in Statuses, NEW jobs, jobs = With(j, status, before),
             job' = jobs, j # starting, UNCHANGED <<queueVars, starting>>,
             \/ /\ status = "PAUSED" /\ before = job[j].status
                /\ job[j].status \in {"ACCEPTED", "ONGOING", "AWAITING_CONFIRMATION"}
             \/ status = job[j].before /\ before = "none" /\ job[j].status \in Paused
      PROVE  IInv'
  <2>1. /\ jobs \in [Jobs -> JobType] /\ \A k \in Jobs \ {j} : jobs[k] = job[k]
        /\ jobs[j].status = status /\ jobs[j].before = before /\ jobs[j].started = job[j].started
    BY <1>1, <1>2, ChangedJobs
  <2>2. (Working(jobs[j]) <=> Working(job[j])) /\ (Agreed(jobs[j]) <=> Agreed(job[j])) /\ jobs[j].status # "none"
    BY <1>1, <1>2, <2>1 DEF Working, Agreed, JobOK, Paused
  <2>3. JobOK(jobs[j])
    BY <1>1, <1>2, <2>1, <2>2 DEF JobOK, Paused
  <2>4. j \in PaidJobs => Follows(row[j], jobs[j])
    BY <1>1, <1>2, <2>2 DEF Follows, Paused
  <2>5. Moves(j, jobs)
    BY <2>1, <2>3 DEF Moves
  <2>6. QED
    BY <1>2, <2>2, <2>4, <2>5, PlainStep
<1>3. CASE PauseForCase(j)
  <2>1. /\ job' = With(j, "PAUSED", job[j].status) /\ j # starting /\ UNCHANGED <<queueVars, starting>>
        /\ job[j].status \in {"ACCEPTED", "ONGOING", "AWAITING_CONFIRMATION"}
        /\ "PAUSED" \in Statuses /\ job[j].status \in Statuses
    BY <1>1, <1>3 DEF PauseForCase, With, requestVars, Statuses, Live, Paused
  <2>2. QED
    BY <1>2, <2>1
<1>4. CASE RestoreBooking(j)
  <2>1. /\ job' = With(j, job[j].before, "none") /\ j # starting /\ UNCHANGED <<queueVars, starting>>
        /\ job[j].status \in Paused
        /\ "none" \in Statuses /\ job[j].before \in Statuses
    BY <1>1, <1>4 DEF RestoreBooking, With, requestVars, Statuses, JobType
  <2>2. QED
    BY <1>2, <2>1
<1>5. QED
  BY <1>3, <1>4

\* The job is started: the provider is at work on it, and on nothing else.
LEMMA StartCommitStep ==
    ASSUME IInv, StartCommit
    PROVE  IInv'
<1> DEFINE j == starting
<1>1. /\ j \in Jobs /\ Turn(j) /\ job' = Started(j) /\ starting' = "none"
      /\ IF j \in PaidJobs
         THEN Reindex([row EXCEPT ![j] = [status |-> "SERVING", position |-> 1, wait |-> 0]],
                      Started(j), [mirror EXCEPT ![j] = 1])
         ELSE UNCHANGED queueVars
  BY Zenon DEF StartCommit, Reindex
<1>2. RowsOK(row) /\ Compact(row) /\ MirrorInv /\ JobsInv /\ WaitInv /\ job \in [Jobs -> JobType]
  BY DEF IInv, JobsInv
<1>3. Ready(j) /\ \A k \in Jobs : ~Working(job[k])
  BY <1>1 DEF IInv, StartInv
<1>4. StartInv'
  <2>1. "none" \notin Jobs
    BY JobsAssumption DEF Jobs
  <2>2. QED
    BY <1>1, <2>1 DEF StartInv
<1> DEFINE jobs == Started(j)
<1> HIDE DEF j
<1>5. /\ jobs \in [Jobs -> JobType] /\ \A k \in Jobs \ {j} : jobs[k] = job[k]
      /\ jobs[j].status = "ONGOING" /\ jobs[j].before = "none" /\ jobs[j].started
  <2>1. job[j] \in JobType /\ job[j].before = "none"
    BY <1>1, <1>2, <1>3 DEF JobsInv, JobOK, Ready, Paused
  <2>2. /\ jobs[j].status = "ONGOING" /\ jobs[j].before = job[j].before /\ jobs[j].started
        /\ jobs[j] \in JobType /\ \A k \in Jobs \ {j} : jobs[k] = job[k]
    BY <1>1, <1>2, <2>1 DEF JobType, Started, Statuses, Live
  <2>3. jobs = [k \in Jobs |-> jobs[k]]
    BY <1>2 DEF Started
  <2>4. \A k \in Jobs : jobs[k] \in JobType
    BY <1>2, <2>2
  <2>5. QED
    BY <2>1, <2>2, <2>3, <2>4
<1> HIDE DEF jobs
<1>6. Moves(j, jobs) /\ Working(jobs[j]) /\ ~Agreed(jobs[j])
  BY <1>5 DEF Moves, JobOK, Working, Agreed, Paused
<1>7. job' = jobs
  BY <1>1 DEF jobs
<1>8. CASE j \in PaidJobs
  <2> DEFINE rows == [row EXCEPT ![j] = [status |-> "SERVING", position |-> 1, wait |-> 0]]
             positions == [mirror EXCEPT ![j] = 1]
  <2>1. j \in WaitingIn(row) /\ Ahead(row, j) = {} /\ ServingIn(row) = {}
    BY <1>1, <1>3, <1>8 DEF Ready, Turn, WaitingIn
  <2>2. /\ RowsOK(rows) /\ rows[j].status = "SERVING" /\ \A k \in PaidJobs \ {j} : rows[k] = row[k]
        /\ ServingIn(rows) = {j}
    BY <1>2, <2>1, StartedRow
  <2>3. positions \in [PaidJobs -> Nat] /\ \A k \in ServingIn(rows) : positions[k] = 1
    BY <1>2, <1>8, <2>2 DEF MirrorInv
  <2>4. Reindex(rows, jobs, positions)
    BY <1>1, <1>8 DEF jobs
  <2> HIDE DEF rows, positions
  <2>5. /\ RowsOK(row)' /\ Compact(row)' /\ MirrorInv'
        /\ \A k \in PaidJobs : row'[k].status = rows[k].status
        /\ WaitingIn(row') = WaitingIn(rows)
        /\ \A k \in WaitingIn(rows) :
              /\ Ahead(row', k) = Ahead(rows, k)
              /\ row'[k].wait = AtFront(rows, jobs) + Cardinality(Ahead(rows, k))
    BY <2>2, <2>3, <2>4, Reindexes
  <2>6. Follows(row'[j], jobs[j])
    BY <1>5, <1>6, <1>8, <2>2, <2>5 DEF Follows
  <2>7. \A k \in PaidJobs \ {j} : row'[k].status = row[k].status
    BY <2>2, <2>5
  <2>8. JobsInv'
    BY <1>1, <1>2, <1>3, <1>6, <1>7, <2>6, <2>7, JobMoves
  <2>9. WaitInv'
    BY <1>7, <2>2, <2>5, <2>8, WaitsCounted
  <2>10. QED
    BY <1>4, <2>5, <2>8, <2>9 DEF IInv
<1>9. CASE j \notin PaidJobs
  <2>1. row' = row /\ mirror' = mirror
    BY <1>1, <1>9 DEF queueVars
  <2>2. JobsInv'
    BY <1>1, <1>2, <1>3, <1>6, <1>7, <1>9, <2>1, JobMoves
  <2>3. WaitingIn(row) = {}
    BY <1>1, <1>9 DEF Turn
  <2>4. WaitInv'
    BY <2>1, <2>3 DEF WaitInv, WaitingIn
  <2>5. RowsOK(row)' /\ Compact(row)' /\ MirrorInv'
    BY <1>2, <2>1 DEF RowsOK, Compact, MirrorInv, ActiveIn, WaitingIn, ServingIn, NewPosition, Ahead
  <2>6. QED
    BY <1>4, <2>2, <2>4, <2>5 DEF IInv
<1>10. QED
  BY <1>8, <1>9

\* The capacity changes: the queue is only recalculated.
LEMMA CapacityStep ==
    ASSUME IInv, NEW n, SetProviderWorkloadCapacity(n)
    PROVE  IInv'
<1>1. Reindex(row, job, mirror) /\ starting' = starting
  BY DEF SetProviderWorkloadCapacity, requestVars
<1>2. RowsOK(row) /\ Compact(row) /\ MirrorInv /\ JobsInv /\ StartInv
  BY DEF IInv
<1>3. mirror \in [PaidJobs -> Nat] /\ \A k \in ServingIn(row) : mirror[k] = 1
  BY <1>2 DEF MirrorInv, Compact, ActiveIn
<1>4. /\ RowsOK(row)' /\ Compact(row)' /\ MirrorInv' /\ job' = job
      /\ \A k \in PaidJobs : row'[k].status = row[k].status
      /\ WaitingIn(row') = WaitingIn(row)
      /\ \A k \in WaitingIn(row) :
            /\ Ahead(row', k) = Ahead(row, k)
            /\ row'[k].wait = AtFront(row, job) + Cardinality(Ahead(row, k))
  BY <1>1, <1>2, <1>3, Reindexes
<1>5. JobsInv'
  BY <1>2, <1>4 DEF JobsInv, Follows
<1>6. StartInv'
  BY <1>1, <1>2, <1>4 DEF StartInv, Ready
<1>7. WaitInv'
  BY <1>2, <1>4, <1>5, WaitsCounted
<1>8. QED
  BY <1>4, <1>5, <1>6, <1>7 DEF IInv

\* Every step preserves the invariant.
LEMMA QueueInductive == IInv /\ [Next]_vars => IInv'
<1> SUFFICES ASSUME IInv, [Next]_vars PROVE IInv'
  OBVIOUS
<1>1. ASSUME NEW s \in Seekers, NEW source \in Sources, NEW j \in PaidJobs, Admit(j, s, source) PROVE IInv'
  BY <1>1, AdmitStep
<1>2. ASSUME NEW j \in CashJobs, DirectBooking(j) PROVE IInv'
  BY <1>2, CashStep
<1>3. ASSUME NEW j \in Jobs, JobStep(j) PROVE IInv'
  BY <1>3, StartCheckStep, EndStep, CaseStep DEF JobStep
<1>4. CASE StartCommit
  BY <1>4, StartCommitStep
<1>5. CASE StartAborted
  <2>1. job' = job /\ row' = row /\ mirror' = mirror /\ starting' = "none" /\ "none" \notin Jobs
    BY <1>5, JobsAssumption DEF StartAborted, queueVars, Jobs
  <2>2. StartInv'
    BY <2>1 DEF StartInv
  <2>3. QED
    BY <2>1, <2>2 DEF IInv, RowsOK, Compact, MirrorInv, JobsInv, WaitInv, ActiveIn, WaitingIn, ServingIn,
                      NewPosition, Ahead
<1>6. ASSUME NEW n \in 1 .. MaxLimit, SetProviderWorkloadCapacity(n) PROVE IInv'
  BY <1>6, CapacityStep
<1>7. ASSUME UNCHANGED <<job, queueVars, starting>> PROVE IInv'
  BY <1>7, StutterStep
<1>8. ASSUME NEW s \in Seekers, (\E l \in Listings : JoinRead(s, l)) \/ JoinCommit(s) \/ JoinRefused(s) PROVE IInv'
  <2>1. UNCHANGED <<job, queueVars, starting>>
    BY <1>8, Zenon DEF JoinRead, JoinCommit, JoinRefused
  <2>2. QED
    BY <1>7, <2>1
<1>9. ASSUME NEW l \in Listings, DeleteCheck(l) \/ DeleteCommit(l) PROVE IInv'
  <2>1. UNCHANGED <<job, queueVars, starting>>
    BY <1>9, Zenon DEF DeleteCheck, DeleteCommit
  <2>2. QED
    BY <1>7, <2>1
<1>10. CASE ChangeMembership
  <2>1. UNCHANGED <<job, queueVars, starting>>
    BY <1>10 DEF ChangeMembership, requestVars
  <2>2. QED
    BY <1>7, <2>1
<1>11. CASE UNCHANGED vars
  <2>1. UNCHANGED <<job, queueVars, starting>>
    BY <1>11 DEF vars, requestVars
  <2>2. QED
    BY <1>7, <2>1
<1>12. QED
  BY <1>1, <1>2, <1>3, <1>4, <1>5, <1>6, <1>8, <1>9, <1>10, <1>11, Zenon DEF Next

\* It holds at first, when there is no booking.
LEMMA QueueInit == Init => IInv
<1> SUFFICES ASSUME Init PROVE IInv
  OBVIOUS
<1>1. /\ job = [j \in Jobs |-> NoJob] /\ row = [j \in PaidJobs |-> NoRow] /\ mirror = [j \in PaidJobs |-> 0]
      /\ starting = "none" /\ PaidJobs \subseteq Jobs /\ "none" \notin Jobs
  BY JobsAssumption DEF Init, Jobs
<1>2. WaitingIn(row) = {} /\ ServingIn(row) = {} /\ ActiveIn(row) = {}
  BY <1>1 DEF WaitingIn, ServingIn, ActiveIn, NoRow
<1>3. RowsOK(row)
  <2>1. row \in [PaidJobs -> RowType] /\ \A j \in PaidJobs : row[j].status = "none"
    BY <1>1 DEF NoRow, RowType
  <2>2. IsFiniteSet({})
    BY FS_EmptySet
  <2>3. QED
    BY <1>2, <2>1, <2>2 DEF RowsOK
<1>4. Compact(row) /\ MirrorInv /\ WaitInv /\ StartInv
  BY <1>1, <1>2 DEF Compact, MirrorInv, WaitInv, StartInv
<1>5. JobsInv
  <2>1. NoJob \in JobType
    BY DEF NoJob, JobType, Statuses
  <2>2. job \in [Jobs -> JobType] /\ \A j \in Jobs : job[j] = NoJob
    BY <1>1, <2>1
  <2>3. JobOK(NoJob) /\ ~Working(NoJob) /\ Follows(NoRow, NoJob)
    BY DEF NoJob, NoRow, JobOK, Working, Agreed, Follows, Paused
  <2>4. \A j \in PaidJobs : row[j] = NoRow /\ job[j] = NoJob
    BY <1>1
  <2>5. QED
    BY <2>2, <2>3, <2>4 DEF JobsInv
<1>6. QED
  BY <1>3, <1>4, <1>5 DEF IInv

\* The invariant holds in every reachable state.
LEMMA QueueInvariant == Spec => []IInv
BY QueueInit, QueueInductive, PTL DEF Spec

-----------------------------------------------------------------------------
(* The theorems                                                             *)

\* The provider works on at most one job.
LEMMA OneWorks ==
    ASSUME JobsInv
    PROVE  /\ Cardinality({k \in Jobs : AtWork(k)}) \in {0, 1}
           /\ Cardinality({k \in Jobs : AtWork(k)}) = 1 => \E k \in Jobs : Working(job[k])
<1> DEFINE A == {k \in Jobs : AtWork(k)}
<1>1. \A k \in Jobs : AtWork(k) <=> Working(job[k])
  BY DEF AtWork, Working
<1>2. CASE A = {}
  <2>1. Cardinality(A) = 0
    BY <1>2, FS_EmptySet
  <2>2. QED
    BY <2>1
<1>3. CASE A # {}
  <2>1. PICK k \in Jobs : AtWork(k)
    BY <1>3
  <2>2. A = {k}
    BY <1>1, <2>1 DEF JobsInv
  <2>3. Cardinality({k}) = 1
    BY FS_Singleton
  <2>4. Cardinality(A) = 1
    BY <2>2, <2>3, Zenon
  <2>5. QED
    BY <1>1, <2>1, <2>4
<1>4. QED
  BY <1>2, <1>3

\* providerStartJob, the cases and the cancellations keep the provider to one
\* job at a time, whatever the order of their locks and checks.
THEOREM OneAtWork == Spec => []OneJobAtWork
<1>1. IInv => OneJobAtWork
  <2> SUFFICES ASSUME IInv PROVE OneJobAtWork
    OBVIOUS
  <2>1. Cardinality({k \in Jobs : AtWork(k)}) \in {0, 1}
    BY OneWorks DEF IInv
  <2>2. QED
    BY <2>1 DEF OneJobAtWork
<1>2. QED
  BY <1>1, QueueInvariant, PTL

\* A paid booking and its queue row never come apart.
THEOREM QueueFollows == Spec => []QueueFollowsBooking
<1>1. IInv => QueueFollowsBooking
  BY DEF IInv, JobsInv, Follows, QueueFollowsBooking, AtWork, Working, Agreed
<1>2. QED
  BY <1>1, QueueInvariant, PTL

\* The positions of the queue have no gap, and its unique indexes abort no
\* transaction, however long the queue grows.
THEOREM NeverCollide == Spec => []NeverCollides
<1>1. IInv => NeverCollides
  BY Collides DEF IInv
<1>2. QED
  BY <1>1, QueueInvariant, PTL

\* A waiting job's estimate counts every job that comes before it.
THEOREM WaitsHonest == Spec => []NoWaitUnderstated
<1>1. IInv => NoWaitUnderstated
  <2> SUFFICES ASSUME IInv, NEW j \in WaitingIn(row)
               PROVE  row[j].wait >= Cardinality(Ahead(row, j)) + Cardinality({k \in Jobs : AtWork(k)})
    BY DEF NoWaitUnderstated
  <2> DEFINE n == Cardinality({k \in Jobs : AtWork(k)})
  <2>1. n \in {0, 1} /\ (n = 1 => \E k \in Jobs : Working(job[k]))
    BY OneWorks DEF IInv
  <2>2. row[j].wait >= Cardinality(Ahead(row, j)) + (IF \E k \in Jobs : Working(job[k]) THEN 1 ELSE 0)
    BY DEF IInv, WaitInv
  <2>3. row[j].wait \in Nat /\ Cardinality(Ahead(row, j)) \in Nat
    BY AheadCounts DEF IInv, RowsOK, RowType, WaitingIn
  <2> HIDE DEF n
  <2>4. row[j].wait >= Cardinality(Ahead(row, j)) + n
    BY <2>1, <2>2, <2>3
  <2>5. QED
    BY <2>4 DEF n
<1>2. QED
  BY <1>1, QueueInvariant, PTL

\* Nobody gets ahead of j in this step: neither a paid job that came later, nor
\* one that was not there, nor a cash job that had not been started.
Keeps(j) ==
    /\ \A k \in PaidJobs :
          (k \in WaitingIn(row) /\ row[j].position < row[k].position) \/ row[k].status = "none"
              => k \notin ActiveIn(row)' \/ row'[j].position < row'[k].position
    /\ \A c \in CashJobs : ~job[c].started => ~job'[c].started

\* A step that leaves the queue alone keeps it in order.
LEMMA KeepsPlain ==
    ASSUME IInv, NEW j \in WaitingIn(row), row' = row, \A c \in CashJobs : ~job[c].started => ~job'[c].started
    PROVE  Keeps(j)
BY DEF Keeps, ActiveIn, WaitingIn, ServingIn

\* A transaction on the queue keeps it in order if the rows it writes do.
LEMMA KeepsQueue ==
    ASSUME IInv, NEW j, NEW rows, RowsOK(rows), NEW jobs, NEW positions \in [PaidJobs -> Nat],
           Reindex(rows, jobs, positions), j \in WaitingIn(row), j \in WaitingIn(rows),
           \A i \in ServingIn(rows) : positions[i] = 1,
           \A k \in PaidJobs : row[k].status # "none" => rows[k].position = row[k].position,
           \A k \in WaitingIn(rows) : row[k].status = "none" => rows[j].position < rows[k].position,
           \A k \in ServingIn(rows) : row[k].status # "none" /\ ~(k \in WaitingIn(row) /\ row[j].position < row[k].position),
           \A c \in CashJobs : ~job[c].started => ~jobs[c].started
    PROVE  Keeps(j)
<1>1. /\ WaitingIn(row') = WaitingIn(rows) /\ ServingIn(row') = ServingIn(rows) /\ job' = jobs
      /\ ActiveIn(row)' = WaitingIn(rows) \cup ServingIn(rows)
  <2>1. WaitingIn(row') = WaitingIn(rows) /\ ServingIn(row') = ServingIn(rows) /\ job' = jobs
    BY Reindexes
  <2>2. QED
    BY <2>1 DEF ActiveIn, WaitingIn, ServingIn
<1>2. ASSUME NEW k \in PaidJobs, k \in ActiveIn(row)',
             (k \in WaitingIn(row) /\ row[j].position < row[k].position) \/ row[k].status = "none"
      PROVE  row'[j].position < row'[k].position
  <2>1. k \in WaitingIn(rows)
    BY <1>1, <1>2 DEF WaitingIn
  <2>2. rows[j].position < rows[k].position
    <3>1. rows[j].position = row[j].position
      BY DEF WaitingIn
    <3>2. CASE row[k].status = "none"
      BY <2>1, <3>2
    <3>3. CASE k \in WaitingIn(row) /\ row[j].position < row[k].position
      BY <3>1, <3>3 DEF WaitingIn
    <3>4. QED
      BY <1>2, <3>2, <3>3
  <2>3. QED
    BY <2>1, <2>2, OrderKept
<1>3. QED
  BY <1>1, <1>2 DEF Keeps

\* A job that ends lets the others move up in their order.
LEMMA KeepsClosing ==
    ASSUME IInv, NEW x \in Jobs, job[x].status # "none", NEW s \in {"DONE", "CANCELLED"}, NEW jobs,
           Reindex(Closed(x, s), jobs, mirror), NEW j \in WaitingIn(row), j \in WaitingIn(row'),
           \A c \in CashJobs : ~job[c].started => ~jobs[c].started
    PROVE  Keeps(j)
<1> DEFINE rows == Closed(x, s)
<1>1. /\ RowsOK(rows) /\ \A k \in PaidJobs \ {x} : rows[k] = row[k]
      /\ x \in PaidJobs => rows[x].status = s
      /\ ServingIn(rows) \subseteq ServingIn(row) /\ WaitingIn(rows) \subseteq WaitingIn(row)
      /\ \A k \in PaidJobs : rows[k].position = row[k].position
      /\ mirror \in [PaidJobs -> Nat] /\ \A k \in ServingIn(rows) : mirror[k] = 1
  BY Closing
<1> HIDE DEF rows
<1>2. Reindex(rows, jobs, mirror)
  BY DEF rows
<1>3. j \in WaitingIn(rows)
  BY <1>1, <1>2, Reindexes
<1>4. /\ \A k \in WaitingIn(rows) : row[k].status # "none"
      /\ \A k \in ServingIn(rows) : row[k].status # "none" /\ k \notin WaitingIn(row)
  BY <1>1 DEF WaitingIn, ServingIn
<1>5. QED
  BY <1>1, <1>2, <1>3, <1>4, KeepsQueue

\* An admitted job goes behind j.
LEMMA KeepsAdmit ==
    ASSUME IInv, NEW x \in PaidJobs, NEW s \in Seekers, NEW source \in Sources, Admit(x, s, source),
           NEW j \in WaitingIn(row), j \in WaitingIn(row')
    PROVE  Keeps(j)
<1> DEFINE rows == [row EXCEPT ![x] = [status |-> "WAITING", position |-> NextPosition, wait |-> 0]]
           jobs == [job EXCEPT ![x] = NewJob(s, source, "ACCEPTED")]
           positions == [mirror EXCEPT ![x] = NextPosition]
<1>1. job[x].status = "none" /\ Reindex(rows, jobs, positions) /\ x \in Jobs
  BY DEF Admit, Jobs
<1>2. /\ RowsOK(row) /\ Compact(row) /\ JobsInv /\ mirror \in [PaidJobs -> Nat]
      /\ \A k \in ServingIn(row) : mirror[k] = 1
  BY DEF IInv, MirrorInv, Compact, ActiveIn
<1>3. row[x].status = "none"
  BY <1>1, <1>2 DEF JobsInv, Follows
<1>4. /\ RowsOK(rows) /\ NextPosition \in Nat /\ rows[x].position = NextPosition
      /\ \A k \in PaidJobs \ {x} : rows[k] = row[k]
      /\ WaitingIn(rows) = WaitingIn(row) \cup {x} /\ ServingIn(rows) = ServingIn(row)
      /\ \A k \in ActiveIn(row) : row[k].position < NextPosition
  BY <1>2, <1>3, AdmittedRow
<1>5. positions \in [PaidJobs -> Nat] /\ \A k \in ServingIn(rows) : positions[k] = 1
  <2>1. x \notin ServingIn(row)
    BY <1>3 DEF ServingIn
  <2>2. QED
    BY <1>2, <1>4, <2>1
<1>6. \A c \in CashJobs : ~job[c].started => ~jobs[c].started
  BY <1>2, JobsAssumption DEF JobsInv, Jobs
<1> HIDE DEF rows, jobs, positions
<1>7. \A k \in PaidJobs : row[k].status # "none" => rows[k].position = row[k].position
  BY <1>3, <1>4
<1>8. \A k \in WaitingIn(rows) : row[k].status = "none" => rows[j].position < rows[k].position
  <2>1. j \in PaidJobs \ {x} /\ j \in ActiveIn(row)
    BY <1>3 DEF WaitingIn, ActiveIn
  <2>2. rows[j].position < rows[x].position
    BY <1>4, <2>1
  <2>3. \A k \in WaitingIn(rows) : row[k].status = "none" => k = x
    BY <1>4 DEF WaitingIn
  <2>4. QED
    BY <2>2, <2>3
<1>9. \A k \in ServingIn(rows) : row[k].status # "none" /\ k \notin WaitingIn(row)
  BY <1>4 DEF WaitingIn, ServingIn
<1>10. j \in WaitingIn(rows)
  BY <1>4
<1>11. QED
  BY <1>1, <1>4, <1>5, <1>6, <1>7, <1>8, <1>9, <1>10, KeepsQueue

\* A started job was the first, and no cash job starts while j waits.
LEMMA KeepsStart ==
    ASSUME IInv, StartCommit, NEW j \in WaitingIn(row), j \in WaitingIn(row')
    PROVE  Keeps(j)
<1> DEFINE x == starting
<1>1. x \in PaidJobs /\ Turn(x)
  BY DEF StartCommit, Turn, Jobs
<1>2. Reindex([row EXCEPT ![x] = [status |-> "SERVING", position |-> 1, wait |-> 0]],
              Started(x), [mirror EXCEPT ![x] = 1])
  BY <1>1 DEF StartCommit
<1>3. RowsOK(row) /\ Compact(row) /\ MirrorInv /\ JobsInv /\ Ready(x)
  BY <1>1 DEF IInv, StartInv, Jobs
<1> HIDE DEF x
<1>4. x \in WaitingIn(row) /\ Ahead(row, x) = {} /\ ServingIn(row) = {}
  BY <1>1, <1>3 DEF Ready, Turn, WaitingIn
<1> DEFINE rows == [row EXCEPT ![x] = [status |-> "SERVING", position |-> 1, wait |-> 0]]
           positions == [mirror EXCEPT ![x] = 1]
           jobs == Started(x)
<1>5. /\ RowsOK(rows) /\ WaitingIn(rows) = WaitingIn(row) \ {x} /\ ServingIn(rows) = {x}
      /\ \A k \in PaidJobs : rows[k].position = row[k].position
  <2>1. RowsOK(rows) /\ WaitingIn(rows) = WaitingIn(row) \ {x} /\ ServingIn(rows) = {x}
    BY <1>3, <1>4, StartedRow
  <2>2. row[x].position = 1 /\ row \in [PaidJobs -> RowType]
    BY <1>3, <1>4, StartedRow DEF RowsOK
  <2>3. \A k \in PaidJobs : rows[k].position = row[k].position
    BY <2>2
  <2>4. QED
    BY <2>1, <2>3
<1>6. positions \in [PaidJobs -> Nat] /\ \A k \in ServingIn(rows) : positions[k] = 1
  BY <1>1, <1>3, <1>5 DEF MirrorInv
<1>7. \A c \in CashJobs : ~job[c].started => ~jobs[c].started
  BY <1>1, <1>3, JobsAssumption DEF JobsInv, Jobs, Started
<1> HIDE DEF rows, positions, jobs
<1>8. Reindex(rows, jobs, positions)
  BY <1>2 DEF rows, jobs, positions
<1>9. j \in WaitingIn(rows)
  BY <1>5, <1>6, <1>8, Reindexes
<1>10. \A k \in ServingIn(rows) : row[k].status # "none" /\ ~(row[j].position < row[k].position)
  BY <1>4, <1>5 DEF Ahead, WaitingIn
<1>11. \A k \in WaitingIn(rows) : row[k].status # "none"
  BY <1>5 DEF WaitingIn
<1>12. QED
  BY <1>5, <1>6, <1>7, <1>8, <1>9, <1>10, <1>11, KeepsQueue

\* No step of a job puts it, or another one, ahead of j.
LEMMA KeepsJob ==
    ASSUME IInv, NEW x \in Jobs, JobStep(x), NEW j \in WaitingIn(row), j \in WaitingIn(row')
    PROVE  Keeps(j)
<1>1. JobsInv /\ job \in [Jobs -> JobType] /\ CashJobs \subseteq Jobs
  BY DEF IInv, JobsInv, Jobs
<1>2. ASSUME NEW status, NEW before,
             \/ Reindex(Closed(x, "DONE"), With(x, status, before), mirror)
             \/ Reindex(Closed(x, "CANCELLED"), With(x, status, before), mirror)
             \/ job' = With(x, status, before) /\ UNCHANGED queueVars,
             job[x].status # "none"
      PROVE  Keeps(j)
  <2>1. \A c \in CashJobs : ~job[c].started => ~With(x, status, before)[c].started
    BY <1>1 DEF With, JobType
  <2>2. CASE job' = With(x, status, before) /\ UNCHANGED queueVars
    <3>1. row' = row /\ \A c \in CashJobs : ~job[c].started => ~job'[c].started
      BY <2>1, <2>2 DEF queueVars
    <3>2. QED
      BY <3>1, KeepsPlain
  <2>3. QED
    BY <1>2, <2>1, <2>2, KeepsClosing
<1>3. CASE MarkJobComplete(x)
  <2>1. /\ Reindex(Closed(x, "DONE"), WithStatus(x, "AWAITING_CONFIRMATION"), mirror) /\ job[x].status # "none"
    BY <1>3 DEF MarkJobComplete, WithStatus
  <2>2. \A c \in CashJobs : ~job[c].started => ~WithStatus(x, "AWAITING_CONFIRMATION")[c].started
    BY <1>1 DEF WithStatus, JobType
  <2>3. QED
    BY <2>1, <2>2, KeepsClosing
<1>4. CASE SettleCompletion(x)
  <2>1. /\ job[x].status # "none"
        /\ \/ Reindex(Closed(x, "DONE"), With(x, "COMPLETED", "none"), mirror)
           \/ job' = With(x, "COMPLETED", "none") /\ UNCHANGED queueVars
    BY <1>4 DEF SettleCompletion, With, Paused
  <2>2. QED
    BY <1>2, <2>1
<1>5. CASE CancelJob(x)
  <2>1. /\ job[x].status # "none"
        /\ \/ Reindex(Closed(x, "CANCELLED"), With(x, "CANCELED", "none"), mirror)
           \/ job' = With(x, "CANCELED", "none") /\ UNCHANGED queueVars
    BY <1>5 DEF CancelJob, With, Live, Paused
  <2>2. QED
    BY <1>2, <2>1
<1>6. CASE PauseForCase(x)
  <2>1. job[x].status # "none" /\ job' = With(x, "PAUSED", job[x].status) /\ UNCHANGED queueVars
    BY <1>6 DEF PauseForCase, With
  <2>2. QED
    BY <1>2, <2>1
<1>7. CASE RestoreBooking(x)
  <2>1. job[x].status # "none" /\ job' = With(x, job[x].before, "none") /\ UNCHANGED queueVars
    BY <1>7 DEF RestoreBooking, With, Paused
  <2>2. QED
    BY <1>2, <2>1
<1>8. CASE StartCheck(x)
  <2>1. row' = row /\ job' = job
    BY <1>8 DEF StartCheck, queueVars
  <2>2. QED
    BY <2>1, KeepsPlain
<1>9. QED
  BY <1>3, <1>4, <1>5, <1>6, <1>7, <1>8 DEF JobStep

\* No step at all does.
LEMMA KeepsStep ==
    ASSUME IInv, [Next]_vars, NEW j \in WaitingIn(row), j \in WaitingIn(row')
    PROVE  Keeps(j)
<1>1. ASSUME NEW s \in Seekers, NEW source \in Sources, NEW x \in PaidJobs, Admit(x, s, source) PROVE Keeps(j)
  BY <1>1, KeepsAdmit
<1>2. ASSUME NEW x \in CashJobs, DirectBooking(x) PROVE Keeps(j)
  <2>1. row' = row /\ job \in [Jobs -> JobType] /\ x \in Jobs /\ CashJobs \subseteq Jobs
    BY <1>2 DEF DirectBooking, CreateCash, RespondToDirectBooking, AcceptDirectBooking, DeclineDirectBooking, queueVars, IInv, JobsInv, Jobs
  <2>2. \A c \in CashJobs : ~job[c].started => ~job'[c].started
    <3>1. ASSUME NEW s \in Seekers, NEW source \in Sources, CreateCash(x, s, source)
          PROVE  \A c \in CashJobs : ~job[c].started => ~job'[c].started
      BY <2>1, <3>1 DEF CreateCash, NewJob
    <3>2. CASE RespondToDirectBooking(x)
      BY <2>1, <3>2 DEF RespondToDirectBooking, AcceptDirectBooking, DeclineDirectBooking, JobType
    <3>3. QED
      BY <1>2, <3>1, <3>2 DEF DirectBooking
  <2>3. QED
    BY <2>1, <2>2, KeepsPlain
<1>3. ASSUME NEW x \in Jobs, JobStep(x) PROVE Keeps(j)
  BY <1>3, KeepsJob
<1>4. CASE StartCommit
  BY <1>4, KeepsStart
<1>5. ASSUME NEW n, SetProviderWorkloadCapacity(n) PROVE Keeps(j)
  <2>1. Reindex(row, job, mirror)
    BY <1>5 DEF SetProviderWorkloadCapacity
  <2>2. /\ RowsOK(row) /\ mirror \in [PaidJobs -> Nat] /\ \A k \in ServingIn(row) : mirror[k] = 1
    BY DEF IInv, MirrorInv, Compact, ActiveIn
  <2>3. /\ \A k \in WaitingIn(row) : row[k].status # "none"
        /\ \A k \in ServingIn(row) : row[k].status # "none" /\ k \notin WaitingIn(row)
    BY DEF WaitingIn, ServingIn
  <2>4. QED
    BY <2>1, <2>2, <2>3, KeepsQueue
<1>6. ASSUME UNCHANGED <<job, queueVars>> PROVE Keeps(j)
  BY <1>6, KeepsPlain DEF queueVars
<1>7. ASSUME NEW s \in Seekers, (\E l \in Listings : JoinRead(s, l)) \/ JoinCommit(s) \/ JoinRefused(s) PROVE Keeps(j)
  <2>1. UNCHANGED <<job, queueVars>>
    BY <1>7, Zenon DEF JoinRead, JoinCommit, JoinRefused
  <2>2. QED
    BY <1>6, <2>1
<1>8. ASSUME NEW l \in Listings, DeleteCheck(l) \/ DeleteCommit(l) PROVE Keeps(j)
  <2>1. UNCHANGED <<job, queueVars>>
    BY <1>8, Zenon DEF DeleteCheck, DeleteCommit
  <2>2. QED
    BY <1>6, <2>1
<1>9. CASE StartAborted \/ ChangeMembership \/ UNCHANGED vars
  <2>1. UNCHANGED <<job, queueVars>>
    BY <1>9, Zenon DEF StartAborted, ChangeMembership, vars
  <2>2. QED
    BY <1>6, <2>1
<1>10. QED
  BY <1>1, <1>2, <1>3, <1>4, <1>5, <1>7, <1>8, <1>9, Zenon DEF Next

\* First come, first served: while a paid job waits, nobody who came later is
\* ahead of it or is started before it, cash jobs included.
NobodyOvertakes ==
    [][\A j, k \in PaidJobs :
          ((j \in WaitingIn(row) /\ j \in WaitingIn(row)')
             => /\ (k \in WaitingIn(row) /\ row[j].position < row[k].position) \/ row[k].status = "none"
                      => k \notin ActiveIn(row)' \/ row'[j].position < row'[k].position
                /\ \A c \in CashJobs : ~job[c].started => ~job'[c].started)]_vars

\* First come, first served, over any number of jobs, starts and cancellations.
THEOREM NoOvertaking == Spec => NobodyOvertakes
<1>1. IInv /\ [Next]_vars
        => [\A j, k \in PaidJobs :
              ((j \in WaitingIn(row) /\ j \in WaitingIn(row)')
                 => /\ (k \in WaitingIn(row) /\ row[j].position < row[k].position) \/ row[k].status = "none"
                          => k \notin ActiveIn(row)' \/ row'[j].position < row'[k].position
                    /\ \A c \in CashJobs : ~job[c].started => ~job'[c].started)]_vars
  <2> SUFFICES ASSUME IInv, [Next]_vars, NEW j \in PaidJobs, NEW k \in PaidJobs,
                      j \in WaitingIn(row), j \in WaitingIn(row)'
               PROVE  /\ (k \in WaitingIn(row) /\ row[j].position < row[k].position) \/ row[k].status = "none"
                            => k \notin ActiveIn(row)' \/ row'[j].position < row'[k].position
                      /\ \A c \in CashJobs : ~job[c].started => ~job'[c].started
    OBVIOUS
  <2>1. j \in WaitingIn(row')
    BY DEF WaitingIn
  <2>2. Keeps(j)
    BY <2>1, KeepsStep
  <2>3. QED
    BY <2>2, Zenon DEF Keeps
<1>2. QED
  BY <1>1, QueueInvariant, PTL DEF Spec, NobodyOvertakes

-----------------------------------------------------------------------------
(* The waitlist                                                             *)

\* A finite set of places has an entry of every rank.
LEMMA EveryRank ==
    ASSUME NEW m \in Nat, NEW places \in SUBSET (1 .. m)
    PROVE  /\ Cardinality(places) \in Nat
           /\ \A n \in 1 .. Cardinality(places) : \E i \in places : Cardinality({k \in places : k <= i}) = n
<1> DEFINE Upto(i) == {k \in places : k <= i}
           c == Cardinality(places)
           rank == [i \in places |-> Cardinality(Upto(i))]
<1>1. IsFiniteSet(places) /\ c \in Nat
  <2>1. IsFiniteSet(1 .. m)
    BY FS_Interval
  <2>2. IsFiniteSet(places)
    BY <2>1, FS_Subset
  <2>3. QED
    BY <2>2, FS_CardinalityType
<1>2. ASSUME NEW i \in places
      PROVE  IsFiniteSet(Upto(i)) /\ Cardinality(Upto(i)) \in 1 .. c
  <2>1. Upto(i) \in SUBSET places /\ i \in Upto(i)
    OBVIOUS
  <2>2. IsFiniteSet(Upto(i)) /\ Cardinality(Upto(i)) \in Nat /\ Cardinality(Upto(i)) <= c
    BY <1>1, <2>1, FS_Subset, FS_CardinalityType
  <2>3. Cardinality(Upto(i)) # 0
    BY <2>1, <2>2, FS_EmptySet
  <2>4. QED
    BY <1>1, <2>2, <2>3
<1>3. ASSUME NEW i \in places, NEW k \in places, i < k
      PROVE  Cardinality(Upto(i)) # Cardinality(Upto(k))
  <2>1. \A x \in places : x \in Nat
    OBVIOUS
  <2>2. \A x \in places : x <= i => x <= k
    BY <1>3, <2>1
  <2>3. ~(k <= i) /\ k <= k
    BY <1>3, <2>1
  <2>4. Upto(i) \in SUBSET Upto(k)
    BY <2>2
  <2>5. Upto(i) # Upto(k)
    BY <2>3
  <2>6. IsFiniteSet(Upto(k))
    BY <1>2
  <2>7. QED
    BY <2>4, <2>5, <2>6, FS_Subset
<1>4. rank \in [places -> 1 .. c] /\ \A i \in places : rank[i] = Cardinality(Upto(i))
  BY <1>2
<1>5. \A i, k \in places : rank[i] = rank[k] => i = k
  <2> SUFFICES ASSUME NEW i \in places, NEW k \in places, i # k PROVE rank[i] # rank[k]
    OBVIOUS
  <2>1. i < k \/ k < i
    OBVIOUS
  <2>2. QED
    BY <1>3, <1>4, <2>1
<1> HIDE DEF Upto, rank, c
<1>6. rank \in Injection(places, 1 .. c)
  BY <1>4, <1>5 DEF Injection, IsInjective
<1>7. IsFiniteSet(1 .. c) /\ Cardinality(1 .. c) = c
  BY <1>1, FS_Interval
<1>8. rank \in Surjection(places, 1 .. c)
  BY <1>6, <1>7, FS_Injection DEF c
<1>9. \A n \in 1 .. c : \E i \in places : Cardinality(Upto(i)) = n
  BY <1>4, <1>8 DEF Surjection
<1>10. QED
  BY <1>1, <1>9 DEF c, Upto

Requests == Listings \X Seekers

\* Deleting some requests leaves a waitlist of the others, and of nothing else.
LEMMA KeepingKeeps ==
    ASSUME waitlist \in Seq(Requests), NEW places \in SUBSET DOMAIN waitlist
    PROVE  /\ Keeping(places) \in Seq(Requests)
           /\ \A n \in DOMAIN Keeping(places) : \E i \in places : Keeping(places)[n] = waitlist[i]
<1> DEFINE c == Cardinality(places)
           At(n) == CHOOSE i \in places : Cardinality({k \in places : k <= i}) = n
<1>1. Len(waitlist) \in Nat /\ DOMAIN waitlist = 1 .. Len(waitlist) /\ \A i \in DOMAIN waitlist : waitlist[i] \in Requests
  OBVIOUS
<1>2. c \in Nat /\ \A n \in 1 .. c : \E i \in places : Cardinality({k \in places : k <= i}) = n
  BY <1>1, EveryRank
<1>3. \A n \in 1 .. c : At(n) \in places
  BY <1>2
<1>4. Keeping(places) = [n \in 1 .. c |-> waitlist[At(n)]]
  BY Zenon DEF Keeping
<1> HIDE DEF At, c
<1>5. Keeping(places) \in [1 .. c -> Requests]
  BY <1>1, <1>3, <1>4
<1>6. Keeping(places) \in Seq(Requests)
  BY <1>2, <1>5
<1>7. QED
  BY <1>3, <1>4, <1>6

\* No paid booking comes to life, and a live one stays that of its listing and
\* its seeker.
NoneRevived ==
    \A k \in PaidJobs :
        job'[k].status \in Live =>
            job[k].status \in Live /\ job'[k].source = job[k].source /\ job'[k].seeker = job[k].seeker

\* One booking that was live changes, and stays that of its listing and seeker.
LEMMA OneGoesOn ==
    ASSUME NEW x \in Jobs, job[x].status \in Live, \A k \in Jobs \ {x} : job'[k] = job[k],
           job'[x].source = job[x].source, job'[x].seeker = job[x].seeker
    PROVE  NoneRevived
BY DEF NoneRevived, Jobs

\* So when it is paused, restored, ended or settled ...
LEMMA GoesOn ==
    ASSUME job \in [Jobs -> JobType], NEW x \in Jobs, job[x].status \in Live,
           NEW status, NEW before, job' = With(x, status, before)
    PROVE  NoneRevived
<1>1. job[x] \in JobType
  OBVIOUS
<1>2. \A k \in Jobs \ {x} : job'[k] = job[k]
  BY DEF With
<1>3. job'[x].source = job[x].source /\ job'[x].seeker = job[x].seeker
  BY <1>1 DEF With, JobType
<1>4. QED
  BY <1>2, <1>3, OneGoesOn

\* ... and when it is completed.
LEMMA StatusGoesOn ==
    ASSUME job \in [Jobs -> JobType], NEW x \in Jobs, job[x].status \in Live,
           NEW status, job' = WithStatus(x, status)
    PROVE  NoneRevived
<1>1. job[x] \in JobType
  OBVIOUS
<1>2. \A k \in Jobs \ {x} : job'[k] = job[k]
  BY DEF WithStatus
<1>3. job'[x].source = job[x].source /\ job'[x].seeker = job[x].seeker
  BY <1>1 DEF WithStatus, JobType
<1>4. QED
  BY <1>2, <1>3, OneGoesOn

\* Cash jobs are no concern of it.
LEMMA CashGoesOn ==
    ASSUME job \in [Jobs -> JobType], NEW x \in CashJobs, \A k \in Jobs \ {x} : job'[k] = job[k]
    PROVE  NoneRevived
BY JobsAssumption DEF NoneRevived, Jobs

\* What is not in the queue stays within its type.
SettingsOK ==
    /\ limit \in 1 .. MaxLimit
    /\ access \in BOOLEAN
    /\ deleted \in SUBSET Listings /\ deleting \in SUBSET Listings
    /\ starting \in Jobs \cup {"none"}
    /\ joining \in [Seekers -> [source : Listings \cup {"none"}, limit : 0 .. MaxLimit]]

WaitlistOK == waitlist \in Seq(Requests) /\ BookedNotWaitlisted

WInv == SettingsOK /\ WaitlistOK

\* The requests that remain are still for listings that are not booked.
LEMMA WaitlistShrinks ==
    ASSUME WaitlistOK, NoneRevived, waitlist' \in Seq(Requests),
           \A n \in DOMAIN waitlist' : \E i \in DOMAIN waitlist : waitlist'[n] = waitlist[i]
    PROVE  WaitlistOK'
<1> SUFFICES ASSUME NEW n \in DOMAIN waitlist', NEW j \in PaidJobs, job'[j].status \in Live
             PROVE  waitlist'[n] # <<job'[j].source, job'[j].seeker>>
  BY DEF WaitlistOK, BookedNotWaitlisted
<1>1. PICK i \in DOMAIN waitlist : waitlist'[n] = waitlist[i]
  OBVIOUS
<1>2. job[j].status \in Live /\ job'[j].source = job[j].source /\ job'[j].seeker = job[j].seeker
  BY DEF NoneRevived
<1>3. waitlist[i] # <<job[j].source, job[j].seeker>>
  BY <1>2 DEF WaitlistOK, BookedNotWaitlisted
<1>4. QED
  BY <1>1, <1>2, <1>3

\* notifyWaitlistInTransaction consumes the oldest request, or none.
LEMMA Notified ==
    ASSUME WaitlistOK, NoneRevived, NotifyWaitlist \/ UNCHANGED waitlist
    PROVE  WaitlistOK'
<1>1. CASE waitlist' = waitlist
  BY <1>1, WaitlistShrinks DEF WaitlistOK
<1>2. CASE waitlist # <<>> /\ waitlist' = Tail(waitlist)
  <2>1. waitlist \in Seq(Requests)
    BY DEF WaitlistOK
  <2>2. waitlist' \in Seq(Requests) /\ DOMAIN waitlist' = 1 .. Len(waitlist) - 1
    BY <1>2, <2>1
  <2>3. \A n \in DOMAIN waitlist' : n + 1 \in DOMAIN waitlist /\ waitlist'[n] = waitlist[n + 1]
    BY <1>2, <2>1
  <2>4. QED
    BY <2>2, <2>3, WaitlistShrinks
<1>3. QED
  BY <1>1, <1>2 DEF NotifyWaitlist

\* A paid booking consumes the seeker's requests, those for its own listing
\* among them.
LEMMA WaitAdmit ==
    ASSUME IInv, WInv, NEW x \in PaidJobs, NEW s \in Seekers, NEW source \in Sources, Admit(x, s, source)
    PROVE  WInv'
<1> DEFINE places == {i \in DOMAIN waitlist : waitlist[i][2] # s}
<1>1. /\ job \in [Jobs -> JobType] /\ x \in Jobs /\ PaidJobs \subseteq Jobs
      /\ job' = [job EXCEPT ![x] = NewJob(s, source, "ACCEPTED")]
      /\ waitlist' = Keeping(places)
      /\ UNCHANGED <<settingVars, requestVars>>
  BY Zenon DEF IInv, JobsInv, Jobs, Admit, Reindex, WaitlistWithout
<1>2. places \in SUBSET DOMAIN waitlist /\ waitlist \in Seq(Requests)
  BY DEF WInv, WaitlistOK
<1>3. waitlist' \in Seq(Requests) /\ \A n \in DOMAIN waitlist' : \E i \in places : waitlist'[n] = waitlist[i]
  BY <1>1, <1>2, KeepingKeeps
<1>4. SettingsOK'
  BY <1>1 DEF WInv, SettingsOK, settingVars, requestVars
<1>5. BookedNotWaitlisted'
  <2> SUFFICES ASSUME NEW n \in DOMAIN waitlist', NEW j \in PaidJobs, job'[j].status \in Live
               PROVE  waitlist'[n] # <<job'[j].source, job'[j].seeker>>
    BY DEF BookedNotWaitlisted
  <2>1. PICK i \in places : waitlist'[n] = waitlist[i]
    BY <1>3
  <2>2. CASE j = x
    <3>1. job'[j].seeker = s
      BY <1>1, <2>2 DEF NewJob
    <3>2. waitlist[i][2] # s
      OBVIOUS
    <3>3. QED
      BY <2>1, <3>1, <3>2
  <2>3. CASE j # x
    <3>1. job'[j] = job[j]
      BY <1>1, <2>3
    <3>2. QED
      BY <2>1, <3>1 DEF WInv, WaitlistOK, BookedNotWaitlisted
  <2>4. QED
    BY <2>2, <2>3
<1>6. QED
  BY <1>3, <1>4, <1>5 DEF WInv, WaitlistOK

\* A job goes on, or ends.
LEMMA WaitJob ==
    ASSUME IInv, WInv, NEW x \in Jobs, JobStep(x)
    PROVE  WInv'
<1>1. job \in [Jobs -> JobType] /\ JobOK(job[x])
  BY DEF IInv, JobsInv
<1>2. CASE StartCheck(x)
  <2>1. NoneRevived /\ UNCHANGED waitlist
    BY <1>2 DEF StartCheck, NoneRevived
  <2>2. SettingsOK'
    BY <1>2 DEF StartCheck, WInv, SettingsOK, settingVars
  <2>3. QED
    BY <2>1, <2>2, Notified DEF WInv
<1>3. CASE MarkJobComplete(x)
  <2>1. /\ job[x].status \in Live /\ job' = WithStatus(x, "AWAITING_CONFIRMATION")
        /\ NotifyWaitlist \/ UNCHANGED waitlist
        /\ UNCHANGED <<settingVars, requestVars>>
    BY <1>3 DEF MarkJobComplete, Reindex, Live, WithStatus
  <2>2. NoneRevived
    BY <1>1, <2>1, StatusGoesOn
  <2>3. QED
    BY <2>1, <2>2, Notified DEF WInv, SettingsOK, settingVars, requestVars
<1>4. CASE SettleCompletion(x)
  <2>1. /\ job[x].status \in Live /\ job' = With(x, "COMPLETED", "none")
        /\ UNCHANGED waitlist /\ UNCHANGED <<settingVars, requestVars>>
    BY <1>4 DEF SettleCompletion, Reindex, Live, With
  <2>2. NoneRevived
    BY <1>1, <2>1, GoesOn
  <2>3. QED
    BY <2>1, <2>2, Notified DEF WInv, SettingsOK, settingVars, requestVars
<1>5. CASE PauseForCase(x)
  <2>1. /\ job[x].status \in Live /\ job' = With(x, "PAUSED", job[x].status)
        /\ UNCHANGED waitlist /\ UNCHANGED <<settingVars, requestVars>>
    BY <1>5 DEF PauseForCase, Live, With
  <2>2. NoneRevived
    BY <1>1, <2>1, GoesOn
  <2>3. QED
    BY <2>1, <2>2, Notified DEF WInv, SettingsOK, settingVars, requestVars
<1>6. CASE RestoreBooking(x)
  <2>1. /\ job[x].status \in Live /\ job' = With(x, job[x].before, "none")
        /\ UNCHANGED waitlist /\ UNCHANGED <<settingVars, requestVars>>
    BY <1>6 DEF RestoreBooking, Live, With
  <2>2. NoneRevived
    BY <1>1, <2>1, GoesOn
  <2>3. QED
    BY <2>1, <2>2, Notified DEF WInv, SettingsOK, settingVars, requestVars
<1>7. CASE CancelJob(x)
  <2>1. /\ job[x].status \in Live /\ job' = With(x, "CANCELED", "none")
        /\ NotifyWaitlist \/ UNCHANGED waitlist
        /\ UNCHANGED <<settingVars, requestVars>>
    BY <1>7 DEF CancelJob, Reindex, With
  <2>2. NoneRevived
    BY <1>1, <2>1, GoesOn
  <2>3. QED
    BY <2>1, <2>2, Notified DEF WInv, SettingsOK, settingVars, requestVars
<1>8. QED
  BY <1>2, <1>3, <1>4, <1>5, <1>6, <1>7 DEF JobStep

\* A job is started.
LEMMA WaitStart ==
    ASSUME IInv, WInv, StartCommit
    PROVE  WInv'
<1> DEFINE x == starting
<1>1. job \in [Jobs -> JobType] /\ x \in Jobs /\ job[x].status \in Live
  BY DEF IInv, JobsInv, StartInv, StartCommit, Ready, Live
<1>2. job' = [job EXCEPT ![x].status = "ONGOING", ![x].started = TRUE]
  BY DEF StartCommit, Reindex, Started
<1>3. UNCHANGED waitlist
  BY DEF StartCommit
<1>4. SettingsOK'
  BY DEF StartCommit, WInv, SettingsOK, settingVars
<1>5. NoneRevived
  <2>1. job[x] \in JobType /\ \A k \in Jobs \ {x} : job'[k] = job[k]
    BY <1>1, <1>2
  <2>2. job'[x].source = job[x].source /\ job'[x].seeker = job[x].seeker
    BY <1>1, <1>2, <2>1 DEF JobType
  <2>3. QED
    BY <1>1, <2>1, <2>2, OneGoesOn
<1>6. QED
  BY <1>3, <1>4, <1>5, Notified DEF WInv

\* A request is made, and never beside a live booking.
LEMMA WaitJoin ==
    ASSUME WInv, NEW s \in Seekers, JoinCommit(s)
    PROVE  WInv'
<1> DEFINE l == joining[s].source
<1>1. /\ l # "none" /\ ~LiveJob(s, l) /\ waitlist' = Append(waitlist, <<l, s>>)
      /\ joining' = [joining EXCEPT ![s] = NotJoining]
      /\ UNCHANGED <<job, settingVars, starting, deleting>>
  BY DEF JoinCommit
<1>2. /\ joining \in [Seekers -> [source : Listings \cup {"none"}, limit : 0 .. MaxLimit]]
      /\ NotJoining \in [source : Listings \cup {"none"}, limit : 0 .. MaxLimit]
  BY MaxLimitAssumption DEF WInv, SettingsOK, NotJoining
<1>3. SettingsOK'
  BY <1>1, <1>2 DEF WInv, SettingsOK, settingVars
<1>4. <<l, s>> \in Requests /\ waitlist \in Seq(Requests) /\ BookedNotWaitlisted
  BY <1>1, <1>2 DEF WInv, WaitlistOK, Requests
<1>5. /\ waitlist' \in Seq(Requests)
      /\ \A n \in DOMAIN waitlist' : (n \in DOMAIN waitlist /\ waitlist'[n] = waitlist[n]) \/ waitlist'[n] = <<l, s>>
  BY <1>1, <1>4
<1>6. BookedNotWaitlisted'
  <2> SUFFICES ASSUME NEW n \in DOMAIN waitlist', NEW j \in PaidJobs, job[j].status \in Live
               PROVE  waitlist'[n] # <<job[j].source, job[j].seeker>>
    BY <1>1 DEF BookedNotWaitlisted
  <2>1. CASE n \in DOMAIN waitlist /\ waitlist'[n] = waitlist[n]
    BY <1>4, <2>1 DEF BookedNotWaitlisted
  <2>2. CASE waitlist'[n] = <<l, s>>
    BY <1>1, <2>2 DEF LiveJob, JobIn, Jobs
  <2>3. QED
    BY <1>5, <2>1, <2>2
<1>7. QED
  BY <1>3, <1>5, <1>6 DEF WInv, WaitlistOK

\* A listing is deleted with its requests.
LEMMA WaitDelete ==
    ASSUME WInv, NEW l \in Listings, DeleteCommit(l)
    PROVE  WInv'
<1> DEFINE places == {i \in DOMAIN waitlist : waitlist[i][1] # l}
<1>1. /\ waitlist' = Keeping(places) /\ NoneRevived
      /\ deleting' = deleting \ {l} /\ deleted' = deleted \cup {l} /\ UNCHANGED <<limit, access, starting, joining>>
  BY DEF DeleteCommit, NoneRevived
<1>2. places \in SUBSET DOMAIN waitlist /\ waitlist \in Seq(Requests)
  BY DEF WInv, WaitlistOK
<1>3. waitlist' \in Seq(Requests) /\ \A n \in DOMAIN waitlist' : \E i \in places : waitlist'[n] = waitlist[i]
  BY <1>1, <1>2, KeepingKeeps
<1>4. SettingsOK'
  BY <1>1 DEF WInv, SettingsOK
<1>5. \A n \in DOMAIN waitlist' : \E i \in DOMAIN waitlist : waitlist'[n] = waitlist[i]
  BY <1>2, <1>3
<1>6. QED
  BY <1>1, <1>3, <1>4, <1>5, WaitlistShrinks DEF WInv

LEMMA WaitStep == IInv /\ WInv /\ [Next]_vars => WInv'
<1> SUFFICES ASSUME IInv, WInv, [Next]_vars PROVE WInv'
  OBVIOUS
<1>0. job \in [Jobs -> JobType]
  BY DEF IInv, JobsInv
<1>1. ASSUME NEW s \in Seekers, NEW source \in Sources, NEW x \in PaidJobs, Admit(x, s, source) PROVE WInv'
  BY <1>1, WaitAdmit
<1>2. ASSUME NEW x \in CashJobs, DirectBooking(x) PROVE WInv'
  <2>1. UNCHANGED <<settingVars, waitlist, requestVars>>
    BY <1>2, Zenon DEF DirectBooking, CreateCash, RespondToDirectBooking, AcceptDirectBooking, DeclineDirectBooking
  <2>2. \A k \in Jobs \ {x} : job'[k] = job[k]
    <3>1. ASSUME NEW s \in Seekers, NEW source \in Sources, CreateCash(x, s, source)
          PROVE  \A k \in Jobs \ {x} : job'[k] = job[k]
      BY <1>0, <3>1 DEF CreateCash
    <3>2. CASE RespondToDirectBooking(x)
      BY <1>0, <3>2 DEF RespondToDirectBooking, AcceptDirectBooking, DeclineDirectBooking
    <3>3. QED
      BY <1>2, <3>1, <3>2 DEF DirectBooking
  <2>3. NoneRevived
    BY <1>0, <2>2, CashGoesOn
  <2>4. QED
    BY <2>1, <2>3, Notified DEF WInv, SettingsOK, settingVars, requestVars
<1>3. ASSUME NEW x \in Jobs, JobStep(x) PROVE WInv'
  BY <1>3, WaitJob
<1>4. CASE StartCommit
  BY <1>4, WaitStart
<1>5. ASSUME NEW n \in 1 .. MaxLimit, SetProviderWorkloadCapacity(n) PROVE WInv'
  <2>1. limit' = n /\ job' = job /\ UNCHANGED <<access, deleted, waitlist, requestVars>>
    BY <1>5 DEF SetProviderWorkloadCapacity, Reindex
  <2>2. NoneRevived
    BY <2>1 DEF NoneRevived
  <2>3. QED
    BY <2>1, <2>2, Notified DEF WInv, SettingsOK, requestVars
<1>6. ASSUME UNCHANGED <<job, waitlist>> PROVE WaitlistOK'
  BY <1>6, Notified DEF WInv, NoneRevived
<1>7. CASE StartAborted \/ ChangeMembership \/ UNCHANGED vars
  <2>1. UNCHANGED <<job, waitlist>>
    BY <1>7, Zenon DEF StartAborted, ChangeMembership, vars
  <2>2. SettingsOK'
    BY <1>7 DEF StartAborted, ChangeMembership, vars, WInv, SettingsOK, settingVars, requestVars
  <2>3. QED
    BY <1>6, <2>1, <2>2 DEF WInv
<1>8. ASSUME NEW s \in Seekers, (\E l \in Listings : JoinRead(s, l)) \/ JoinRefused(s) PROVE WInv'
  <2>1. UNCHANGED <<job, waitlist, settingVars, starting, deleting>>
    BY <1>8, Zenon DEF JoinRead, JoinRefused
  <2>2. SettingsOK
    BY DEF WInv
  <2>3. PICK r : r \in [source : Listings \cup {"none"}, limit : 0 .. MaxLimit] /\ joining' = [joining EXCEPT ![s] = r]
    <3>1. limit \in 0 .. MaxLimit /\ 0 \in 0 .. MaxLimit
      BY <2>2, MaxLimitAssumption DEF SettingsOK
    <3>2. QED
      BY <1>8, <3>1 DEF JoinRead, JoinRefused, NotJoining
  <2>4. SettingsOK'
    BY <2>1, <2>2, <2>3 DEF SettingsOK, settingVars
  <2>5. QED
    BY <1>6, <2>1, <2>4 DEF WInv
<1>9. ASSUME NEW s \in Seekers, JoinCommit(s) PROVE WInv'
  BY <1>9, WaitJoin
<1>10. ASSUME NEW l \in Listings, DeleteCheck(l) PROVE WInv'
  <2>1. UNCHANGED <<job, waitlist>>
    BY <1>10, Zenon DEF DeleteCheck
  <2>2. SettingsOK'
    BY <1>10 DEF DeleteCheck, WInv, SettingsOK, settingVars
  <2>3. QED
    BY <1>6, <2>1, <2>2 DEF WInv
<1>11. ASSUME NEW l \in Listings, DeleteCommit(l) PROVE WInv'
  BY <1>11, WaitDelete
<1>12. QED
  BY <1>1, <1>2, <1>3, <1>4, <1>5, <1>7, <1>8, <1>9, <1>10, <1>11, Zenon DEF Next

LEMMA WaitInit == Init => WInv
<1> SUFFICES ASSUME Init PROVE WInv
  OBVIOUS
<1>1. SettingsOK
  BY MaxLimitAssumption DEF Init, SettingsOK, NotJoining
<1>2. waitlist = <<>>
  BY DEF Init
<1>3. WaitlistOK
  BY <1>2 DEF WaitlistOK, BookedNotWaitlisted
<1>4. QED
  BY <1>1, <1>3 DEF WInv

LEMMA WaitInvariant == Spec => []WInv
<1>1. Spec => [](IInv /\ WInv)
  <2>1. Init => IInv /\ WInv
    BY QueueInit, WaitInit
  <2>2. IInv /\ WInv /\ [Next]_vars => IInv' /\ WInv'
    BY QueueInductive, WaitStep
  <2>3. QED
    BY <2>1, <2>2, PTL DEF Spec
<1>2. QED
  BY <1>1, PTL

\* No seeker stays on the waitlist of a listing for which their paid booking is
\* live: finalizing the payment consumes the request in the same transaction, and
\* joinWaitlist looks for the booking under the lock that finalizing takes.
THEOREM NotBookedAndWaiting == Spec => []BookedNotWaitlisted
BY WaitInvariant, PTL DEF WInv, WaitlistOK

\* Every variable stays within its type, and every row has a positive position,
\* through every recalculation and whatever is deleted from the waitlist.
THEOREM TypeCorrect == Spec => []TypeOK
<1>1. IInv /\ WInv => TypeOK
  <2> SUFFICES ASSUME IInv, WInv PROVE TypeOK
    OBVIOUS
  <2>1. /\ job \in [Jobs -> JobType] /\ row \in [PaidJobs -> RowType] /\ mirror \in [PaidJobs -> Nat]
        /\ \A j \in PaidJobs : row[j].status # "none" => row[j].position > 0
    BY DEF IInv, JobsInv, RowsOK, MirrorInv
  <2>2. SettingsOK /\ waitlist \in Seq(Listings \X Seekers)
    BY DEF WInv, WaitlistOK, Requests
  <2>3. QED
    BY <2>1, <2>2, Zenon DEF TypeOK, JobType, RowType, SettingsOK
<1>2. QED
  BY <1>1, QueueInvariant, WaitInvariant, PTL
-----------------------------------------------------------------------------
(* The line                                                                 *)

LineStep == [Service!Next]_(Service!lineVars)

\* The rows a transaction writes give the line it leaves behind.
LEMMA LineAfter ==
    ASSUME NEW rows, RowsOK(rows), NEW jobs, NEW positions \in [PaidJobs -> Nat], Reindex(rows, jobs, positions),
           \A j \in ServingIn(rows) : positions[j] = 1
    PROVE  /\ LineOf(row)' = LineOf(rows) /\ job' = jobs
           /\ \A j \in PaidJobs : row'[j].status = rows[j].status
<1>1. /\ job' = jobs /\ \A j \in PaidJobs : row'[j].status = rows[j].status
      /\ WaitingIn(row') = WaitingIn(rows) /\ \A j \in WaitingIn(rows) : Ahead(row', j) = Ahead(rows, j)
  BY Reindexes
<1>2. LineOf(row)' = LineOf(row')
  BY DEF LineOf, WaitingIn, Ahead
<1>3. LineOf(row') = LineOf(rows)
  BY <1>1 DEF LineOf
<1>4. QED
  BY <1>1, <1>2, <1>3

\* A row that stops waiting is taken out of the line.
LEMMA LineWithout ==
    ASSUME NEW x, NEW rows, \A k \in PaidJobs \ {x} : rows[k] = row[k], x \notin WaitingIn(rows)
    PROVE  /\ LineOf(rows) = [k \in WaitingIn(row) \ {x} |-> Ahead(row, k) \ {x}]
           /\ x \notin WaitingIn(row) => LineOf(rows) = LineOf(row)
<1>1. WaitingIn(rows) = WaitingIn(row) \ {x}
  BY DEF WaitingIn
<1>2. \A k \in WaitingIn(rows) : rows[k] = row[k] /\ k \in WaitingIn(row)
  BY <1>1 DEF WaitingIn
<1>3. \A k \in WaitingIn(rows) : Ahead(rows, k) = Ahead(row, k) \ {x}
  BY <1>1, <1>2 DEF Ahead
<1>4. LineOf(rows) = [k \in WaitingIn(row) \ {x} |-> Ahead(row, k) \ {x}]
  BY <1>1, <1>3 DEF LineOf
<1>5. ASSUME x \notin WaitingIn(row) PROVE LineOf(rows) = LineOf(row)
  <2>1. WaitingIn(row) \ {x} = WaitingIn(row) /\ \A k \in WaitingIn(row) : Ahead(row, k) \ {x} = Ahead(row, k)
    BY <1>5 DEF Ahead
  <2>2. QED
    BY <1>4, <2>1 DEF LineOf
<1>6. QED
  BY <1>4, <1>5

\* Who is in the line, and who is ahead of whom.
LEMMA LineNow == DOMAIN LineOf(row) = WaitingIn(row) /\ \A j \in WaitingIn(row) : LineOf(row)[j] = Ahead(row, j)
BY DEF LineOf

\* Work goes on as it was, or the one job worked on is over.
LEMMA WorkNow ==
    ASSUME JobsInv, NEW x \in Jobs, \A k \in Jobs \ {x} : job'[k] = job[k]
    PROVE  /\ (Working(job'[x]) <=> Working(job[x])) => Underway' = Underway
           /\ Working(job[x]) /\ ~Working(job'[x]) => Underway # {} /\ Underway' = {}
           /\ Working(job'[x]) /\ (\A k \in Jobs : ~Working(job[k])) => Underway = {} /\ Underway' = {x}
<1>1. Underway = {k \in Jobs : Working(job[k])} /\ Underway' = {k \in Jobs : Working(job'[k])}
  BY DEF Underway, AtWork, Working
<1>2. \A k \in Jobs : k = x \/ (Working(job'[k]) <=> Working(job[k]))
  BY Zenon
<1>3. \A j, k \in Jobs : Working(job[j]) /\ Working(job[k]) => j = k
  BY DEF JobsInv
<1>4. QED
  BY <1>1, <1>2, <1>3, Zenon

\* Nobody joined the line or started without it.
LEMMA CustomersKept ==
    ASSUME \A j \in PaidJobs : row'[j].status = "none" <=> row[j].status = "none",
           \A c \in CashJobs : job'[c].started = job[c].started
    PROVE  Customers' = Customers
BY DEF Customers

\* What changes neither the line nor the work in progress is not seen.
LEMMA Unseen ==
    ASSUME LineOf(row)' = LineOf(row), Underway' = Underway, Customers' = Customers
    PROVE  LineStep
BY DEF LineStep, Service!lineVars

\* A job that is over leaves the line, or ends the work, or is no longer seen.
LEMMA LineEnds ==
    ASSUME IInv, NEW x \in Jobs, job[x].status # "none", NEW s \in {"DONE", "CANCELLED"}, NEW jobs,
           \A k \in Jobs \ {x} : jobs[k] = job[k], ~Working(jobs[x]), jobs[x].started = job[x].started,
           \/ Reindex(Closed(x, s), jobs, mirror)
           \/ x \notin PaidJobs /\ job' = jobs /\ UNCHANGED queueVars
    PROVE  LineStep
<1>1. JobsInv /\ (x \in PaidJobs => Follows(row[x], job[x])) /\ CashJobs \subseteq Jobs
  BY DEF IInv, JobsInv, Jobs
<1>2. /\ job' = jobs /\ \A j \in PaidJobs : row'[j].status = "none" <=> row[j].status = "none"
      /\ x \in WaitingIn(row) => LineOf(row)' = [k \in WaitingIn(row) \ {x} |-> Ahead(row, k) \ {x}]
      /\ x \notin WaitingIn(row) => LineOf(row)' = LineOf(row)
  <2>1. CASE Reindex(Closed(x, s), jobs, mirror)
    <3> DEFINE rows == Closed(x, s)
    <3>1. /\ RowsOK(rows) /\ \A k \in PaidJobs \ {x} : rows[k] = row[k]
          /\ x \in PaidJobs => rows[x].status = s
          /\ mirror \in [PaidJobs -> Nat] /\ \A k \in ServingIn(rows) : mirror[k] = 1
      BY Closing
    <3> HIDE DEF rows
    <3>2. /\ LineOf(row)' = LineOf(rows) /\ job' = jobs
          /\ \A j \in PaidJobs : row'[j].status = rows[j].status
      <4>1. Reindex(rows, jobs, mirror)
        BY <2>1 DEF rows
      <4>2. QED
        BY <3>1, <4>1, LineAfter
    <3>3. x \notin WaitingIn(rows)
      BY <3>1 DEF WaitingIn
    <3>4. x \in PaidJobs => row[x].status # "none"
      BY <1>1 DEF Follows
    <3>5. QED
      BY <3>1, <3>2, <3>3, <3>4, LineWithout
  <2>2. CASE x \notin PaidJobs /\ job' = jobs /\ UNCHANGED queueVars
    <3>1. row' = row /\ x \notin WaitingIn(row)
      BY <2>2 DEF queueVars, WaitingIn
    <3>2. LineOf(row)' = LineOf(row)
      BY <3>1 DEF LineOf, WaitingIn, Ahead
    <3>3. QED
      BY <2>2, <3>1, <3>2
  <2>3. QED
    BY <2>1, <2>2
<1>3. Customers' = Customers
  <2>1. \A c \in CashJobs : job'[c].started = job[c].started
    BY <1>1, <1>2
  <2>2. QED
    BY <1>2, <2>1, CustomersKept
<1>4. /\ ~Working(job[x]) => Underway' = Underway
      /\ Working(job[x]) => Underway # {} /\ Underway' = {}
  BY <1>1, <1>2, WorkNow
<1>5. CASE x \in WaitingIn(row)
  <2>1. x \in PaidJobs /\ ~Working(job[x])
    BY <1>1, <1>5 DEF WaitingIn, Follows
  <2>2. Service!Leave(x)
    BY <1>2, <1>3, <1>4, <1>5, <2>1, LineNow DEF Service!Leave, Service!Waiting, Service!Without
  <2>3. QED
    BY <2>1, <2>2 DEF LineStep, Service!Next
<1>6. CASE x \notin WaitingIn(row) /\ Working(job[x])
  <2>1. Service!Stop
    BY <1>2, <1>3, <1>4, <1>6 DEF Service!Stop
  <2>2. QED
    BY <2>1 DEF LineStep, Service!Next
<1>7. CASE x \notin WaitingIn(row) /\ ~Working(job[x])
  BY <1>2, <1>3, <1>4, <1>7, Unseen
<1>8. QED
  BY <1>5, <1>6, <1>7

\* Neither a finished job, nor a settled, nor a canceled one is worked on.
LEMMA LineEnd ==
    ASSUME IInv, NEW x \in Jobs, MarkJobComplete(x) \/ SettleCompletion(x) \/ CancelJob(x)
    PROVE  LineStep
<1>1. JobsInv /\ JobOK(job[x])
  BY DEF IInv, JobsInv
<1>2. CASE MarkJobComplete(x)
  <2>1. /\ job[x].status = "ONGOING"
        /\ Reindex(Closed(x, "DONE"), WithStatus(x, "AWAITING_CONFIRMATION"), mirror)
    BY <1>2 DEF MarkJobComplete, WithStatus
  <2>2. "AWAITING_CONFIRMATION" \in Statuses
    BY DEF Statuses, Live
  <2>3. PICK jobs : jobs = WithStatus(x, "AWAITING_CONFIRMATION")
    OBVIOUS
  <2>4. /\ \A k \in Jobs \ {x} : jobs[k] = job[k]
        /\ jobs[x].status = "AWAITING_CONFIRMATION" /\ jobs[x].started = job[x].started
    BY <1>1, <2>2, <2>3, ChangedStatus
  <2>5. ~Working(jobs[x])
    BY <2>4 DEF Working, Paused
  <2>6. QED
    BY <2>1, <2>3, <2>4, <2>5, LineEnds
<1>3. ASSUME NEW status \in {"COMPLETED", "CANCELED"}, NEW s \in {"DONE", "CANCELLED"}, job[x].status # "none",
             NEW jobs, jobs = With(x, status, "none"),
             \/ Reindex(Closed(x, s), jobs, mirror)
             \/ x \notin PaidJobs /\ job' = jobs /\ UNCHANGED queueVars
      PROVE  LineStep
  <2>1. status \in Statuses /\ "none" \in Statuses
    BY DEF Statuses
  <2>2. /\ \A k \in Jobs \ {x} : jobs[k] = job[k]
        /\ jobs[x].status = status /\ jobs[x].started = job[x].started
    BY <1>1, <1>3, <2>1, ChangedJobs
  <2>3. ~Working(jobs[x])
    BY <2>2 DEF Working, Paused
  <2>4. QED
    BY <1>3, <2>2, <2>3, LineEnds
<1>4. CASE SettleCompletion(x)
  <2>1. /\ job[x].status # "none"
        /\ \/ Reindex(Closed(x, "DONE"), With(x, "COMPLETED", "none"), mirror)
           \/ x \notin PaidJobs /\ job' = With(x, "COMPLETED", "none") /\ UNCHANGED queueVars
    BY <1>4 DEF SettleCompletion, With, Paused
  <2>2. QED
    BY <1>3, <2>1
<1>5. CASE CancelJob(x)
  <2>1. /\ job[x].status # "none"
        /\ \/ Reindex(Closed(x, "CANCELLED"), With(x, "CANCELED", "none"), mirror)
           \/ x \notin PaidJobs /\ job' = With(x, "CANCELED", "none") /\ UNCHANGED queueVars
    BY <1>5 DEF CancelJob, With, Live, Paused
  <2>2. QED
    BY <1>3, <2>1
<1>6. QED
  BY <1>2, <1>4, <1>5

\* What leaves the queue alone, and does not change whether a job is worked on,
\* is not seen.
LEMMA LineAlone ==
    ASSUME JobsInv, NEW x \in Jobs, row' = row, \A k \in Jobs \ {x} : job'[k] = job[k],
           Working(job'[x]) <=> Working(job[x]), job'[x].started = job[x].started
    PROVE  LineStep
<1>1. LineOf(row)' = LineOf(row)
  BY DEF LineOf, WaitingIn, Ahead
<1>2. Underway' = Underway
  BY WorkNow
<1>3. Customers' = Customers
  BY DEF Customers, Jobs
<1>4. QED
  BY <1>1, <1>2, <1>3, Unseen

\* Cases: a paused job keeps its place, and work that is paused is still the
\* provider's.
LEMMA LineCase ==
    ASSUME IInv, NEW x \in Jobs, PauseForCase(x) \/ RestoreBooking(x)
    PROVE  LineStep
<1>1. JobsInv /\ JobOK(job[x]) /\ job[x] \in JobType
  BY DEF IInv, JobsInv
<1>2. ASSUME NEW status \in Statuses, NEW before \in Statuses, job' = With(x, status, before), row' = row,
             \/ /\ status = "PAUSED" /\ before = job[x].status
                /\ job[x].status \in {"ACCEPTED", "ONGOING", "AWAITING_CONFIRMATION"}
             \/ status = job[x].before /\ before = "none" /\ job[x].status \in Paused
      PROVE  LineStep
  <2>1. /\ \A k \in Jobs \ {x} : job'[k] = job[k]
        /\ job'[x].status = status /\ job'[x].before = before /\ job'[x].started = job[x].started
    BY <1>1, <1>2, ChangedJobs
  <2>2. Working(job'[x]) <=> Working(job[x])
    BY <1>1, <1>2, <2>1 DEF Working, JobOK, Paused
  <2>3. QED
    BY <1>1, <1>2, <2>1, <2>2, LineAlone
<1>3. CASE PauseForCase(x)
  <2>1. /\ job' = With(x, "PAUSED", job[x].status) /\ row' = row
        /\ job[x].status \in {"ACCEPTED", "ONGOING", "AWAITING_CONFIRMATION"}
        /\ "PAUSED" \in Statuses /\ job[x].status \in Statuses
    BY <1>1, <1>3 DEF PauseForCase, With, queueVars, Statuses, Live, Paused
  <2>2. QED
    BY <1>2, <2>1
<1>4. CASE RestoreBooking(x)
  <2>1. /\ job' = With(x, job[x].before, "none") /\ row' = row
        /\ job[x].status \in Paused
        /\ "none" \in Statuses /\ job[x].before \in Statuses
    BY <1>1, <1>4 DEF RestoreBooking, With, queueVars, Statuses, JobType
  <2>2. QED
    BY <1>2, <2>1
<1>5. QED
  BY <1>3, <1>4

\* A cash booking does not start by being made or accepted.
LEMMA LineCash ==
    ASSUME IInv, NEW x \in CashJobs, DirectBooking(x)
    PROVE  LineStep
<1>1. JobsInv /\ x \in Jobs /\ JobOK(job[x]) /\ job[x] \in JobType
  BY DEF IInv, JobsInv, Jobs
<1>2. CASE \E s \in Seekers, source \in Sources : CreateCash(x, s, source)
  <2>1. PICK s \in Seekers, source \in Sources : CreateCash(x, s, source)
    BY <1>2
  <2>2. /\ job[x].status = "none" /\ row' = row
        /\ job' = [job EXCEPT ![x] = NewJob(s, source, IF source = "offer" THEN "ACCEPTED" ELSE "PENDING_APPROVAL")]
    BY <2>1 DEF CreateCash, queueVars
  <2>3. Moves(x, job') /\ ~Working(job'[x])
    BY <1>1, <2>2, NewJobs
  <2>4. ~Working(job[x]) /\ job[x].started = FALSE
    BY <1>1, <2>2 DEF Working, JobOK, Paused, JobType
  <2>5. job'[x].started = FALSE
    BY <1>1, <2>2 DEF JobsInv, NewJob
  <2>6. QED
    BY <1>1, <2>2, <2>3, <2>4, <2>5, LineAlone DEF Moves
<1>3. CASE RespondToDirectBooking(x)
  <2>1. PICK status \in {"ACCEPTED", "DECLINED"} : job' = WithStatus(x, status)
    BY <1>3 DEF RespondToDirectBooking, AcceptDirectBooking, DeclineDirectBooking, WithStatus
  <2>2. job[x].status = "PENDING_APPROVAL" /\ row' = row /\ status \in Statuses
    BY <1>3 DEF RespondToDirectBooking, AcceptDirectBooking, DeclineDirectBooking, queueVars, Statuses, Live
  <2>3. /\ \A k \in Jobs \ {x} : job'[k] = job[k]
        /\ job'[x].status = status /\ job'[x].before = job[x].before /\ job'[x].started = job[x].started
    BY <1>1, <2>1, <2>2, ChangedStatus
  <2>4. ~Working(job[x]) /\ ~Working(job'[x])
    BY <2>2, <2>3 DEF Working, Paused
  <2>5. QED
    BY <1>1, <2>2, <2>3, <2>4, LineAlone
<1>4. QED
  BY <1>2, <1>3 DEF DirectBooking

\* An admitted job joins the line behind everybody in it.
LEMMA LineAdmit ==
    ASSUME IInv, NEW x \in PaidJobs, NEW s \in Seekers, NEW source \in Sources, Admit(x, s, source)
    PROVE  LineStep
<1> DEFINE rows == [row EXCEPT ![x] = [status |-> "WAITING", position |-> NextPosition, wait |-> 0]]
           jobs == [job EXCEPT ![x] = NewJob(s, source, "ACCEPTED")]
           positions == [mirror EXCEPT ![x] = NextPosition]
<1>1. job[x].status = "none" /\ Reindex(rows, jobs, positions) /\ x \in Jobs
  BY DEF Admit, Jobs
<1>2. /\ RowsOK(row) /\ Compact(row) /\ JobsInv /\ mirror \in [PaidJobs -> Nat]
      /\ \A k \in ServingIn(row) : mirror[k] = 1
  BY DEF IInv, MirrorInv, Compact, ActiveIn
<1>3. row[x].status = "none" /\ x \notin WaitingIn(row)
  BY <1>1, <1>2 DEF JobsInv, Follows, WaitingIn
<1>4. /\ RowsOK(rows) /\ rows[x].status = "WAITING" /\ rows[x].position = NextPosition
      /\ \A k \in PaidJobs \ {x} : rows[k] = row[k]
      /\ WaitingIn(rows) = WaitingIn(row) \cup {x} /\ ServingIn(rows) = ServingIn(row)
      /\ \A k \in ActiveIn(row) : row[k].position < NextPosition
      /\ NextPosition \in Nat
  BY <1>2, <1>3, AdmittedRow
<1>5. positions \in [PaidJobs -> Nat] /\ \A k \in ServingIn(rows) : positions[k] = 1
  <2>1. x \notin ServingIn(row)
    BY <1>3 DEF ServingIn
  <2>2. QED
    BY <1>2, <1>4, <2>1
<1>6. /\ \A k \in Jobs \ {x} : jobs[k] = job[k]
      /\ ~Working(jobs[x]) /\ ~Working(job[x])
  BY <1>1, <1>2, NewJobs DEF Moves, Working, Paused
<1> HIDE DEF rows, jobs, positions
<1>7. /\ LineOf(row)' = LineOf(rows) /\ job' = jobs
      /\ \A j \in PaidJobs : row'[j].status = rows[j].status
  BY <1>1, <1>4, <1>5, LineAfter
<1>8. LineOf(rows) = [k \in WaitingIn(row) \cup {x} |-> IF k = x THEN WaitingIn(row) ELSE Ahead(row, k)]
  <2>1. \A k \in WaitingIn(row) : rows[k] = row[k] /\ row[k].position < NextPosition /\ row[k].position \in Nat
    BY <1>2, <1>3, <1>4 DEF WaitingIn, ActiveIn, RowsOK, RowType
  <2>2. Ahead(rows, x) = WaitingIn(row)
    BY <1>3, <1>4, <2>1 DEF Ahead
  <2>3. \A k \in WaitingIn(row) : Ahead(rows, k) = Ahead(row, k)
    BY <1>3, <1>4, <2>1 DEF Ahead
  <2>4. QED
    BY <1>3, <1>4, <2>2, <2>3 DEF LineOf
<1>9. x \notin Customers /\ Customers' = Customers \cup {x}
  <2>1. x \notin CashJobs /\ CashJobs \subseteq Jobs
    BY JobsAssumption DEF Jobs
  <2>2. \A c \in CashJobs : job'[c].started = job[c].started
    BY <1>6, <1>7, <2>1
  <2>3. \A j \in PaidJobs : row'[j].status # "none" <=> (j = x \/ row[j].status # "none")
    BY <1>4, <1>7
  <2>4. QED
    BY <1>3, <2>1, <2>2, <2>3 DEF Customers
<1>10. Underway' = Underway
  BY <1>1, <1>2, <1>6, <1>7, WorkNow
<1>11. Service!Join(x)
  BY <1>7, <1>8, <1>9, <1>10, LineNow DEF Service!Join, Service!Waiting
<1>12. QED
  BY <1>11 DEF LineStep, Service!Next

\* A job starts from the front of the line, or is a cash job and nobody waits.
LEMMA LineStart ==
    ASSUME IInv, StartCommit
    PROVE  LineStep
<1> DEFINE x == starting
<1>1. /\ x \in Jobs /\ Turn(x) /\ job' = Started(x)
      /\ IF x \in PaidJobs
         THEN Reindex([row EXCEPT ![x] = [status |-> "SERVING", position |-> 1, wait |-> 0]],
                      Started(x), [mirror EXCEPT ![x] = 1])
         ELSE UNCHANGED queueVars
  BY Zenon DEF StartCommit, Reindex
<1>2. RowsOK(row) /\ Compact(row) /\ MirrorInv /\ JobsInv /\ job \in [Jobs -> JobType]
  BY DEF IInv, JobsInv
<1>3. Ready(x) /\ \A k \in Jobs : ~Working(job[k])
  BY <1>1 DEF IInv, StartInv
<1> HIDE DEF x
<1>4. /\ \A k \in Jobs \ {x} : job'[k] = job[k]
      /\ job'[x].status = "ONGOING" /\ job'[x].started /\ ~job[x].started
  BY <1>1, <1>2, <1>3 DEF Started, Ready, JobType
<1>5. Underway = {} /\ Underway' = {x}
  <2>1. Working(job'[x])
    BY <1>4 DEF Working
  <2>2. QED
    BY <1>1, <1>2, <1>3, <1>4, <2>1, WorkNow
<1>6. CASE x \in PaidJobs
  <2> DEFINE rows == [row EXCEPT ![x] = [status |-> "SERVING", position |-> 1, wait |-> 0]]
             positions == [mirror EXCEPT ![x] = 1]
  <2>1. x \in WaitingIn(row) /\ Ahead(row, x) = {} /\ ServingIn(row) = {}
    BY <1>1, <1>3, <1>6 DEF Ready, Turn, WaitingIn
  <2>2. /\ RowsOK(rows) /\ rows[x].status = "SERVING" /\ \A k \in PaidJobs \ {x} : rows[k] = row[k]
        /\ ServingIn(rows) = {x} /\ WaitingIn(rows) = WaitingIn(row) \ {x}
    BY <1>2, <2>1, StartedRow
  <2>3. positions \in [PaidJobs -> Nat] /\ \A k \in ServingIn(rows) : positions[k] = 1
    BY <1>2, <1>6, <2>2 DEF MirrorInv
  <2>4. Reindex(rows, Started(x), positions)
    BY <1>1, <1>6
  <2> HIDE DEF rows, positions
  <2>5. LineOf(row)' = LineOf(rows) /\ \A j \in PaidJobs : row'[j].status = rows[j].status
    BY <2>2, <2>3, <2>4, LineAfter
  <2>6. LineOf(row)' = [k \in WaitingIn(row) \ {x} |-> Ahead(row, k) \ {x}]
    BY <2>2, <2>5, LineWithout
  <2>7. Customers' = Customers
    <3>1. x \notin CashJobs /\ CashJobs \subseteq Jobs
      BY <1>6, JobsAssumption DEF Jobs
    <3>2. \A c \in CashJobs : job'[c].started = job[c].started
      BY <1>4, <3>1
    <3>3. \A j \in PaidJobs : row'[j].status = "none" <=> row[j].status = "none"
      BY <2>1, <2>2, <2>5 DEF WaitingIn
    <3>4. QED
      BY <3>2, <3>3, CustomersKept
  <2>8. Service!Serve(x)
    BY <1>5, <2>1, <2>6, <2>7, LineNow DEF Service!Serve, Service!Waiting, Service!Without
  <2>9. QED
    BY <1>6, <2>8 DEF LineStep, Service!Next
<1>7. CASE x \notin PaidJobs
  <2>1. row' = row /\ WaitingIn(row) = {} /\ x \in CashJobs
    BY <1>1, <1>7 DEF queueVars, Turn, Jobs
  <2>2. LineOf(row)' = LineOf(row)
    BY <2>1 DEF LineOf, WaitingIn, Ahead
  <2>3. x \notin Customers /\ Customers' = Customers \cup {x}
    <3>1. \A c \in CashJobs : c = x \/ job'[c].started = job[c].started
      BY <1>4 DEF Jobs
    <3>2. QED
      BY <1>4, <1>7, <2>1, <3>1 DEF Customers
  <2>4. Service!ServeCash(x)
    BY <1>5, <2>1, <2>2, <2>3, LineNow DEF Service!ServeCash, Service!Waiting
  <2>5. QED
    BY <2>1, <2>4 DEF LineStep, Service!Next
<1>8. QED
  BY <1>6, <1>7

\* A recalculation alone is not seen: it keeps the order.
LEMMA LineCapacity ==
    ASSUME IInv, NEW n, SetProviderWorkloadCapacity(n)
    PROVE  LineStep
<1>1. /\ Reindex(row, job, mirror) /\ RowsOK(row)
      /\ mirror \in [PaidJobs -> Nat] /\ \A k \in ServingIn(row) : mirror[k] = 1
  BY DEF SetProviderWorkloadCapacity, IInv, MirrorInv, Compact, ActiveIn
<1>2. LineOf(row)' = LineOf(row) /\ job' = job /\ \A j \in PaidJobs : row'[j].status = row[j].status
  BY <1>1, LineAfter
<1>3. Underway' = Underway
  BY <1>2 DEF Underway, AtWork
<1>4. Customers' = Customers
  BY <1>2, CustomersKept
<1>5. QED
  BY <1>2, <1>3, <1>4, Unseen

\* Every step is a step of the line, or is not seen.
LEMMA LineSteps == IInv /\ [Next]_vars => LineStep
<1> SUFFICES ASSUME IInv, [Next]_vars PROVE LineStep
  OBVIOUS
<1>1. ASSUME NEW s \in Seekers, NEW source \in Sources, NEW j \in PaidJobs, Admit(j, s, source) PROVE LineStep
  BY <1>1, LineAdmit
<1>2. ASSUME NEW j \in CashJobs, DirectBooking(j) PROVE LineStep
  BY <1>2, LineCash
<1>3. ASSUME UNCHANGED <<job, queueVars>> PROVE LineStep
  <2>1. job' = job /\ row' = row
    BY <1>3 DEF queueVars
  <2>2. LineOf(row)' = LineOf(row) /\ Underway' = Underway /\ Customers' = Customers
    BY <2>1 DEF LineOf, WaitingIn, Ahead, Underway, AtWork, Customers
  <2>3. QED
    BY <2>2, Unseen
<1>4. ASSUME NEW j \in Jobs, JobStep(j) PROVE LineStep
  <2>1. CASE StartCheck(j)
    BY <1>3, <2>1 DEF StartCheck
  <2>2. QED
    BY <1>4, <2>1, LineEnd, LineCase DEF JobStep
<1>5. CASE StartCommit
  BY <1>5, LineStart
<1>6. ASSUME NEW n \in 1 .. MaxLimit, SetProviderWorkloadCapacity(n) PROVE LineStep
  BY <1>6, LineCapacity
<1>7. ASSUME NEW s \in Seekers, (\E l \in Listings : JoinRead(s, l)) \/ JoinCommit(s) \/ JoinRefused(s) PROVE LineStep
  <2>1. UNCHANGED <<job, queueVars>>
    BY <1>7, Zenon DEF JoinRead, JoinCommit, JoinRefused
  <2>2. QED
    BY <1>3, <2>1
<1>8. ASSUME NEW l \in Listings, DeleteCheck(l) \/ DeleteCommit(l) PROVE LineStep
  <2>1. UNCHANGED <<job, queueVars>>
    BY <1>8, Zenon DEF DeleteCheck, DeleteCommit
  <2>2. QED
    BY <1>3, <2>1
<1>9. CASE StartAborted \/ ChangeMembership \/ UNCHANGED vars
  <2>1. UNCHANGED <<job, queueVars>>
    BY <1>9, Zenon DEF StartAborted, ChangeMembership, vars
  <2>2. QED
    BY <1>3, <2>1
<1>10. QED
  BY <1>1, <1>2, <1>4, <1>5, <1>6, <1>7, <1>8, <1>9, Zenon DEF Next

\* At first nobody is in the line, at work, or has been.
LEMMA LineInit == Init => Service!Init
<1> SUFFICES ASSUME Init PROVE Service!Init
  OBVIOUS
<1>1. /\ \A j \in Jobs : job[j] = NoJob
      /\ \A j \in PaidJobs : row[j] = NoRow
  BY DEF Init
<1>2. WaitingIn(row) = {}
  BY <1>1 DEF WaitingIn, NoRow
<1>3. LineOf(row) = [j \in {} |-> {}]
  BY <1>2 DEF LineOf
<1>4. Underway = {}
  BY <1>1 DEF Underway, AtWork, NoJob, Paused
<1>5. Customers = {}
  BY <1>1 DEF Customers, NoJob, NoRow, Jobs
<1>6. QED
  BY <1>3, <1>4, <1>5 DEF Service!Init

\* The provider's queue implements Line: paid customers are served one at a time
\* in the order in which their payments admitted them, each is in the line
\* once, and no cash job starts while one of them waits, for any number of jobs
\* and however cases, cancellations and refunds interleave.
THEOREM ServesInOrder == Spec => ImplementsLine
<1>1. IInv /\ [Next]_vars => [Service!Next]_(Service!lineVars)
  BY LineSteps DEF LineStep
<1>2. QED
  BY <1>1, LineInit, QueueInvariant, PTL DEF Spec, ImplementsLine, Service!Spec
=============================================================================
