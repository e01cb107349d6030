------------------------------- MODULE Lapjv -------------------------------
(***************************************************************************)
(* linearAssignment and execLapjv (BYTETracker.cpp) and lapjv_internal     *)
(* (lapjv.cpp): the Jonker-Volgenant algorithm by which the tracker gives  *)
(* detections to tracks.  execLapjv puts the table of costs into the upper *)
(* left corner of a square one, with half the limit beside and below it,   *)
(* where a row or column that stays alone finds its partner.               *)
(*   start, transfer : _ccrrt_dense, column reduction, reduction transfer  *)
(*   reduce          : _carr_dense, augmenting row reduction, two rounds   *)
(*   path, scan      : find_path_dense, a shortest augmenting path         *)
(*   flip            : _ca_dense, the assignment along the path            *)
(* free_rows is one array, read at its front (current) while it is written *)
(* in place (new_free_rows).  Costs are whole numbers.                     *)
(***************************************************************************)
EXTENDS Integers, FiniteSets, FiniteSetsExt

CONSTANTS
  MaxRows, MaxCols, MaxSize,  \* shapes of tables to try: rows, columns, their sum
  Costs,                      \* values of 1 - IoU
  HalfLimit                   \* half of the threshold of the association

ASSUME LapjvAssumption ==
  /\ MaxRows \in Nat /\ MaxCols \in Nat /\ MaxSize \in Nat
  /\ Costs \subseteq Nat /\ HalfLimit \in Nat

None == -1

VARIABLES
  rows, cols,                 \* shape of the cost table; n is their sum
  cost,                       \* the extended table
  pc,
  x, y, v,                    \* column of a row, row of a column, column prices
  row,                        \* row loop of the reduction transfer
  free, nFree, current, new,  \* free_rows and its three marks
  rr, round,                  \* steps and rounds of the row reduction
  pending,                    \* first free row still without a path
  d, pred, ready, scanning,   \* distances, predecessors, scanned columns, SCAN list
  at, flips,                  \* column and counter of the loop along the path
  answer                      \* what linearAssignment returns

shape == <<rows, cols, cost>>
duals == <<x, y, v>>
list == <<free, nFree, current, new, rr, round>>
search == <<d, pred, ready, scanning>>
lapjvVars == <<shape, pc, duals, row, list, pending, search, at, flips, answer>>

n == rows + cols
Index == 0..(n - 1)

\* execLapjv: the corner, the bands of half the limit, and zeros opposite the corner.
Extend(t, r, c) ==
  [i \in 0..(r + c - 1) |-> [j \in 0..(r + c - 1) |->
     IF i < r /\ j < c THEN t[i][j] ELSE IF i >= r /\ j >= c THEN 0 ELSE HalfLimit]]

LapjvInit ==
  /\ rows \in 0..MaxRows /\ cols \in 0..MaxCols /\ n <= MaxSize
  /\ \E t \in [0..(rows - 1) -> [0..(cols - 1) -> Costs]] : cost = Extend(t, rows, cols)
  /\ pc = "start"
  /\ x = [i \in Index |-> None] /\ y = [i \in Index |-> None] /\ v = [i \in Index |-> 0]
  /\ row = 0
  /\ free = [i \in Index |-> 0] /\ nFree = 0 /\ current = 0 /\ new = 0 /\ rr = 0 /\ round = 0
  /\ pending = 0
  /\ d = [i \in Index |-> 0] /\ pred = [i \in Index |-> 0] /\ ready = {} /\ scanning = {}
  /\ at = 0 /\ flips = 0
  /\ answer = {}

\* Cost of a column for row i after the price.
Price(i, j) == cost[i][j] - v[j]

Least(S, f) == CHOOSE a \in S : \A b \in S : f[a] < f[b] \/ (f[a] = f[b] /\ a <= b)

(* linearAssignment: what becomes of the assignment ----------------------- *)

\* Slip: the cut is one column too wide.
ResultWide ==
  LET rowsol == [i \in 0..(rows - 1) |-> IF x[i] > cols THEN None ELSE x[i]]
      colsol == [j \in 0..(cols - 1) |-> IF y[j] >= rows THEN None ELSE y[j]]
  IN  [matches     |-> {<<i, rowsol[i]>> : i \in {k \in DOMAIN rowsol : rowsol[k] >= 0}},
       a_unmatched |-> {i \in DOMAIN rowsol : rowsol[i] < 0},
       b_unmatched |-> {j \in DOMAIN colsol : colsol[j] < 0}]

\* execLapjv cuts the extension off both solutions; linearAssignment lists the pairs and
\* the lonely rows from the one, the lonely columns from the other.
Result ==
  LET rowsol == [i \in 0..(rows - 1) |-> IF x[i] >= cols THEN None ELSE x[i]]
      colsol == [j \in 0..(cols - 1) |-> IF y[j] >= rows THEN None ELSE y[j]]
  IN  [matches     |-> {<<i, rowsol[i]>> : i \in {k \in DOMAIN rowsol : rowsol[k] >= 0}},
       a_unmatched |-> {i \in DOMAIN rowsol : rowsol[i] < 0},
       b_unmatched |-> {j \in DOMAIN colsol : colsol[j] < 0}]

\* An empty table is not solved: all are unmatched.
Empty ==
  /\ pc = "start" /\ (rows = 0 \/ cols = 0)
  /\ answer' = {[matches |-> {}, a_unmatched |-> 0..(rows - 1), b_unmatched |-> 0..(cols - 1)]}
  /\ pc' = "done"
  /\ UNCHANGED <<shape, duals, row, list, pending, search, at, flips>>

Finish ==
  /\ pc = "solved"
  /\ answer' = {Result}
  /\ pc' = "done"
  /\ UNCHANGED <<shape, duals, row, list, pending, search, at, flips>>

(* _ccrrt_dense ------------------------------------------------------------ *)

\* The row of the least cost in a column, the first of several.
LeastRow(j) == Least(Index, [i \in Index |-> cost[i][j]])

Won(i) == {j \in Index : LeastRow(j) = i}

ColumnReduce ==
  /\ pc = "start" /\ rows > 0 /\ cols > 0
  /\ v' = [j \in Index |-> cost[LeastRow(j)][j]]
  /\ x' = [i \in Index |-> IF Won(i) = {} THEN None ELSE Max(Won(i))]
  /\ y' = [j \in Index |-> IF j = Max(Won(LeastRow(j))) THEN LeastRow(j) ELSE None]
  /\ pc' = "transfer"
  /\ UNCHANGED <<shape, row, list, pending, search, at, flips, answer>>

\* A row that won a single column lowers its price by what the next best would cost more.
Transfer(i) ==
  IF Cardinality(Won(i)) = 1
  THEN v' = [v EXCEPT ![x[i]] = @ - Min({Price(i, j) : j \in Index \ {x[i]}})]
  ELSE v' = v

Listed(i) == free' = [free EXCEPT ![nFree] = i] /\ nFree' = nFree + 1

TransferRow ==
  /\ pc = "transfer" /\ row < n
  /\ \/ x[row] < 0 /\ Listed(row) /\ UNCHANGED v
     \/ x[row] >= 0 /\ Transfer(row) /\ UNCHANGED <<free, nFree>>
  /\ row' = row + 1
  /\ UNCHANGED <<shape, pc, x, y, current, new, rr, round, pending, search, at, flips, answer>>

TransferEnd ==
  /\ pc = "transfer" /\ row = n
  /\ pc' = IF nFree > 0 THEN "reduce" ELSE "solved"
  /\ UNCHANGED <<shape, duals, row, list, pending, search, at, flips, answer>>

(* _carr_dense ------------------------------------------------------------- *)

\* Slip: the displaced row is put back where it was read, without going back.
PutBackHere(i) == free' = [free EXCEPT ![current] = i] /\ current' = current + 1 /\ new' = new

\* The displaced row is the next to be reduced, or waits for the next round.
PutBack(i) == free' = [free EXCEPT ![current] = i] /\ current' = current /\ new' = new

PutOff(i) == free' = [free EXCEPT ![new] = i] /\ new' = new + 1 /\ current' = current + 1

\* The free row takes its cheapest column, after lowering that column's price to the second
\* cheapest; of two equally cheap ones it takes the second if the first is taken.  After
\* too many steps prices are left alone.
ReduceRow ==
  /\ pc = "reduce" /\ current < nFree
  /\ LET i == free[current]
         p == [j \in Index |-> Price(i, j)]
         first == Least(Index, p)
         second == Least(Index \ {first}, p)
         in_time == rr + 1 < (current + 1) * n
         lowers == p[second] > p[first]
         j1 == IF in_time /\ ~ lowers /\ y[first] >= 0 THEN second ELSE first
         i0 == y[j1]
     IN  /\ v' = IF in_time /\ lowers THEN [v EXCEPT ![first] = @ - (p[second] - p[first])] ELSE v
         /\ x' = [x EXCEPT ![i] = j1]
         /\ y' = [y EXCEPT ![j1] = i]
         /\ \/ i0 < 0 /\ current' = current + 1 /\ UNCHANGED <<free, new>>
            \/ i0 >= 0 /\ in_time /\ lowers /\ PutBack(i0)
            \/ i0 >= 0 /\ ~ (in_time /\ lowers) /\ PutOff(i0)
  /\ rr' = rr + 1
  /\ UNCHANGED <<shape, pc, row, nFree, round, pending, search, at, flips, answer>>

ReduceEnd ==
  /\ pc = "reduce" /\ current = nFree
  /\ nFree' = new /\ current' = 0 /\ new' = 0 /\ rr' = 0 /\ round' = round + 1
  /\ pc' = IF new = 0 THEN "solved" ELSE IF round = 0 THEN "reduce" ELSE "path"
  /\ UNCHANGED <<shape, duals, row, free, pending, search, at, flips, answer>>

(* find_path_dense ---------------------------------------------------------- *)

\* The columns not yet on the SCAN list, in whatever order.
Todo == Index \ (ready \cup scanning)

\* Where the tree of shortest paths is rooted.
Root == free[pending]

PathStart ==
  /\ pc = "path" /\ pending < nFree
  /\ d' = [j \in Index |-> Price(Root, j)]
  /\ pred' = [j \in Index |-> Root]
  /\ ready' = {} /\ scanning' = {}
  /\ pc' = "find"
  /\ UNCHANGED <<shape, duals, row, list, pending, at, flips, answer>>

PathEnd ==
  /\ pc = "path" /\ pending = nFree
  /\ pc' = "solved"
  /\ UNCHANGED <<shape, duals, row, list, pending, search, at, flips, answer>>

Nearest == {j \in Todo : \A k \in Todo : d[j] <= d[k]}

\* A free column ends the search; prices of the columns left behind go up by how much
\* nearer they are.
Reach(j, mind) ==
  /\ at' = j
  /\ v' = [k \in Index |-> IF k \in ready THEN v[k] + d[k] - mind ELSE v[k]]
  /\ flips' = 0
  /\ pc' = "flip"

\* _find_dense: the nearest columns are the next to scan.
FindFree ==
  /\ pc = "find"
  /\ \E j \in Nearest : y[j] < 0 /\ Reach(j, d[j])
  /\ scanning' = Nearest
  /\ UNCHANGED <<shape, x, y, row, list, pending, d, pred, ready, answer>>

Find ==
  /\ pc = "find"
  /\ \A j \in Nearest : y[j] >= 0
  /\ scanning' = Nearest
  /\ pc' = "scan"
  /\ UNCHANGED <<shape, duals, row, list, pending, d, pred, ready, at, flips, answer>>

\* Distance of column k by way of the scanned column j and its row.
Through(j, k) == Price(y[j], k) - (Price(y[j], j) - d[j])

\* _scan_dense, for one column of the SCAN list: it shortens the way to others, and puts
\* those it brings as near as itself on the list.
Nearer(j) == {k \in Todo : Through(j, k) < d[k]}

Shorten(j) ==
  /\ d' = [k \in Index |-> IF k \in Nearer(j) THEN Through(j, k) ELSE d[k]]
  /\ pred' = [k \in Index |-> IF k \in Nearer(j) THEN y[j] ELSE pred[k]]

Joining(j) == {k \in Nearer(j) : Through(j, k) = d[j]}

ScanFree ==
  /\ pc = "scan"
  /\ \E j \in scanning :
       /\ \E k \in Joining(j) : y[k] < 0 /\ Reach(k, d[j])
       /\ Shorten(j)
  /\ UNCHANGED <<shape, x, y, row, list, pending, ready, scanning, answer>>

Scan ==
  /\ pc = "scan"
  /\ \E j \in scanning :
       /\ \A k \in Joining(j) : y[k] >= 0
       /\ Shorten(j)
       /\ ready' = ready \cup {j}
       /\ scanning' = (scanning \ {j}) \cup Joining(j)
  /\ pc' = IF scanning' = {} THEN "find" ELSE "scan"
  /\ UNCHANGED <<shape, duals, row, list, pending, at, flips, answer>>

(* _ca_dense ---------------------------------------------------------------- *)

\* One step back along the path: the column goes to the row it was reached from, and that
\* row's old column is next.  A path through all rows is taken for an error.
Flip ==
  /\ pc = "flip"
  /\ LET i == pred[at]
     IN  /\ y' = [y EXCEPT ![at] = i]
         /\ x' = [x EXCEPT ![i] = at]
         /\ at' = x[i]
         /\ flips' = flips + 1
         /\ \/ flips + 1 >= n /\ pc' = "thrown" /\ UNCHANGED pending
            \/ flips + 1 < n /\ i = Root /\ pc' = "path" /\ pending' = pending + 1
            \/ flips + 1 < n /\ i # Root /\ pc' = "flip" /\ UNCHANGED pending
  /\ UNCHANGED <<shape, v, row, list, search, answer>>

-----------------------------------------------------------------------------

LapjvNext ==
  \/ Empty \/ ColumnReduce \/ TransferRow \/ TransferEnd
  \/ ReduceRow \/ ReduceEnd
  \/ PathStart \/ PathEnd \/ FindFree \/ Find \/ ScanFree \/ Scan
  \/ Flip
  \/ Finish

\* A call runs to its end.
LapjvSpec == LapjvInit /\ [][LapjvNext]_lapjvVars /\ WF_lapjvVars(LapjvNext)

-----------------------------------------------------------------------------
Settled == {"reduce", "path", "find", "scan", "solved", "done"}

Waiting == {free[k] : k \in (IF pc = "transfer" THEN 0..(nFree - 1)
                            ELSE IF pc = "reduce" THEN (0..(new - 1)) \cup (current..(nFree - 1))
                            ELSE IF pc \in {"path", "find", "scan"} THEN pending..(nFree - 1)
                            ELSE {})}

Assigned == {y[j] : j \in {k \in Index : y[k] >= 0}}

\* free_rows is overwritten in place while it is read: no row is lost, or listed although
\* it has a column.  Rows and columns of the assignment agree.
RowsKept ==
  /\ pc \in {"start", "transfer"} => row \in 0..n
  /\ pc = "reduce" => new <= current /\ current <= nFree
  /\ pc \in Settled => \A j \in Index : y[j] >= 0 => x[y[j]] = j
  /\ pc \in Settled /\ rows > 0 /\ cols > 0 =>
       Waiting \cap Assigned = {} /\ Waiting \cup Assigned = Index

\* A row never has a column that is dearer, after the price, than another.
PricesFair ==
  pc \notin {"start", "thrown"} =>
    \A j, k \in Index : y[j] >= 0 => Price(y[j], j) <= Price(y[j], k)

(***************************************************************************)
(* What every phase keeps and the next relies on.  The rows: while one     *)
(* array serves as the list of free rows that is read and as the one that  *)
(* is written, every row waits on it or has a column that knows it, so     *)
(* that linearAssignment, which reads the pairs from x and the lonely      *)
(* columns from y, never gives a detection to a track and starts a new     *)
(* track with it as well.  The prices: each of the phases changes them in  *)
(* its own way, and fair prices are what makes the answer one of least     *)
(* cost.                                                                   *)
(***************************************************************************)
LapjvInv == RowsKept /\ PricesFair

Matching == INSTANCE OptimalMatching
              WITH tracks <- 0..(rows - 1), detections <- 0..(cols - 1), distance <- cost

(***************************************************************************)
(* Every call of linearAssignment ends, without the error for a path that  *)
(* is too long (which would end the program), and answers with a matching  *)
(* of least weight under the limit, and with exactly the others as         *)
(* unmatched.                                                              *)
(***************************************************************************)
Matches == Matching!Spec
=============================================================================
