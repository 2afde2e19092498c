-------------------------------- MODULE Media --------------------------------
(***************************************************************************)
(* What is read from a statement that a student sends: media/office.py     *)
(* lays out the cells of a sheet, media/numbers.py reads the numbers,      *)
(* media/statement.py counts the trades and media/review.py answers with   *)
(* them, without a model.                                                  *)
(*                                                                         *)
(* Amounts are integers (cents).  The profit factor is kept in thousandths *)
(* and a draw-down in hundredths of a percent, the digits that the code    *)
(* keeps; where a quotient lies half-way, the error of the floating-point  *)
(* division decides to which side it is rounded, so either may happen.     *)
(***************************************************************************)
EXTENDS Integers, SequencesExt

CONSTANTS Tables,      \* tables of a statement: sequences of rows
          Footers,     \* rows that the terminal adds: totals, other sections
          Summaries,   \* what a report prints of itself; its figures may be missing
          CellRows,    \* rows of a spreadsheet: sequences of <<column, text>>
          MaxColumns,  \* MAX_COLUMNS
          Cents,       \* amounts that are written in several ways
          NoNumber     \* None: a cell or a measure without a number

(* None is not a number, a row has a profit or None, a footer is no trade  *)
(* and no balance, and a sheet has the cells of a row in their order.      *)
TableRows == UNION {Range(rows) : rows \in Tables}

ASSUME MediaAssumption ==
  /\ MaxColumns \in Nat /\ Cents \subseteq Nat
  /\ NoNumber \notin Int /\ NoNumber \notin Int \X Int
  /\ Tables \subseteq Seq(TableRows)
  /\ \A r \in TableRows : r.profit \in Int \union {NoNumber} /\ r.extra \in Int
  /\ \A f \in Footers : f.type \notin {"trade", "balance"}
  /\ \A s \in Summaries :
       /\ s.factor \in (Nat \X (Nat \ {0})) \union {NoNumber}
       /\ s.profit \in Nat \union {NoNumber} /\ s.loss \in Int \union {NoNumber}
       /\ s.worst \in Int \union {NoNumber} /\ s.share \in Int \union {NoNumber}
       /\ s.trades \in Nat /\ s.wins \in Nat /\ s.losses \in Nat
  /\ \A cells \in CellRows :
       /\ Len(cells) \in Nat /\ DOMAIN cells = 1..Len(cells)
       /\ \A k \in DOMAIN cells : cells[k][1] \in Nat
       /\ \A k \in 2..Len(cells) : cells[k - 1][1] < cells[k][1]

VARIABLE reading       \* the case that is looked at
mediaVars == <<reading>>

------------------------------------------------------------------------------
(* numbers.parse_number on <<sign, groups, separators>>: runs of digits    *)
(* <<value, width>> and the marks between them.  Results in hundredths.    *)
TenTo == <<10, 100, 1000, 10000, 100000, 1000000>>

Glue(groups) ==
  LET number[k \in 0..Len(groups)] ==
        IF k = 0 THEN 0 ELSE number[k - 1] * TenTo[groups[k][2]] + groups[k][1]
  IN  number[Len(groups)]

Scaled(groups, width) ==
  IF width < 2 THEN Glue(groups) * TenTo[2 - width]
  ELSE IF width = 2 THEN Glue(groups)
  ELSE Glue(groups) \div TenTo[width - 2]

ParseNumber(text) ==
  LET marks    == Range(text.marks)
      last     == text.marks[Len(text.marks)]
      tail     == text.groups[Len(text.groups)][2]
      points   == Cardinality({k \in DOMAIN text.marks : text.marks[k] = "point"})
      commas   == Len(text.marks) - points
      ofLast   == IF last = "point" THEN points ELSE commas
      \* where the code finds a decimal mark, and how often it then occurs
      decimal  == IF marks = {"point", "comma"} THEN ofLast
                  ELSE IF marks = {"point"} THEN points
                  ELSE IF commas = 1 /\ tail \in 1..2 THEN 1 ELSE 0
      signed(n) == IF text.negative THEN -n ELSE n
  IN  IF decimal > 1 THEN NoNumber
      ELSE signed(Scaled(text.groups, IF decimal = 1 THEN tail ELSE 0))

(* How terminals write an amount of cents *)
Thousands(whole) ==
  LET groups[n \in 0..whole] ==
        IF n < 1000 THEN <<<<n, 3>>>> ELSE Append(groups[n \div 1000], <<n % 1000, 3>>)
  IN  groups[whole]
Spelled(n, group, point, negative) ==
  LET whole == IF group = "none" THEN <<<<n \div 100, 6>>>> ELSE Thousands(n \div 100)
  IN  [negative |-> negative,
       groups   |-> whole \o <<<<n % 100, 2>>>>,
       marks    |-> [k \in 1..(Len(whole) - 1) |-> group] \o <<point>>]

NumberStyles == {<<"comma", "point">>, <<"point", "comma">>, <<"none", "point">>, <<"none", "comma">>}

------------------------------------------------------------------------------
(* office.read_xlsx: empty cells are not in the file, so the column comes  *)
(* from the cell's reference; one that has none is written 0.              *)
EmptyCell == ""
Padded(row, index) ==
  row \o [k \in 1..(IF Len(row) < index THEN index - Len(row) ELSE 0) |-> EmptyCell]
Laid(row, cell) ==
  IF cell[1] >= MaxColumns THEN row ELSE Append(Padded(row, cell[1]), cell[2])
LayOut(cells) ==
  LET row[k \in 0..Len(cells)] == IF k = 0 THEN <<>> ELSE Laid(row[k - 1], cells[k])
  IN  row[Len(cells)]

------------------------------------------------------------------------------
(* statement._classify, under a header with or without a column of types *)
IsNumber(row) == row.profit # NoNumber
Kind(row, typed) ==
  IF ~IsNumber(row) THEN "skipped"
  ELSE IF typed /\ row.type = "balance" THEN "balance"
  ELSE IF typed /\ row.type # "trade" THEN "skipped"
  ELSE "trade"

(* The rows at some places, in their order *)
Chosen(rows, places) ==
  LET kept[k \in 0..Len(rows)] ==
        IF k = 0 THEN <<>>
        ELSE IF k \in places THEN Append(kept[k - 1], rows[k]) ELSE kept[k - 1]
  IN  kept[Len(rows)]

Net(row) == row.profit + row.extra
Trades(rows, typed) == Chosen(rows, {k \in DOMAIN rows : Kind(rows[k], typed) = "trade"})

(* The sums of the first rows *)
Sums(seq) ==
  LET sum[k \in 0..Len(seq)] == IF k = 0 THEN 0 ELSE sum[k - 1] + Net(seq[k])
  IN  sum
Total(seq) == Sums(seq)[Len(seq)]

(* The first positive movement of money, or none *)
Deposit(rows, typed) ==
  LET paid == {k \in DOMAIN rows : Kind(rows[k], typed) = "balance" /\ rows[k].profit > 0}
  IN  IF paid = {} THEN NoNumber ELSE rows[Min(paid)].profit

(* _drawdown: the worst fall from a peak, as an amount and as a fraction *)
Greater(p, q) == IF p[1] * q[2] > q[1] * p[2] THEN p ELSE q
Larger(m, n) == IF m > n THEN m ELSE n

\* Fault: the peak is the first deposit.
FallFromStart(acc, row) ==
  LET equity == acc.equity + Net(row)
  IN  [equity |-> equity, peak |-> acc.peak, worst |-> Larger(acc.worst, acc.peak - equity),
       share |-> IF acc.peak > 0 THEN Greater(<<acc.peak - equity, acc.peak>>, acc.share) ELSE acc.share]

Fall(acc, row) ==
  LET equity == acc.equity + Net(row)
      peak   == Larger(acc.peak, equity)
  IN  [equity |-> equity, peak |-> peak, worst |-> Larger(acc.worst, peak - equity),
       share |-> IF peak > 0 THEN Greater(<<peak - equity, peak>>, acc.share) ELSE acc.share]

Drawdown(rows, initial) ==
  LET first == IF initial = NoNumber THEN 0 ELSE initial
      at[k \in 0..Len(rows)] ==
        IF k = 0 THEN [equity |-> first, peak |-> first, worst |-> 0, share |-> <<0, 1>>]
        ELSE Fall(at[k - 1], rows[k])
  IN  [worst |-> at[Len(rows)].worst,
       share |-> IF initial = NoNumber THEN NoNumber ELSE at[Len(rows)].share]

(* round: the nearest integer to n / d; a tie rises or falls *)
Nearest(n, d, rises) == (2 * n + d - (IF rises THEN 0 ELSE 1)) \div (2 * d)

FactorOf(profit, loss, ties) == Nearest(1000 * profit, loss, "factor" \in ties)
ShareOf(share, ties)         == Nearest(10000 * share[1], share[2], "fall" \in ties)

(* analyse_tables from the rows; a table without a trade is no statement *)
Counted(report) ==
  LET trades == Trades(report.rows, report.typed)
      wins   == Chosen(trades, {k \in DOMAIN trades : Net(trades[k]) > 0})
      losses == Chosen(trades, {k \in DOMAIN trades : Net(trades[k]) < 0})
      fall   == Drawdown(trades, Deposit(report.rows, report.typed))
  IN  IF trades = <<>> THEN NoNumber ELSE
      [trades |-> Len(trades), wins |-> Len(wins), losses |-> Len(losses),
       profit |-> Total(wins), loss |-> -Total(losses),
       factor |-> IF Total(losses) < 0 THEN FactorOf(Total(wins), -Total(losses), report.ties)
                  ELSE NoNumber,
       worst  |-> fall.worst,
       share  |-> IF fall.share = NoNumber THEN NoNumber ELSE ShareOf(fall.share, report.ties)]

(* _from_summary: what a report prints of itself, if it prints a factor or *)
(* both gross amounts                                                      *)
HasSummary(s) == s.factor # NoNumber \/ (s.profit # NoNumber /\ s.loss # NoNumber)
Absolute(n) == IF n < 0 THEN -n ELSE n
AmountOr0(n) == IF n = NoNumber THEN 0 ELSE Absolute(n)

Printed(report) ==
  LET s == report.summary
  IN  [trades |-> s.trades, wins |-> s.wins, losses |-> s.losses,
       profit |-> AmountOr0(s.profit), loss |-> AmountOr0(s.loss),
       factor |-> IF s.factor # NoNumber THEN FactorOf(s.factor[1], s.factor[2], report.ties)
                  ELSE IF s.loss = 0 THEN NoNumber
                  ELSE FactorOf(s.profit, Absolute(s.loss), report.ties),
       worst  |-> s.worst, share |-> s.share]

(* analyse_tables: the report's own summary comes first *)
Metrics(report) == IF HasSummary(report.summary) THEN Printed(report) ELSE Counted(report)

(* review: what is said, the wording left out *)
Healthy(m) ==
  /\ m.factor = NoNumber \/ m.factor >= 1500
  /\ m.share = NoNumber \/ m.share < 1000

Says(m) ==
  {"greeting", "opening"}
    \union (IF m.wins + m.losses > 0 THEN {"numbers"} ELSE {})
    \union (IF m.factor # NoNumber THEN {"factor"} ELSE {})
    \union (IF m.share # NoNumber THEN {"fall"} ELSE {})
    \union (IF m.share # NoNumber /\ m.share >= 3000 THEN {"halt"} ELSE {})
    \union (IF Healthy(m) THEN {"handover", "praise"} ELSE {"question", "trust"})

(* _pick, by the number of the message *)
Pick(pool, seed) == pool[(seed % Len(pool)) + 1]

------------------------------------------------------------------------------
MediaInit == reading = [of |-> "nothing"]

ReadStatement ==
  \E rows \in Tables, typed \in BOOLEAN, summary \in Summaries, footer \in Footers,
     ties \in SUBSET {"factor", "fall"} :
    reading' = [of |-> "statement", rows |-> rows, typed |-> typed, summary |-> summary,
                footer |-> footer, ties |-> ties]

ReadSheet == \E cells \in CellRows : reading' = [of |-> "sheet", cells |-> cells]

ReadNumber ==
  \E n \in Cents, style \in NumberStyles, negative \in BOOLEAN :
    reading' = [of |-> "number", amount |-> n, text |-> Spelled(n, style[1], style[2], negative)]

MediaNext ==
  /\ reading.of = "nothing"
  /\ ReadStatement \/ ReadSheet \/ ReadNumber

MediaSpec == MediaInit /\ [][MediaNext]_mediaVars

------------------------------------------------------------------------------
(* The curve of the account after k trades, and its height before a fall *)
Traded == Trades(reading.rows, reading.typed)
PaidIn == Deposit(reading.rows, reading.typed)
Equity(k) == (IF PaidIn = NoNumber THEN 0 ELSE PaidIn) + Sums(Traded)[k]
Peak(k)   == Max({Equity(j) : j \in 0..k})
Falls     == {<<Peak(k) - Equity(k), Peak(k)>> : k \in 0..Len(Traded)}

(* statement.py:298: the draw-down that is counted is the worst that the   *)
(* curve has seen, and praise or a halt is what the curve deserves: the    *)
(* path is called right only if the trades gained and no fall reached a    *)
(* tenth of its peak; a student is told to stop after every fall of 30% of *)
(* its peak, and after none below 29.995%, which the rounding makes 30%.   *)
AdviceFitsTheCurve ==
  reading.of = "statement" /\ ~HasSummary(reading.summary) /\ Traded # <<>> =>
    LET m == Metrics(reading)
    IN  /\ m.worst = Max({f[1] : f \in Falls})
        /\ "praise" \in Says(m) =>
             /\ Total(Traded) >= 0
             /\ PaidIn # NoNumber => \A f \in Falls : f[2] > 0 => 10 * f[1] < f[2]
        /\ "halt" \in Says(m) =>
             /\ "trust" \in Says(m)
             /\ PaidIn # NoNumber /\ \E f \in Falls : f[2] > 0 /\ 20000 * f[1] >= 5999 * f[2]
        /\ PaidIn # NoNumber /\ (\E f \in Falls : f[2] > 0 /\ 10 * f[1] >= 3 * f[2]) =>
             "halt" \in Says(m)

(* statement.py:271-272: the two ways to a profit factor give one number:  *)
(* where a report prints its gross amounts and no factor, the factor is    *)
(* the one that counting its rows gives.                                   *)
TwoPathsAgree ==
  reading.of = "statement" /\ Traded # <<>> /\ reading.summary.factor = NoNumber =>
    LET counted == Counted(reading)
    IN  reading.summary.profit = counted.profit
          /\ reading.summary.loss \in {counted.loss, -counted.loss} =>
            Metrics(reading).factor = counted.factor

(* statement.py:199-203: the totals that a terminal prints under the       *)
(* trades, and the rows of its other sections, change nothing.             *)
TotalsDoNotCount ==
  reading.of = "statement" /\ reading.typed =>
    Metrics([reading EXCEPT !.rows = Append(@, reading.footer)]) = Metrics(reading)

(* office.py:93: a cell stays in its column although the empty cells       *)
(* before it are not in the file (columns count from 0).                   *)
ColumnsStay ==
  reading.of = "sheet" =>
    LET row == LayOut(reading.cells)
    IN  /\ Len(row) <= MaxColumns
        /\ \A k \in DOMAIN reading.cells :
             reading.cells[k][1] < MaxColumns => row[reading.cells[k][1] + 1] = reading.cells[k][2]

(* numbers.py:23: an amount is read as it was meant, in whichever of the   *)
(* terminals' styles it is written, or not at all.                         *)
AmountsAreRead ==
  reading.of = "number" =>
    ParseNumber(reading.text) = IF reading.text.negative THEN -reading.amount ELSE reading.amount

ReadingIsSound ==
  AdviceFitsTheCurve /\ TwoPathsAgree /\ TotalsDoNotCount /\ ColumnsStay /\ AmountsAreRead

=============================================================================
