------------------------------ MODULE Golden1 ------------------------------
(***************************************************************************)
(* The pipeline, as a function of what it reads: the exports of one bank    *)
(* and the budget map are parsed, staged and built into the tables the API  *)
(* serves.  When it may run and what a failed run leaves is in Rebuild.     *)
(*                                                                         *)
(* What the exports mean is judged against the books of the bank, which    *)
(* the program never sees: an export is a part of the books, written the    *)
(* way its layout writes it.                                               *)
(***************************************************************************)
EXTENDS Integers, Sequences, SequencesExt, FiniteSetsExt

CONSTANTS
  Ledger,       \* account -> its transactions [date, amount, words], oldest first
  Opening,      \* account -> its balance before them
  Calendar,     \* date -> its [year, month, day, date]
  BudgetMaps,   \* the maps users save: sequences of [category, subCategory, label, match]
  CategorySK,   \* the hash of a <<category, subCategory>>, modulo 100000
  NULL,
  MaxFiles      \* bound: exports of one account

VARIABLES exports,    \* RawFile, by account, in the order of the file names
          budgetMap,  \* BudgetMapDocument
          staged      \* the tables of the last run that succeeded, or NULL

(* The books of an account are in order: a date is a number of days, and    *)
(* NULL is no amount.                                                      *)
ASSUME LedgerIsBooks ==
  /\ NULL \notin Int /\ IsFiniteSet(DOMAIN Ledger)
  /\ \A a \in DOMAIN Ledger :
       /\ Opening[a] \in Int
       /\ Ledger[a] \in Seq([date : Int, amount : Int, words : SUBSET STRING])
       /\ \A i, j \in DOMAIN Ledger[a] : i < j => Ledger[a][i].date <= Ledger[a][j].date

ASSUME MapsAreLists ==
  \A map \in BudgetMaps : /\ Len(map) \in Nat /\ DOMAIN map = 1..Len(map)
                          /\ \A i \in DOMAIN map : map[i].match # NULL

pipelineVars == <<exports, budgetMap, staged>>
Books(a, i) == Opening[a] + SumFunctionOnSet([j \in DOMAIN Ledger[a] |-> Ledger[a][j].amount], 1..i)

(***************************************************************************)
(* golden1_schema.py.  A description is the set of its words: a string      *)
(* match is contained in it, or is not.                                    *)
(***************************************************************************)
RowOrder == [v1 |-> "ascending", v2 |-> "descending"]

convention_for(version, a) ==
  IF a # "CreditCard" THEN [money |-> "cash_flow", balance |-> "asset"]
  ELSE IF version = "v1" THEN [money |-> "card_ledger", balance |-> "unstated"]
  ELSE [money |-> "cash_flow", balance |-> "debt"]

(* What the bank exports: transactions `from` to `to`.  v1 repeats the close *)
(* of a day on each of its rows, and knows no balance of the card; v2 is     *)
(* newest first and states the close once.                                  *)
ExportedRow(a, version, from, to, i) ==
  LET c == convention_for(version, a)
      t == Ledger[a][i]
      close == Max({j \in from..to : Ledger[a][j].date = t.date})
      Side(is) == IF ~is THEN NULL ELSE IF c.money = "card_ledger" THEN -t.amount ELSE t.amount
  IN [date |-> t.date, words |-> t.words, debit |-> Side(t.amount < 0), credit |-> Side(t.amount >= 0),
      balance |-> IF c.balance = "unstated" THEN 0
                  ELSE IF version = "v2" /\ i # close THEN NULL
                  ELSE IF c.balance = "debt" THEN -Books(a, i) ELSE Books(a, close)]

Export(a, version, from, to) ==
  LET rows == [k \in 1..(to - from + 1) |-> ExportedRow(a, version, from, to, from + k - 1)]
  IN [version |-> version, rows |-> IF version = "v1" THEN rows ELSE Reverse(rows)]

(***************************************************************************)
(* golden1.py.                                                             *)
(***************************************************************************)
Negate(x) == IF x = NULL THEN NULL ELSE -x
Money(r) == (IF r.debit = NULL THEN 0 ELSE r.debit) + (IF r.credit = NULL THEN 0 ELSE r.credit)

to_canonical_signs(r, c) ==
  [r EXCEPT !.debit = IF c.money = "card_ledger" THEN Negate(@) ELSE @,
            !.credit = IF c.money = "card_ledger" THEN Negate(@) ELSE @,
            !.balance = IF c.balance = "asset" THEN @
                        ELSE IF c.balance = "debt" THEN Negate(@) ELSE NULL]

(* The file is refused: its header is of no layout, a row has both a debit  *)
(* and a credit, or a file declared newest first is not.                    *)
Refused(file) ==
  \/ file.version \notin DOMAIN RowOrder
  \/ \E i \in DOMAIN file.rows : file.rows[i].debit # NULL /\ file.rows[i].credit # NULL
  \/ /\ RowOrder[file.version] = "descending"
     /\ \E i \in 2..Len(file.rows) : file.rows[i].date > file.rows[i - 1].date

normalize_file(a, file) ==
  LET rows == [i \in DOMAIN file.rows |->
                 to_canonical_signs(file.rows[i], convention_for(file.version, a))]
  IN IF RowOrder[file.version] = "descending" THEN Reverse(rows) ELSE rows

(* Variant: files are concatenated and not sorted. *)
Concatenated(rows) == rows

(* A stable sort by date: a row comes after those of an earlier date, and   *)
(* after those of its date that were before it.                            *)
to_chronological_order(rows) ==
  LET Upto(i) == {j \in DOMAIN rows : rows[j].date < rows[i].date \/ (rows[j].date = rows[i].date /\ j <= i)}
  IN [n \in DOMAIN rows |-> rows[CHOOSE i \in DOMAIN rows : Cardinality(Upto(i)) = n]]

(* A balance that is not stated follows from the nearest one that is: the   *)
(* next, or the last.                                                      *)
fill_missing_balances(rows) ==
  LET money == [i \in DOMAIN rows |-> Money(rows[i])]
      Running(i) == SumFunctionOnSet(money, 1..i)
      stated == {i \in DOMAIN rows : rows[i].balance # NULL}
      Anchor(i) == IF \E j \in stated : j >= i THEN Min({j \in stated : j >= i}) ELSE Max(stated)
      Offset(i) == IF stated = {} THEN 0 ELSE rows[Anchor(i)].balance - Running(Anchor(i))
  IN [i \in DOMAIN rows |->
        [rows[i] EXCEPT !.balance = IF @ # NULL THEN @ ELSE Running(i) + Offset(i)]]

parse_transactions(a, files) ==
  LET rows == fill_missing_balances(to_chronological_order(
                FlattenSeq([i \in DOMAIN files |-> normalize_file(a, files[i])])))
  IN [i \in DOMAIN rows |-> [index |-> i, row |-> rows[i]]]

(***************************************************************************)
(* bank.py: the first match of the map names the category, and a merge on   *)
(* its string brings the label, a row for every entry that has the string.  *)
(***************************************************************************)
check_match(words, map) ==
  LET hits == {i \in DOMAIN map : map[i].match \in words}
  IN IF hits = {} THEN NULL ELSE map[Min(hits)].match

Staged(a, t, label, sk) ==
  [accountType |-> a, index |-> t.index, date |-> t.row.date, words |-> t.row.words,
   amount |-> Money(t.row), balance |-> t.row.balance, label |-> label, sk |-> sk]

Categorised(a, t, map) ==
  LET key == check_match(t.row.words, map)
  IN IF key = NULL THEN <<Staged(a, t, NULL, NULL)>>
     ELSE FlattenSeq([k \in DOMAIN map |->
            IF map[k].match = key
              THEN <<Staged(a, t, map[k].label, CategorySK[<<map[k].category, map[k].subCategory>>])>>
              ELSE <<>>])

map_categories(a, rows, map) == FlattenSeq([i \in DOMAIN rows |-> Categorised(a, rows[i], map)])

Budgets_(map) == {[category |-> map[i].category, subCategory |-> map[i].subCategory,
                   sk |-> CategorySK[<<map[i].category, map[i].subCategory>>]] : i \in DOMAIN map}

(* main: every account is parsed before anything is staged. *)
Run(files, map) ==
  LET accounts == SetToSeq(DOMAIN files)
      Of(a) == map_categories(a, parse_transactions(a, files[a]), map)
  IN [rows |-> FlattenSeq([k \in DOMAIN accounts |-> Of(accounts[k])]),
      budgets |-> Budgets_(map), of |-> files, by |-> map]

Runs(files, map) ==
  /\ map # <<>> /\ \A a \in DOMAIN files : files[a] # <<>>
  /\ \A a \in DOMAIN files : \A i \in DOMAIN files[a] : ~Refused(files[a][i])

(***************************************************************************)
(* The warehouse and the endpoints over it.                                *)
(***************************************************************************)
SumOf(rows, S) == SumFunctionOnSet([i \in DOMAIN rows |-> rows[i].amount], S)
OfAccount(rows, a) == {i \in DOMAIN rows : rows[i].accountType = a}

UncategorizedTransactions ==
  {[accountType |-> r.accountType, date |-> r.date, words |-> r.words,
    amount |-> IF r.accountType = "CreditCard" THEN -r.amount ELSE r.amount] :
     r \in {s \in ToSet(staged.rows) : s.label = NULL}}

(* The balance of an account at the end of a day: that of the last row of   *)
(* the last day that has one.                                              *)
EndOfDay(a, d) ==
  LET rows == staged.rows
      till == {i \in OfAccount(rows, a) : rows[i].date <= d}
  IN IF till = {} THEN 0
     ELSE rows[CHOOSE i \in till : \A j \in till :
                 \/ rows[j].date < rows[i].date
                 \/ rows[j].date = rows[i].date /\ rows[j].index <= rows[i].index].balance

DailyTransactions(a, d) ==
  SumOf(staged.rows, {i \in OfAccount(staged.rows, a) : staged.rows[i].date = d})

(* The days from the first transaction to the last, with the figures of      *)
(* every account, their totals and the free days.  A day is here once; the  *)
(* view lists it several times when the day's last transaction was staged   *)
(* several times, as its string is in the map twice: they share the index   *)
(* the view joins on, and the balance.                                     *)
DailyMetrics ==
  LET days == {r.date : r \in ToSet(staged.rows)}
      accounts == DOMAIN exports
  IN [d \in Min(days)..Max(days) |->
        [balance |-> [a \in accounts |-> EndOfDay(a, d)],
         total_balance |-> SumFunction([a \in accounts |-> EndOfDay(a, d)]),
         transaction_total |-> SumFunction([a \in accounts |-> DailyTransactions(a, d)]),
         no_transactions |-> \A a \in accounts : DailyTransactions(a, d) = 0]]

(* One row of the breakdown, its category named. *)
Named(tables, r) ==
  LET known == {b \in tables.budgets : b.sk = r.sk}
      name == IF known = {} THEN [category |-> "Uncategorized", subCategory |-> "Uncategorized"]
              ELSE CHOOSE b \in known : TRUE
  IN [year |-> Calendar[r.date].year, month |-> Calendar[r.date].month, day |-> Calendar[r.date].day,
      date |-> Calendar[r.date].date, accountType |-> r.accountType, category |-> name.category,
      subCategory |-> name.subCategory, label |-> IF r.label = NULL THEN "Uncategorized" ELSE r.label,
      amount |-> r.amount]

(* Variant: an inner join: rows without a category are dropped. *)
breakdown_named(tables) ==
  LET rows == SelectSeq(tables.rows, LAMBDA r : r.sk # NULL)
  IN [i \in DOMAIN rows |-> Named(tables, rows[i])]

breakdown_rows(tables) == [i \in DOMAIN tables.rows |-> Named(tables, tables.rows[i])]

(***************************************************************************)
(* Users upload what the bank exported next, of a layout it no longer       *)
(* changes back; the oldest card exports are not quite in order.  The files *)
(* of an account are read in the order of their names (source.py:31-33):    *)
(* they are taken to be named in the order of the books.  Days in different *)
(* files are put in order by date all the same; a day that two files share  *)
(* and that are named the other way round is not modelled.                 *)
(***************************************************************************)
RowsOf(files) == SumFunction([i \in DOMAIN files |-> Len(files[i].rows)])
Exported(a) == RowsOf(exports[a])

Add(a, file) ==
  /\ Len(exports[a]) < MaxFiles
  /\ exports' = [exports EXCEPT ![a] = Append(@, file)]
  /\ UNCHANGED <<budgetMap, staged>>

AddExport(a, version, n) ==
  LET from == Exported(a) + 1  to == Exported(a) + n IN
  /\ to <= Len(Ledger[a])
  /\ \A i \in DOMAIN exports[a] : exports[a][i].version = "v2" => version = "v2"
  /\ \E file \in {Export(a, version, from, to)} :
       \/ Add(a, file)
       \/ /\ version = "v1" /\ a = "CreditCard"
          /\ \A i \in 2..n : file.rows[i].date # file.rows[1].date
          /\ Add(a, [file EXCEPT !.rows = Append(Tail(@), Head(@))])

AddForeign(a) == Add(a, [version |-> "other", rows |-> <<>>])

SaveMap(map) == budgetMap' = map /\ UNCHANGED <<exports, staged>>

Build ==
  /\ staged' = IF Runs(exports, budgetMap) THEN Run(exports, budgetMap) ELSE staged
  /\ UNCHANGED <<exports, budgetMap>>

PipelineInit ==
  /\ exports = [a \in DOMAIN Ledger |-> <<>>]
  /\ budgetMap \in BudgetMaps
  /\ staged = NULL

PipelineNext ==
  \/ \E a \in DOMAIN Ledger, version \in DOMAIN RowOrder, n \in 1..3 : AddExport(a, version, n)
  \/ \E a \in DOMAIN Ledger : AddForeign(a)
  \/ \E map \in BudgetMaps : SaveMap(map)
  \/ Build

(***************************************************************************)
(* Properties.                                                             *)
(***************************************************************************)
Covered(a) == RowsOf(staged.of[a])
Anchored(a) ==
  \/ a # "CreditCard"
  \/ \E i \in DOMAIN staged.of[a] : staged.of[a][i].version = "v2" /\ staged.of[a][i].rows # <<>>

(* However the books of an account were cut into exports, and whichever     *)
(* layouts they came in, each day of the report closes with the balance the *)
(* bank has in its books, from the account's first day on, once any export  *)
(* states a balance (golden1.py:370-396, silver_Golden1_DailyBalances.sql). *)
BalancesAreTheBanks ==
  staged # NULL => \A a \in DOMAIN exports : Covered(a) > 0 /\ Anchored(a) =>
    \A d \in DOMAIN DailyMetrics : d >= Ledger[a][1].date =>
      DailyMetrics[d].balance[a] =
        Books(a, Max({0} \cup {i \in 1..Covered(a) : Ledger[a][i].date <= d}))

MatchesOnce(map) == \A i, j \in DOMAIN map : map[i].match = map[j].match => i = j

(* "so a total over these rows still ties to the account totals"            *)
(* (transactions/services.py:53-55): the breakdown has all the money of the *)
(* exports, and has it once, if the map has no string twice (the merge of   *)
(* bank.py:125 brings a row for each).                                     *)
TotalsTie ==
  staged # NULL /\ MatchesOnce(staged.by) => \A a \in DOMAIN exports :
    LET rows == breakdown_rows(staged)
    IN SumOf(rows, OfAccount(rows, a)) = Books(a, Covered(a)) - Opening[a]
=============================================================================
