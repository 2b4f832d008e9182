-------------------------- MODULE MCExpenseTracker --------------------------
EXTENDS ExpenseTracker
AccountsMC == <<"checking", "savings">>
FilesMC == <<"june.csv", "july.csv">>
BudgetsMC == {0, 2, Infinite}
Sub(b) == [Budget |-> b, Fields |-> "known", Type |-> "tree"]
Details(b, fields, subs) == [Budget |-> b, Fields |-> fields, Subs |-> subs]
ImportedMC ==
  { [Food |-> Details(1, "known", [Out |-> Sub(1)]),
     Income |-> Details(None, "known", [Pay |-> Sub(None)])],
    [Food |-> Details(1, "known", [Out |-> Sub(1), In |-> Sub(1)])],
    [Food |-> Details(0, "known", [Out |-> Sub(Yes)]), Income |-> Details(Blank, "blank", Empty)],
    [Food |-> Details(None, "scalar", Empty), Car |-> Details(None, "text", Empty),
     Home |-> Details(None, "known", [Rent |-> [Sub(None) EXCEPT !.Fields = "unknown"]])],
    [Food |-> Details(None, "null", Empty)] }

(* Two rows on one day of the card, a day across both layouts of Savings. *)
T(d, x, w) == [date |-> d, amount |-> x, words |-> {w}]
LedgerMC ==
  [CreditCard |-> <<T(1, -5, "diner"), T(2, -3, "fuel"), T(2, 8, "payment"), T(4, -2, "diner")>>,
   Savings |-> <<T(1, 9, "payroll"), T(3, -4, "rent"), T(3, -2, "diner")>>]
OpeningMC == [CreditCard |-> -7, Savings |-> 20]
Day(y, m, d, date) == [year |-> y, month |-> m, day |-> d, date |-> date]
CalendarMC == <<Day("2024", "12", "30", "2024-12-30"), Day("2024", "12", "31", "2024-12-31"),
                Day("2025", "01", "05", "2025-01-05"), Day("2025", "02", "05", "2025-02-05")>>
Entry(c, s, l, m) == [category |-> c, subCategory |-> s, label |-> l, match |-> m]
MapsMC ==
  {<<Entry("Food", "Out", "Diner", "diner"), Entry("Home", "Rent", "Rent", "rent"),
     Entry("Income", "Pay", "Pay", "payroll")>>,
   <<Entry("Food", "Out", "Diner", "diner"), Entry("Car", "Fuel", "Fuel", "fuel"),
     Entry("Food", "Out", "Snacks", "fuel")>>}
SKMC == [p \in {<<"Food", "Out">>, <<"Home", "Rent">>, <<"Income", "Pay">>, <<"Car", "Fuel">>} |-> p]
=============================================================================
