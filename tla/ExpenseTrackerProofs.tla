------------------------ MODULE ExpenseTrackerProofs ------------------------
(* Proofs about the expense tracker.  Of the budget editor: page and server *)
(* judge a document by the same rule, which takes sums over finite sets;    *)
(* the match panel follows its entry, and no edit loses one.  Of the        *)
(* report: the grid shows the view, and Restart is offered when it should   *)
(* be.  Of the uploads: they replace nothing.  Of the pipeline: the money   *)
(* and the balances of the report are those of the bank's books.            *)
EXTENDS ExpenseTracker, FiniteSetTheorems, WellFoundedInduction, TLAPS

-----------------------------------------------------------------------------
(* Sums over finite sets. *)
Pick(s) == CHOOSE x \in s : TRUE
Total(f, S) == FoldFunctionOnSet(+, 0, f, S)

(* What the fold computes: the sum of every subset, one element at a time. *)
Sums(g, f, S) ==
  /\ g \in [SUBSET S -> Int]
  /\ \A s \in SUBSET S : g[s] = IF s = {} THEN 0 ELSE f[Pick(s)] + g[s \ {Pick(s)}]

(* Induction over the subsets of a finite set. *)
Inherited(S, T) == \A s \in SUBSET S : (\A t \in SUBSET s : t # s => t \in T) => s \in T

LEMMA SubsetInduction ==
  ASSUME NEW S, NEW T, IsFiniteSet(S), Inherited(S, T)
  PROVE  \A s \in SUBSET S : s \in T
<1> DEFINE Bad == {s \in SUBSET S : s \notin T}
<1> SUFFICES ASSUME Bad # {} PROVE FALSE
  OBVIOUS
<1> DEFINE R == StrictSubsetOrdering(S)
<1>1. IsWellFoundedOn(R, SUBSET S)
  <2>1. IsWellFoundedOn(R, FiniteSubsetsOf(S))
    BY FS_StrictSubsetOrderingWellFounded
  <2>2. FiniteSubsetsOf(S) = SUBSET S
    BY FS_Subset DEF FiniteSubsetsOf
  <2> QED BY <2>1, <2>2
<1>2. \A s, t \in SUBSET S : (s \subseteq t /\ s # t) <=> <<s, t>> \in R
  BY DEF StrictSubsetOrdering
<1> HIDE DEF R
<1>3. Bad \subseteq SUBSET S
  OBVIOUS
<1>4. PICK s \in Bad : \A t \in Bad : ~(<<t, s>> \in R)
  <2> HIDE DEF Bad
  <2> QED BY <1>1, <1>3, WFMin
<1>5. \A t \in SUBSET s : t # s => t \in T
  BY <1>2, <1>4
<1> QED BY <1>4, <1>5 DEF Inherited

(* Induction over the naturals, for a set: the library's is for an operator.*)
LEMMA CountingUp ==
  ASSUME NEW T, 0 \in T, \A n \in Nat : n \in T => n + 1 \in T
  PROVE  \A n \in Nat : n \in T
<1> DEFINE Bad == {n \in Nat : n \notin T}
           R == OpToRel(<, Nat)
<1> SUFFICES ASSUME Bad # {} PROVE FALSE
  OBVIOUS
<1>1. IsWellFoundedOn(R, Nat)
  BY NatLessThanWellFounded
<1>2. \A m, n \in Nat : m < n <=> <<m, n>> \in R
  BY DEF OpToRel
<1> HIDE DEF R
<1>3. Bad \subseteq Nat
  OBVIOUS
<1>4. PICK n \in Bad : \A m \in Bad : ~(<<m, n>> \in R)
  <2> HIDE DEF Bad
  <2> QED BY <1>1, <1>3, WFMin
<1>5. n - 1 \in Nat /\ n - 1 < n
  BY <1>4
<1>6. n - 1 \in T
  BY <1>2, <1>4, <1>5
<1> QED BY <1>4, <1>5, <1>6

LEMMA SumsExist ==
  ASSUME NEW S, NEW f, IsFiniteSet(S), \A x \in S : f[x] \in Int
  PROVE  \E g : Sums(g, f, S)
<1> DEFINE Next1(g, s) == IF s = {} THEN 0 ELSE f[Pick(s)] + g[s \ {Pick(s)}]
           Upto(n) == {s \in SUBSET S : Cardinality(s) <= n}
           Good(g, n) == \A s \in Upto(n) : g[s] = Next1(g, s)
           T == {n \in Nat : \E g \in [SUBSET S -> Int] : Good(g, n)}
<1>1. \A s \in SUBSET S : IsFiniteSet(s) /\ Cardinality(s) \in Nat /\ Cardinality(s) <= Cardinality(S)
  BY FS_Subset, FS_CardinalityType
<1>2. \A s \in SUBSET S : s # {} =>
        /\ Pick(s) \in s /\ s \ {Pick(s)} \in SUBSET S
        /\ Cardinality(s \ {Pick(s)}) = Cardinality(s) - 1
  BY <1>1, FS_RemoveElement DEF Pick
<1>3. 0 \in T
  <2>1. \A s \in Upto(0) : s = {}
    BY <1>1, FS_EmptySet
  <2>2. [s \in SUBSET S |-> 0] \in [SUBSET S -> Int]
    OBVIOUS
  <2>3. \A s \in Upto(0) : [t \in SUBSET S |-> 0][s] = Next1([t \in SUBSET S |-> 0], s)
    BY <2>1
  <2> QED BY <2>2, <2>3
<1>4. ASSUME NEW n \in Nat, n \in T PROVE n + 1 \in T
  <2>1. PICK g \in [SUBSET S -> Int] : \A s \in Upto(n) : g[s] = Next1(g, s)
    BY <1>4
  <2> DEFINE h == [s \in SUBSET S |-> IF Cardinality(s) <= n THEN g[s] ELSE Next1(g, s)]
  <2>2. ASSUME NEW s \in SUBSET S PROVE Next1(g, s) \in Int
    <3>1. CASE s # {}
      <4>1. f[Pick(s)] \in Int /\ g[s \ {Pick(s)}] \in Int
        BY <1>2, <3>1
      <4> QED BY <3>1, <4>1
    <3> QED BY <3>1
  <2>3. h \in [SUBSET S -> Int]
    BY <2>2
  <2>4. ASSUME NEW s \in Upto(n + 1) PROVE h[s] = Next1(h, s)
    <3>1. h[s] = Next1(g, s)
      BY <2>1
    <3>2. CASE s = {}
      BY <3>1, <3>2
    <3>3. CASE s # {}
      <4>1. h[s \ {Pick(s)}] = g[s \ {Pick(s)}]
        BY <1>1, <1>2, <3>3
      <4> QED BY <3>1, <3>3, <4>1
    <3> QED BY <3>2, <3>3
  <2>5. Good(h, n + 1)
    BY <2>4
  <2> HIDE DEF h, Good
  <2> QED BY <2>3, <2>5
<1>5. Cardinality(S) \in T
  <2> HIDE DEF T
  <2>1. \A n \in Nat : n \in T
    BY <1>3, <1>4, CountingUp
  <2> QED BY <2>1, <1>1
<1>6. PICK g \in [SUBSET S -> Int] : \A s \in Upto(Cardinality(S)) : g[s] = Next1(g, s)
  BY <1>5
<1>7. Sums(g, f, S)
  BY <1>1, <1>6 DEF Sums
<1> QED BY <1>7

LEMMA TotalIsASum ==
  ASSUME NEW S, NEW f, IsFiniteSet(S), \A x \in S : f[x] \in Int
  PROVE  \E g : Sums(g, f, S) /\ Total(f, S) = g[S]
<1> DEFINE P(g) == g = [s \in SUBSET S |-> IF s = {} THEN 0 ELSE f[Pick(s)] + g[s \ {Pick(s)}]]
           iter == CHOOSE g : P(g)
<1>1. \E g : P(g)
  <2>1. PICK g : Sums(g, f, S)
    BY SumsExist
  <2>2. P(g)
    BY <2>1 DEF Sums
  <2> QED BY <2>2
<1>2. P(iter)
  BY <1>1
<1>3. Total(f, S) = iter[S]
  BY DEF Total, FoldFunctionOnSet, MapThenFoldSet, Pick
<1>4. \A s \in SUBSET S : s # {} => Pick(s) \in s
  BY DEF Pick
<1> HIDE DEF iter
<1>5. \A s \in SUBSET S : iter[s] = IF s = {} THEN 0 ELSE f[Pick(s)] + iter[s \ {Pick(s)}]
  BY <1>2
<1> DEFINE T == {t \in SUBSET S : iter[t] \in Int}
<1>6. ASSUME NEW s \in SUBSET S, \A t \in SUBSET s : t # s => t \in T PROVE s \in T
  <2> SUFFICES iter[s] \in Int
    OBVIOUS
  <2>1. CASE s = {}
    <3>1. iter[s] = 0
      BY <1>5, <2>1
    <3> QED BY <3>1
  <2>2. CASE s # {}
    <3>1. iter[s \ {Pick(s)}] \in Int /\ f[Pick(s)] \in Int
      BY <1>4, <1>6, <2>2
    <3>2. iter[s] = f[Pick(s)] + iter[s \ {Pick(s)}]
      BY <1>5, <2>2
    <3> QED BY <3>1, <3>2
  <2> QED BY <2>1, <2>2
<1>7. \A s \in SUBSET S : s \in T
  <2>1. Inherited(S, T)
    BY <1>6 DEF Inherited
  <2> HIDE DEF T
  <2> QED BY <2>1, SubsetInduction
<1>8. Sums(iter, f, S)
  BY <1>2, <1>5, <1>7 DEF Sums
<1> QED BY <1>3, <1>8

(* Whichever element is taken first. *)
InAnyOrder(g, f, S) == \A s \in SUBSET S : \A x \in s : g[s] = f[x] + g[s \ {x}]
LEMMA TakeAny ==
  ASSUME NEW S, NEW f, NEW g, IsFiniteSet(S), \A x \in S : f[x] \in Int, Sums(g, f, S)
  PROVE  InAnyOrder(g, f, S)
<1> DEFINE T == {s \in SUBSET S : \A x \in s : g[s] = f[x] + g[s \ {x}]}
<1>1. ASSUME NEW s \in SUBSET S, \A t \in SUBSET s : t # s => t \in T PROVE s \in T
  <2> SUFFICES ASSUME NEW x \in s PROVE g[s] = f[x] + g[s \ {x}]
    OBVIOUS
  <2> DEFINE c == Pick(s)
  <2>1. c \in s /\ g[s] = f[c] + g[s \ {c}]
    BY DEF Sums, Pick
  <2> HIDE DEF c
  <2>2. CASE c # x
    <3>1. g[s \ {c}] = f[x] + g[(s \ {c}) \ {x}] /\ g[s \ {x}] = f[c] + g[(s \ {x}) \ {c}]
      BY <1>1, <2>1, <2>2
    <3>2. (s \ {c}) \ {x} = (s \ {x}) \ {c} /\ (s \ {x}) \ {c} \in SUBSET S
      OBVIOUS
    <3> DEFINE rest == g[(s \ {x}) \ {c}]
    <3>3. rest \in Int /\ f[c] \in Int /\ f[x] \in Int
      BY <2>1, <3>2 DEF Sums
    <3>4. g[s] = f[c] + (f[x] + rest) /\ g[s \ {x}] = f[c] + rest
      BY <2>1, <3>1, <3>2
    <3> HIDE DEF rest
    <3> QED BY <3>3, <3>4
  <2> QED BY <2>1, <2>2
<1> HIDE DEF T
<1>2. \A s \in SUBSET S : s \in T
  <2>1. Inherited(S, T)
    BY <1>1 DEF Inherited
  <2> QED BY <2>1, SubsetInduction
<1> QED BY <1>2 DEF T, InAnyOrder

(* A sum is over the elements that count: where a summand is 0 it may be    *)
(* left out.                                                               *)
LEMMA TotalWithoutZeros ==
  ASSUME NEW D, NEW f, NEW S \in SUBSET D, NEW h,
         IsFiniteSet(D), \A x \in D : f[x] \in Int, \A x \in S : h[x] = f[x],
         \A x \in D \ S : f[x] = 0
  PROVE  Total(f, D) = Total(h, S)
<1>1. IsFiniteSet(S)
  BY FS_Subset
<1>2. PICK g : Sums(g, f, D) /\ Total(f, D) = g[D]
  BY TotalIsASum
<1>3. PICK k : Sums(k, h, S) /\ Total(h, S) = k[S]
  BY <1>1, TotalIsASum
<1>4. InAnyOrder(g, f, D)
  BY <1>2, TakeAny
<1>5. InAnyOrder(k, h, S)
  <2>1. \A x \in S : h[x] \in Int
    OBVIOUS
  <2> QED BY <1>1, <1>3, <2>1, TakeAny
<1> DEFINE T == {s \in SUBSET D : g[s] = k[s \cap S]}
<1>6. ASSUME NEW s \in SUBSET D, \A t \in SUBSET s : t # s => t \in T PROVE s \in T
  <2>1. CASE s = {}
    <3>1. g[{}] = 0 /\ k[{}] = 0 /\ s \cap S = {}
      BY <1>2, <1>3, <2>1 DEF Sums
    <3> QED BY <2>1, <3>1
  <2>2. ASSUME NEW x \in s PROVE s \in T
    <3>1. g[s] = f[x] + g[s \ {x}] /\ g[s \ {x}] = k[(s \ {x}) \cap S]
      BY <1>4, <1>6, <2>2 DEF InAnyOrder
    <3>2. CASE x \in S
      <4>1. (s \ {x}) \cap S = (s \cap S) \ {x}
        OBVIOUS
      <4>2. k[s \cap S] = h[x] + k[(s \cap S) \ {x}]
        BY <1>5, <2>2, <3>2 DEF InAnyOrder
      <4> QED BY <3>1, <3>2, <4>1, <4>2
    <3>3. CASE x \notin S
      <4>1. (s \ {x}) \cap S = s \cap S /\ f[x] = 0 /\ g[s \ {x}] \in Int
        BY <1>2, <2>2, <3>3 DEF Sums
      <4>2. g[s] = g[s \ {x}]
        BY <3>1, <4>1
      <4> QED BY <3>1, <4>1, <4>2
    <3> QED BY <3>2, <3>3
  <2> QED BY <2>1, <2>2
<1>7. D \in T
  <2>1. Inherited(D, T)
    BY <1>6 DEF Inherited
  <2> HIDE DEF T
  <2>2. \A s \in SUBSET D : s \in T
    BY <2>1, SubsetInduction
  <2> QED BY <2>2
<1>8. D \cap S = S
  OBVIOUS
<1> QED BY <1>2, <1>3, <1>7, <1>8

-----------------------------------------------------------------------------
(* The page adds 0 for a subcategory without a budget, the server leaves it  *)
(* out: of a well-formed category they find the same.                      *)
LEMMA SameRule ==
  ASSUME NEW doc, Document(doc), NEW c \in DOMAIN doc, WellFormed(doc[c]), c \in OverCeiling(doc)
  PROVE  c \in computeViolations(doc)
<1> DEFINE D == DOMAIN doc[c].Subs
           S == {s \in D : Counts(doc[c].Subs[s].Budget)}
           f == [s \in D |-> IF HasBudget(doc[c].Subs[s]) THEN doc[c].Subs[s].Budget ELSE 0]
           h == [s \in S |-> Worth(doc[c].Subs[s].Budget)]
<1>1. IsFiniteSet(D) /\ \A s \in D : doc[c].Subs[s].Budget \in Int \cup {None}
  BY DEF Document, Subcategories, WellFormed
<1>2. doc[c].Budget \in Int /\ Worth(doc[c].Budget) = doc[c].Budget
  BY BudgetsDiffer DEF OverCeiling, Counts, Worth, WellFormed
<1>3. \A s \in D : (Counts(doc[c].Subs[s].Budget) <=> HasBudget(doc[c].Subs[s]))
                 /\ (HasBudget(doc[c].Subs[s]) => Worth(doc[c].Subs[s].Budget) = doc[c].Subs[s].Budget)
  BY <1>1, BudgetsDiffer DEF Counts, Worth, HasBudget
<1>4. \A s \in D : f[s] \in Int
  BY DEF HasBudget
<1>5. S \in SUBSET D /\ (\A s \in S : h[s] = f[s]) /\ \A s \in D \ S : f[s] = 0
  BY <1>3
<1>6. subBudgetSum(doc[c]) = Total(f, D)
  BY DEF subBudgetSum, Total
<1>7. Total(h, S) > Worth(doc[c].Budget)
  BY DEF OverCeiling, Total
<1> HIDE DEF D, S, f, h
<1>8. Total(f, D) = Total(h, S)
  BY <1>1, <1>4, <1>5, TotalWithoutZeros
<1>9. subBudgetSum(doc[c]) > doc[c].Budget
  BY <1>2, <1>6, <1>7, <1>8
<1> QED BY <1>2, <1>9 DEF computeViolations, HasBudget

(* What is sent of a category is what is on the page, if it is well formed: *)
(* an infinite number is sent as something else.                           *)
LEMMA SentAsIs ==
  ASSUME NEW doc, Document(doc), NEW c \in DOMAIN doc, WellFormed(Serialised(doc)[c])
  PROVE  /\ doc[c].Budget = Serialised(doc)[c].Budget
         /\ DOMAIN doc[c].Subs = DOMAIN Serialised(doc)[c].Subs
         /\ \A s \in DOMAIN doc[c].Subs : doc[c].Subs[s].Budget = Serialised(doc)[c].Subs[s].Budget
<1> DEFINE e == Serialised(doc)[c]  subs == [s \in DOMAIN doc[c].Subs |-> Sent(doc[c].Subs[s])]
<1>1. e = [Sent(doc[c]) EXCEPT !.Subs = subs]
  BY DEF Serialised
<1>2. DOMAIN doc[c] = {"Budget", "Fields", "Subs"}
      /\ \A s \in DOMAIN doc[c].Subs : DOMAIN doc[c].Subs[s] = {"Budget", "Fields", "Type"}
  BY DEF Document, Subcategories
<1>3. e.Subs = subs /\ e.Budget = Sent(doc[c]).Budget
  BY <1>1, <1>2 DEF Sent
<1>4. DOMAIN e.Subs = DOMAIN doc[c].Subs /\ \A s \in DOMAIN doc[c].Subs : e.Subs[s] = Sent(doc[c].Subs[s])
  BY <1>3
<1>5. \A d : "Budget" \in DOMAIN d /\ Sent(d).Budget \in Int \cup {None} => Sent(d).Budget = d.Budget
  BY BudgetsDiffer DEF Sent
<1>6. e.Budget \in Int \cup {None} /\ \A s \in DOMAIN e.Subs : e.Subs[s].Budget \in Int \cup {None}
  BY DEF WellFormed
<1> HIDE DEF e, subs
<1>7. e.Budget = doc[c].Budget
  BY <1>2, <1>3, <1>5, <1>6
<1>8. \A s \in DOMAIN doc[c].Subs : e.Subs[s].Budget = doc[c].Subs[s].Budget
  BY <1>2, <1>4, <1>5, <1>6
<1> QED BY <1>4, <1>7, <1>8 DEF e

LEMMA SentDocument ==
  ASSUME NEW doc, Document(doc)
  PROVE  Document(Serialised(doc)) /\ DOMAIN Serialised(doc) = DOMAIN doc
<1> DEFINE new == Serialised(doc)
<1>1. DOMAIN new = DOMAIN doc
  BY DEF Serialised
<1>2. ASSUME NEW c \in DOMAIN doc
      PROVE  DOMAIN new[c] = {"Budget", "Fields", "Subs"} /\ Subcategories(new[c].Subs)
  <2> DEFINE subs == [s \in DOMAIN doc[c].Subs |-> Sent(doc[c].Subs[s])]
  <2>1. new[c] = [Sent(doc[c]) EXCEPT !.Subs = subs]
    BY DEF Serialised
  <2>2. DOMAIN doc[c] = {"Budget", "Fields", "Subs"} /\ Subcategories(doc[c].Subs)
    BY DEF Document
  <2>3. Subcategories(subs)
    BY <2>2 DEF Subcategories, Sent
  <2> HIDE DEF subs, new
  <2> QED BY <2>1, <2>2, <2>3 DEF Sent
<1> QED BY <1>1, <1>2 DEF Document

(* So a well-formed category the server finds over its ceiling was over it   *)
(* on the page.                                                            *)
LEMMA SameJudgement ==
  ASSUME NEW doc, Document(doc), NEW c \in OverCeiling(Serialised(doc)), WellFormed(Serialised(doc)[c])
  PROVE  c \in computeViolations(doc)
<1> DEFINE new == Serialised(doc)
<1>1. Document(new) /\ DOMAIN new = DOMAIN doc /\ c \in DOMAIN doc
  BY SentDocument DEF OverCeiling
<1>2. c \in computeViolations(new)
  BY <1>1, SameRule
<1>3. /\ doc[c].Budget = new[c].Budget /\ DOMAIN doc[c].Subs = DOMAIN new[c].Subs
      /\ \A s \in DOMAIN doc[c].Subs : doc[c].Subs[s].Budget = new[c].Subs[s].Budget
  BY <1>1, SentAsIs
<1> HIDE DEF new
<1>4. subBudgetSum(doc[c]) = subBudgetSum(new[c])
  <2> DEFINE g(d) == [s \in DOMAIN d.Subs |-> IF HasBudget(d.Subs[s]) THEN d.Subs[s].Budget ELSE 0]
  <2>1. g(doc[c]) = g(new[c])
    BY <1>3 DEF HasBudget
  <2> QED BY <1>3, <2>1 DEF subBudgetSum
<1>5. SumIsInfinite(new[c]) => SumIsInfinite(doc[c])
  BY <1>3 DEF SumIsInfinite
<1> QED BY <1>1, <1>2, <1>3, <1>4, <1>5 DEF computeViolations, HasBudget

-----------------------------------------------------------------------------
(* The stored document, the one on the page and the one being saved have    *)
(* the shape of documents; a panel is about an entry, and not open before    *)
(* there is a document.                                                    *)
Shaped ==
  /\ Document(stored) /\ Document(data)
  /\ put # None => DOMAIN put = {"doc", "code"} /\ Document(put.doc)

Paneled ==
  /\ ~loaded => selected = None
  /\ selected # None => selected = <<selected[1], selected[2]>>

(* Of a document that was sent, no well-formed category is over its ceiling. *)
Judged ==
  put # None => \A c \in OverCeiling(put.doc) : ~WellFormed(put.doc[c])

IInv == Shaped /\ Paneled /\ Judged /\ SelectedExists

(* What a step does: the invariant holds on, and of a document that is on    *)
(* the page nothing is lost but what one deletion takes.                    *)
LosesNothing(doc, new) ==
  /\ Shrinks(doc, new) => \E c \in DOMAIN doc : new = Without(doc, c)
  /\ \A c \in DOMAIN doc \cap DOMAIN new :
       Shrinks(doc[c].Subs, new[c].Subs) =>
         \E s \in DOMAIN doc[c].Subs : new[c].Subs = Without(doc[c].Subs, s)
Holds == IInv' /\ (loaded => LosesNothing(data, data'))

-----------------------------------------------------------------------------
LEMMA InitHolds == ASSUME BudgetInit PROVE IInv
  BY ImportedAreDocuments, FS_EmptySet
  DEF BudgetInit, IInv, Shaped, Paneled, Judged, SelectedExists, Document, Empty

(* What the operations make of a document is a document. *)
LEMMA EntryChanged ==
  ASSUME NEW doc, Document(doc), NEW c \in DOMAIN doc, NEW b
  PROVE  LET new == [doc EXCEPT ![c] = WithBudget(@, b)] IN
         /\ Document(new) /\ DOMAIN new = DOMAIN doc
         /\ \A d \in DOMAIN doc : DOMAIN new[d].Subs = DOMAIN doc[d].Subs
  BY DEF Document, WithBudget

LEMMA SubsChanged ==
  ASSUME NEW doc, Document(doc), NEW c \in DOMAIN doc, NEW subs, Subcategories(subs)
  PROVE  LET new == [doc EXCEPT ![c].Subs = subs] IN
         /\ Document(new) /\ DOMAIN new = DOMAIN doc /\ new[c].Subs = subs
         /\ \A d \in DOMAIN doc \ {c} : new[d] = doc[d]
  BY DEF Document

LEMMA SubChanged ==
  ASSUME NEW doc, Document(doc), NEW c \in DOMAIN doc, NEW s \in DOMAIN doc[c].Subs,
         NEW sub, DOMAIN sub = {"Budget", "Fields", "Type"}
  PROVE  LET new == [doc EXCEPT ![c].Subs[s] = sub] IN
         /\ Document(new) /\ DOMAIN new = DOMAIN doc
         /\ \A d \in DOMAIN doc : DOMAIN new[d].Subs = DOMAIN doc[d].Subs
<1> DEFINE subs == [doc[c].Subs EXCEPT ![s] = sub]
           new == [doc EXCEPT ![c].Subs = subs]
<1>1. DOMAIN subs = DOMAIN doc[c].Subs /\ Subcategories(subs)
  BY DEF Document, Subcategories
<1>2. [doc EXCEPT ![c].Subs[s] = sub] = new
  OBVIOUS
<1> HIDE DEF subs
<1>3. Document(new) /\ DOMAIN new = DOMAIN doc /\ new[c].Subs = subs
      /\ \A d \in DOMAIN doc \ {c} : new[d] = doc[d]
  BY <1>1, SubsChanged
<1> HIDE DEF new
<1> QED BY <1>1, <1>2, <1>3

-----------------------------------------------------------------------------
(* Nothing is lost where nothing goes, or one name is exchanged for another. *)
LEMMA Kept ==
  ASSUME NEW doc, NEW new, Document(doc), Document(new),
         Cardinality(DOMAIN doc) <= Cardinality(DOMAIN new),
         \A c \in DOMAIN doc \cap DOMAIN new :
           Cardinality(DOMAIN doc[c].Subs) <= Cardinality(DOMAIN new[c].Subs)
  PROVE  LosesNothing(doc, new)
<1>1. Cardinality(DOMAIN doc) \in Nat /\ Cardinality(DOMAIN new) \in Nat
  BY FS_CardinalityType DEF Document
<1>2. \A c \in DOMAIN doc \cap DOMAIN new :
        Cardinality(DOMAIN doc[c].Subs) \in Nat /\ Cardinality(DOMAIN new[c].Subs) \in Nat
  BY FS_CardinalityType DEF Document, Subcategories
<1> QED BY <1>1, <1>2 DEF LosesNothing, Shrinks

LEMMA Grown ==
  ASSUME NEW doc, NEW new, Document(doc), Document(new),
         DOMAIN doc \subseteq DOMAIN new,
         \A c \in DOMAIN doc : DOMAIN doc[c].Subs \subseteq DOMAIN new[c].Subs
  PROVE  LosesNothing(doc, new)
<1>1. Cardinality(DOMAIN doc) <= Cardinality(DOMAIN new)
  BY FS_Subset DEF Document
<1>2. ASSUME NEW c \in DOMAIN doc \cap DOMAIN new
      PROVE  Cardinality(DOMAIN doc[c].Subs) <= Cardinality(DOMAIN new[c].Subs)
  BY FS_Subset DEF Document, Subcategories
<1> QED BY <1>1, <1>2, Kept

LEMMA Exchanged ==
  ASSUME NEW S, NEW x, NEW y, IsFiniteSet(S), x \in S, y \notin S
  PROVE  /\ IsFiniteSet((S \ {x}) \cup {y})
         /\ Cardinality((S \ {x}) \cup {y}) = Cardinality(S)
<1> DEFINE T == S \ {x}
<1>1. IsFiniteSet(T) /\ Cardinality(T) = Cardinality(S) - 1 /\ Cardinality(S) \in Nat /\ y \notin T
  BY FS_RemoveElement, FS_CardinalityType
<1> HIDE DEF T
<1>2. IsFiniteSet(T \cup {y}) /\ Cardinality(T \cup {y}) = Cardinality(T) + 1
  BY <1>1, FS_AddElement
<1> QED BY <1>1, <1>2 DEF T

(* An edit that keeps the entry of the panel, or moves the panel with it.   *)
LEMMA Edited ==
  ASSUME IInv, loaded, NEW doc, Edit(doc), Document(doc), LosesNothing(data, doc),
         selected' # None =>
           /\ selected' = <<selected'[1], selected'[2]>>
           /\ selected'[1] \in DOMAIN doc /\ selected'[2] \in DOMAIN doc[selected'[1]].Subs
  PROVE  Holds
<1>1. Document(data') /\ Document(stored') /\ put' = put
  BY DEF Edit, IInv, Shaped
<1>2. SelectedExists'
  BY DEF Edit, SelectedExists, Exists
<1>3. loaded' /\ LosesNothing(data, data')
  BY DEF Edit
<1> QED BY <1>1, <1>2, <1>3 DEF Holds, IInv, Shaped, Paneled, Judged

(* The same, when no entry appears, goes or moves. *)
LEMMA KeptEntries ==
  ASSUME IInv, loaded, NEW doc, Edit(doc), Document(doc), selected' = selected,
         DOMAIN doc = DOMAIN data,
         \A c \in DOMAIN data : DOMAIN doc[c].Subs = DOMAIN data[c].Subs
  PROVE  Holds
<1>1. LosesNothing(data, doc)
  BY Grown DEF IInv, Shaped
<1> QED BY <1>1, Edited DEF IInv, Paneled, SelectedExists, Exists

LEMMA BudgetStep == ASSUME IInv, loaded, updateBudget PROVE Holds
<1>1. PICK c \in DOMAIN data, b \in Budgets :
        \/ Edit([data EXCEPT ![c] = WithBudget(@, b)])
        \/ \E s \in DOMAIN data[c].Subs : Edit([data EXCEPT ![c].Subs[s] = WithBudget(@, b)])
  BY DEF updateBudget
<1>2. selected' = selected /\ Document(data)
  BY DEF updateBudget, IInv, Shaped
<1>3. CASE Edit([data EXCEPT ![c] = WithBudget(@, b)])
  BY <1>2, <1>3, EntryChanged, KeptEntries
<1>4. ASSUME NEW s \in DOMAIN data[c].Subs, Edit([data EXCEPT ![c].Subs[s] = WithBudget(@, b)]) PROVE Holds
  <2> DEFINE sub == WithBudget(data[c].Subs[s], b)
             new == [data EXCEPT ![c].Subs[s] = sub]
  <2>1. DOMAIN sub = {"Budget", "Fields", "Type"}
    BY <1>2 DEF Document, Subcategories, WithBudget
  <2>2. Edit(new)
    BY <1>4
  <2> HIDE DEF sub
  <2>3. /\ Document(new) /\ DOMAIN new = DOMAIN data
        /\ \A d \in DOMAIN data : DOMAIN new[d].Subs = DOMAIN data[d].Subs
    BY <1>2, <2>1, SubChanged
  <2> HIDE DEF new
  <2> QED BY <1>2, <2>2, <2>3, KeptEntries
<1> QED BY <1>1, <1>3, <1>4

LEMMA FreeName ==
  ASSUME NEW names, NEW existing, Free(names, existing) # {}
  PROVE  uniqueName(names, existing) \notin existing
<1>1. PICK i \in Free(names, existing) : \A j \in 1..(i - 1) : names[j] \in existing
  <2>1. CASE names[1] \notin existing
    BY <2>1 DEF Free
  <2>2. CASE names[1] \in existing /\ names[2] \notin existing
    BY <2>2 DEF Free
  <2>3. CASE names[1] \in existing /\ names[2] \in existing /\ names[3] \notin existing
    BY <2>3 DEF Free
  <2>4. CASE names[1] \in existing /\ names[2] \in existing /\ names[3] \in existing
    BY <2>4 DEF Free
  <2> QED BY <2>1, <2>2, <2>3, <2>4
<1> DEFINE first == CHOOSE k \in Free(names, existing) : \A j \in 1..(k - 1) : names[j] \in existing
<1>2. first \in Free(names, existing)
  BY <1>1
<1> QED BY <1>2 DEF uniqueName, Free

LEMMA AddStep == ASSUME IInv, loaded, addCategory PROVE Holds
<1> DEFINE name == uniqueName(NewCategory, DOMAIN data)
           new == Extended(data, name, [Budget |-> 0, Fields |-> "known", Subs |-> Empty])
<1>1. Edit(new) /\ selected' = selected /\ name \notin DOMAIN data
  BY FreeName DEF addCategory
<1> HIDE DEF name
<1> DEFINE entry == [Budget |-> 0, Fields |-> "known", Subs |-> Empty]
<1>2. DOMAIN entry = {"Budget", "Fields", "Subs"} /\ Subcategories(entry.Subs)
  BY FS_EmptySet DEF Empty, Subcategories
<1>3. new = Extended(data, name, entry)
  OBVIOUS
<1> HIDE DEF entry
<1>4. /\ Document(new) /\ DOMAIN new = DOMAIN data \cup {name}
      /\ \A c \in DOMAIN data : c \in DOMAIN new /\ new[c] = data[c]
  <2> HIDE DEF new
  <2> QED BY <1>1, <1>2, <1>3, FS_AddElement DEF IInv, Shaped, Document, Extended
<1> HIDE DEF new
<1>5. LosesNothing(data, new)
  BY <1>4, Grown DEF IInv, Shaped
<1> QED BY <1>1, <1>4, <1>5, Edited DEF IInv, Paneled, SelectedExists, Exists

LEMMA AddSubStep == ASSUME IInv, loaded, NEW c \in DOMAIN data, addSubCategory(c) PROVE Holds
<1> DEFINE name == uniqueName(NewSubCategory, DOMAIN data[c].Subs)
           entry == [Budget |-> 0, Fields |-> "known", Type |-> "tree"]
           subs == Extended(data[c].Subs, name, entry)
           new == [data EXCEPT ![c] = WithSubs(@, subs)]
<1>1. Edit(new) /\ selected' = selected /\ name \notin DOMAIN data[c].Subs
  BY FreeName DEF addSubCategory
<1> HIDE DEF name
<1>2. Document(data)
  BY DEF IInv, Shaped
<1>3. DOMAIN entry = {"Budget", "Fields", "Type"}
  OBVIOUS
<1> HIDE DEF entry
<1>4. Subcategories(subs) /\ DOMAIN data[c].Subs \subseteq DOMAIN subs
  BY <1>2, <1>3, FS_AddElement DEF Document, Extended, Subcategories
<1> HIDE DEF subs
<1>5. /\ Document(new) /\ DOMAIN new = DOMAIN data /\ new[c].Subs = subs
      /\ \A d \in DOMAIN data \ {c} : new[d] = data[d]
  BY <1>2, <1>4 DEF Document, WithSubs
<1> HIDE DEF new
<1>6. selected' # None =>
        /\ selected' = <<selected'[1], selected'[2]>>
        /\ selected'[1] \in DOMAIN new /\ selected'[2] \in DOMAIN new[selected'[1]].Subs
  BY <1>1, <1>4, <1>5 DEF IInv, Paneled, SelectedExists, Exists
<1>7. LosesNothing(data, new)
  BY <1>2, <1>4, <1>5, Grown
<1> QED BY <1>1, <1>5, <1>6, <1>7, Edited

LEMMA DeleteStep == ASSUME IInv, loaded, NEW c \in DOMAIN data, deleteCategory(c) PROVE Holds
<1> DEFINE new == Without(data, c)
<1>1. Edit(new)
  BY DEF deleteCategory
<1>2. Document(new) /\ \A d \in DOMAIN data \ {c} : d \in DOMAIN new /\ new[d] = data[d]
  BY FS_RemoveElement DEF IInv, Shaped, Document, Without
<1>3. selected' # None => selected' = selected /\ selected[1] # c
  BY DEF deleteCategory
<1>4. LosesNothing(data, new)
  <2>1. new = Without(data, c)
    OBVIOUS
  <2>2. \A d \in DOMAIN data \cap DOMAIN new :
          /\ new[d].Subs = data[d].Subs
          /\ Cardinality(DOMAIN data[d].Subs) \in Nat
    BY FS_CardinalityType DEF Without, IInv, Shaped, Document, Subcategories
  <2> HIDE DEF new
  <2> QED BY <2>1, <2>2 DEF LosesNothing, Shrinks
<1> HIDE DEF new
<1> QED BY <1>1, <1>2, <1>3, <1>4, Edited DEF IInv, Paneled, SelectedExists, Exists

LEMMA DeleteSubStep ==
  ASSUME IInv, loaded, NEW c \in DOMAIN data, NEW s \in DOMAIN data[c].Subs, deleteSubCategory(c, s)
  PROVE  Holds
<1> DEFINE subs == Without(data[c].Subs, s)
           new == [data EXCEPT ![c].Subs = subs]
<1>1. Edit(new)
  BY DEF deleteSubCategory
<1>2. Document(data)
  BY DEF IInv, Shaped
<1>3. Subcategories(subs) /\ DOMAIN subs = DOMAIN data[c].Subs \ {s}
  BY <1>2, FS_RemoveElement DEF Document, Without, Subcategories
<1>a. subs = Without(data[c].Subs, s)
  OBVIOUS
<1> HIDE DEF subs
<1>4. /\ Document(new) /\ DOMAIN new = DOMAIN data /\ new[c].Subs = subs
      /\ \A d \in DOMAIN data \ {c} : new[d] = data[d]
  BY <1>2, <1>3, SubsChanged
<1> HIDE DEF new
<1>5. selected' # None => selected' = selected /\ selected # <<c, s>>
  BY DEF deleteSubCategory
<1>6. selected' # None =>
        /\ selected' = <<selected'[1], selected'[2]>>
        /\ selected'[1] \in DOMAIN new /\ selected'[2] \in DOMAIN new[selected'[1]].Subs
  BY <1>3, <1>4, <1>5 DEF IInv, Paneled, SelectedExists, Exists
<1>7. LosesNothing(data, new)
  <2>1. Cardinality(DOMAIN data) \in Nat
        /\ \A d \in DOMAIN data : Cardinality(DOMAIN data[d].Subs) \in Nat
    BY <1>2, FS_CardinalityType DEF Document, Subcategories
  <2> QED BY <1>4, <1>a, <2>1 DEF LosesNothing, Shrinks
<1> QED BY <1>1, <1>4, <1>6, <1>7, Edited

LEMMA RenameStep ==
  ASSUME IInv, loaded, NEW c \in DOMAIN data, NEW name, renameEntry(c, name)
  PROVE  Holds
<1> DEFINE new == renameKey(data, c, name)
<1>1. Edit(new) /\ name \notin DOMAIN data
  BY DEF renameEntry
<1>2. /\ Document(new) /\ name \in DOMAIN new /\ new[name] = data[c]
      /\ \A d \in DOMAIN data \ {c} : d \in DOMAIN new /\ new[d] = data[d]
  BY <1>1, Exchanged DEF IInv, Shaped, Document, renameKey
<1>a. DOMAIN new = (DOMAIN data \ {c}) \cup {name}
  BY DEF renameKey
<1>3. \/ selected # None /\ selected[1] = c /\ selected' = <<name, selected[2]>>
      \/ (selected = None \/ selected[1] # c) /\ selected' = selected
  BY DEF renameEntry
<1> HIDE DEF new
<1>4. selected' # None =>
        /\ selected' = <<selected'[1], selected'[2]>>
        /\ selected'[1] \in DOMAIN new /\ selected'[2] \in DOMAIN new[selected'[1]].Subs
  BY <1>2, <1>3 DEF IInv, Paneled, SelectedExists, Exists
<1>5. LosesNothing(data, new)
  <2>1. Document(data)
    BY DEF IInv, Shaped
  <2>2. Cardinality(DOMAIN new) = Cardinality(DOMAIN data) /\ Cardinality(DOMAIN data) \in Nat
    BY <1>1, <1>a, <2>1, Exchanged, FS_CardinalityType DEF Document
  <2>3. ASSUME NEW d \in DOMAIN data \cap DOMAIN new
        PROVE  Cardinality(DOMAIN data[d].Subs) <= Cardinality(DOMAIN new[d].Subs)
    <3>1. new[d] = data[d]
      BY <1>1, <1>2, <1>a
    <3>2. Cardinality(DOMAIN data[d].Subs) \in Nat
      BY <2>1, FS_CardinalityType DEF Document, Subcategories
    <3> QED BY <3>1, <3>2
  <2> QED BY <1>2, <2>1, <2>2, <2>3, Kept
<1> QED BY <1>1, <1>2, <1>4, <1>5, Edited

LEMMA RenameSubStep ==
  ASSUME IInv, loaded, NEW c \in DOMAIN data, NEW s \in DOMAIN data[c].Subs, NEW name,
         renameSubEntry(c, s, name)
  PROVE  Holds
<1> DEFINE subs == renameKey(data[c].Subs, s, name)
           new == [data EXCEPT ![c].Subs = subs]
<1>1. Edit(new)
  BY DEF renameSubEntry
<1>2. Document(data)
  BY DEF IInv, Shaped
<1>3. Subcategories(subs) /\ DOMAIN subs = (DOMAIN data[c].Subs \ {s}) \cup {name}
  <2>1. name \notin DOMAIN data[c].Subs
    BY DEF renameSubEntry
  <2> QED BY <1>2, <2>1, Exchanged DEF Document, renameKey, Subcategories
<1> HIDE DEF subs
<1>4. /\ Document(new) /\ DOMAIN new = DOMAIN data /\ new[c].Subs = subs
      /\ \A d \in DOMAIN data \ {c} : new[d] = data[d]
  BY <1>2, <1>3, SubsChanged
<1> HIDE DEF new
<1>5. \/ selected # None /\ selected = <<c, s>> /\ selected' = <<c, name>>
      \/ selected # <<c, s>> /\ selected' = selected
      \/ selected = None /\ selected' = <<c, name>>
  BY DEF renameSubEntry
<1>6. selected' # None =>
        /\ selected' = <<selected'[1], selected'[2]>>
        /\ selected'[1] \in DOMAIN new /\ selected'[2] \in DOMAIN new[selected'[1]].Subs
  BY <1>3, <1>4, <1>5 DEF IInv, Paneled, SelectedExists, Exists
<1>7. LosesNothing(data, new)
  <2>1. ASSUME NEW d \in DOMAIN data PROVE Cardinality(DOMAIN data[d].Subs) <= Cardinality(DOMAIN new[d].Subs)
    <3>1. Cardinality(DOMAIN data[d].Subs) \in Nat
      BY <1>2, FS_CardinalityType DEF Document, Subcategories
    <3>2. CASE d # c
      BY <1>4, <3>1, <3>2
    <3>3. CASE d = c
      <4>1. name \notin DOMAIN data[c].Subs /\ IsFiniteSet(DOMAIN data[c].Subs)
        BY <1>2 DEF renameSubEntry, Document, Subcategories
      <4>2. Cardinality((DOMAIN data[c].Subs \ {s}) \cup {name}) = Cardinality(DOMAIN data[c].Subs)
        BY <4>1, Exchanged
      <4>3. DOMAIN new[c].Subs = (DOMAIN data[c].Subs \ {s}) \cup {name}
        BY <1>3, <1>4
      <4> QED BY <3>1, <3>3, <4>2, <4>3
    <3> QED BY <3>2, <3>3
  <2>2. Cardinality(DOMAIN data) \in Nat
    BY <1>2, FS_CardinalityType DEF Document
  <2> QED BY <1>2, <1>4, <2>1, <2>2, Kept
<1> QED BY <1>1, <1>4, <1>6, <1>7, Edited

(* Typing into the panel changes the match tree of its entry, or nothing. *)
LEMMA TypeStep == ASSUME IInv, loaded, updateSubCategoryType PROVE Holds
<1>1. selected' = selected /\ Document(data)
  BY DEF updateSubCategoryType, IInv, Shaped
<1>2. CASE Edit(data)
  BY <1>1, <1>2, KeptEntries
<1>3. ASSUME Exists(selected[1], selected[2]), NEW type,
             Edit([data EXCEPT ![selected[1]].Subs[selected[2]] = WithType(@, type)])
      PROVE  Holds
  <2> DEFINE c == selected[1]
             s == selected[2]
             sub == WithType(data[c].Subs[s], type)
             new == [data EXCEPT ![c].Subs[s] = sub]
  <2>1. c \in DOMAIN data /\ s \in DOMAIN data[c].Subs
    BY <1>3 DEF Exists
  <2>2. DOMAIN sub = {"Budget", "Fields", "Type"}
    BY <1>1, <2>1 DEF Document, Subcategories, WithType
  <2>3. Edit(new)
    BY <1>3
  <2> HIDE DEF sub, c, s
  <2>4. /\ Document(new) /\ DOMAIN new = DOMAIN data
        /\ \A d \in DOMAIN data : DOMAIN new[d].Subs = DOMAIN data[d].Subs
    BY <1>1, <2>1, <2>2, SubChanged
  <2> HIDE DEF new
  <2> QED BY <1>1, <2>3, <2>4, KeptEntries
<1> QED BY <1>2, <1>3 DEF updateSubCategoryType

-----------------------------------------------------------------------------
(* A step of the page that edits nothing, of the server or of an import. *)
LEMMA OtherSteps ==
  ASSUME IInv,
         \/ load \/ handleSave \/ save_budget_map \/ TakeSaved \/ ImportBudgetMap
         \/ loaded /\ ClosePanelClicked
         \/ loaded /\ \E c \in DOMAIN data : \E s \in DOMAIN data[c].Subs : Select(c, s)
         \/ UNCHANGED budgetVars
  PROVE  Holds
<1>0. loaded => LosesNothing(data, data)
  BY Grown DEF IInv, Shaped
<1> USE <1>0 DEF Holds, IInv, Shaped, Paneled, Judged, SelectedExists, Exists
<1>1. CASE load
  BY <1>1 DEF load
<1>2. CASE handleSave
  <2>1. /\ put' = [doc |-> Serialised(data), code |-> 0] /\ computeViolations(data) = {}
        /\ stored' = stored /\ data' = data /\ loaded' = loaded /\ selected' = selected
    BY <1>2 DEF handleSave
  <2>2. Document(Serialised(data))
    BY SentDocument
  <2>3. \A c \in OverCeiling(Serialised(data)) : ~WellFormed(Serialised(data)[c])
    BY <2>1, SameJudgement
  <2>4. DOMAIN put' = {"doc", "code"} /\ put'.doc = Serialised(data)
    BY <2>1
  <2> QED BY <2>1, <2>2, <2>3, <2>4
<1>3. CASE save_budget_map
  BY <1>3 DEF save_budget_map
<1>4. CASE TakeSaved
  BY <1>4 DEF TakeSaved
<1>5. CASE ImportBudgetMap
  BY <1>5, ImportedAreDocuments DEF ImportBudgetMap
<1>6. CASE loaded /\ ClosePanelClicked
  BY <1>6 DEF ClosePanelClicked
<1>7. ASSUME loaded, NEW c \in DOMAIN data, NEW s \in DOMAIN data[c].Subs, Select(c, s) PROVE Holds
  BY <1>7 DEF Select
<1>8. CASE UNCHANGED budgetVars
  BY <1>8 DEF budgetVars
<1> QED BY <1>1, <1>2, <1>3, <1>4, <1>5, <1>6, <1>7, <1>8

LEMMA StepHolds == ASSUME IInv, [Next]_vars PROVE Holds
<1>1. BudgetNext \/ UNCHANGED budgetVars
  BY DEF Next, vars
<1>2. CASE BudgetNext
  <2>1. CASE load \/ handleSave \/ save_budget_map \/ TakeSaved \/ ImportBudgetMap
    BY <2>1, OtherSteps
  <2>2. CASE loaded /\ (updateBudget \/ addCategory \/ ClosePanelClicked \/ updateSubCategoryType)
    BY <2>2, BudgetStep, AddStep, OtherSteps, TypeStep
  <2>3. ASSUME loaded, NEW c \in DOMAIN data, addSubCategory(c) \/ deleteCategory(c) PROVE Holds
    BY <2>3, AddSubStep, DeleteStep
  <2>4. ASSUME loaded, NEW c \in DOMAIN data, NEW n \in Names, renameEntry(c, n) PROVE Holds
    BY <2>4, RenameStep
  <2>5. ASSUME loaded, NEW c \in DOMAIN data, NEW s \in DOMAIN data[c].Subs,
               \/ deleteSubCategory(c, s) \/ Select(c, s)
               \/ \E n \in Names : renameSubEntry(c, s, n)
        PROVE  Holds
    BY <2>5, DeleteSubStep, OtherSteps, RenameSubStep
  <2> QED BY <1>2, <2>1, <2>2, <2>3, <2>4, <2>5 DEF BudgetNext
<1> QED BY <1>1, <1>2, OtherSteps

-----------------------------------------------------------------------------
LEMMA Invariant == Spec => []IInv
<1>1. Init => IInv
  BY InitHolds DEF Init
<1>2. IInv /\ [Next]_vars => IInv'
  BY StepHolds DEF Holds
<1> QED BY <1>1, <1>2, PTL DEF Spec

(* The match panel of the budget editor is never about an entry that was    *)
(* renamed or deleted, for any documents and names.                        *)
THEOREM PanelFollows == Spec => []SelectedExists
<1>1. IInv => SelectedExists
  BY DEF IInv
<1> QED BY <1>1, Invariant, PTL

(* A save is refused only for a category in which there is something the     *)
(* page does not judge, for any budgets typed and any documents imported.   *)
(* The server answers 422 for its own reasons; over a ceiling, no well-      *)
(* formed category is sent.                                                *)
THEOREM PageJudgesBudgets == Spec => []RefusedOnlyForShape
<1>1. ASSUME IInv PROVE RefusedOnlyForShape
  <2> SUFFICES ASSUME put # None, NEW c \in validate_budget_map(put.doc) PROVE ~WellFormed(put.doc[c])
    BY DEF RefusedOnlyForShape
  <2>1. CASE c \in OverCeiling(put.doc)
    BY <1>1, <2>1 DEF IInv, Judged
  <2>2. CASE c \in BadFields(put.doc)
    BY <2>2 DEF BadFields, BadDetails, Counts, WellFormed
  <2>3. CASE c \in BadTypes(put.doc)
    BY <2>3 DEF BadTypes, WellFormed
  <2> QED BY <2>1, <2>2, <2>3 DEF validate_budget_map
<1> QED BY <1>1, Invariant, PTL

(* Of the document on the page, no step loses a category or a subcategory   *)
(* but by the deletion of that one, whatever names are typed or added and   *)
(* however often: adding picks a free name and renaming refuses a taken one.*)
THEOREM NothingIsLost == Spec => EditsLoseNothing
<1>1. IInv /\ [Next]_vars => [loaded => LosesNothing(data, data')]_budgetVars
  BY StepHolds DEF Holds
<1> QED BY <1>1, Invariant, PTL DEF Spec, EditsLoseNothing, LosesNothing

(* No upload changes a stored export: of the steps that change one, none    *)
(* touches an upload, whoever uploads what and when.                       *)
THEOREM UploadsAdd == Spec => UploadsReplaceNothing
<1> DEFINE Safe == \A k \in DOMAIN raw : raw'[k] # raw[k] => uploads' = uploads
<1>1. ASSUME RawNext PROVE Safe
  <2>1. ASSUME NEW u, CreateUpload(u) PROVE Safe
    BY <2>1 DEF CreateUpload, Put
  <2>2. ASSUME NEW a, NEW f, NEW c, ImportFile(a, f, c) PROVE Safe
    BY <2>2 DEF ImportFile
  <2>3. raw' = raw \/ (\E u : CreateUpload(u)) \/ (\E a, f, c : ImportFile(a, f, c))
    BY <1>1 DEF RawNext, Answer, CheckUpload, LeaveUpload, PickAccount, PickFile, handleUpload,
                OtherUploads, TakeUpload
  <2> QED BY <2>1, <2>2, <2>3
<1>2. [Next]_vars => [Safe]_rawVars
  BY <1>1 DEF Next, vars
<1> QED BY <1>2, PTL DEF Spec, UploadsReplaceNothing

-----------------------------------------------------------------------------
(* The grid, as every render leaves it. *)
GridInv ==
  /\ grid = [key |-> grid.key, phase |-> grid.phase, columns |-> grid.columns,
             shown |-> grid.shown, pending |-> grid.pending, marks |-> grid.marks]
  /\ grid.phase \in {"loading", "building", "built"}
  /\ grid.key = GridKey(feed, report)
  /\ grid.columns = Accounts_(feed, report)
  /\ grid.phase # "built" => grid.pending = Nodes(feed, report)
  /\ GridShowsTheRows

(* The seen: every field is there, and the switches are booleans. *)
Fields(f, names) == DOMAIN f = names /\ f = [n \in names |-> f[n]]
ViewShape(seen) ==
  /\ Fields(seen, {"years", "months", "filter", "matrix", "waterfall", "pie"})
  /\ Fields(seen.filter, Visuals)
  /\ Fields(seen.matrix, {"drill", "drillMode", "expandAll"})
  /\ Fields(seen.waterfall, {"axis", "drills", "drillMode"})
  /\ Fields(seen.waterfall.drills, {"date", "category"})
  /\ Fields(seen.pie, {"drill", "drillMode"})
  /\ seen.matrix.drillMode \in BOOLEAN /\ seen.matrix.expandAll \in BOOLEAN
  /\ seen.waterfall.drillMode \in BOOLEAN /\ seen.waterfall.axis \in {"date", "category"}
  /\ seen.pie.drillMode \in BOOLEAN

ReportInv == ViewShape(report) /\ GridInv

LEMMA RenderKeepsTheGrid ==
  ASSUME GridInv, NEW rows, NEW seen, feed' = rows, report' = seen, Render(rows, seen)
  PROVE  GridInv'
<1>1. CASE GridKey(rows, seen) # grid.key
  <2>1. grid' = Mounted(rows, seen)
    BY <1>1 DEF Render
  <2> QED BY <2>1 DEF Mounted, GridInv, GridShowsTheRows
<1>2. CASE GridKey(rows, seen) = grid.key
  <2>1. Accounts_(rows, seen) = Accounts_(feed, report)
    BY <1>2 DEF GridInv, GridKey
  <2>2. CASE grid.phase = "built"
    <3>1. grid' = [grid EXCEPT !.shown = Nodes(rows, seen),
                               !.marks = headerClassNames(seen) \cap grid.columns]
      BY <1>2, <2>2 DEF Render
    <3> QED BY <1>2, <2>1, <2>2, <3>1 DEF GridInv, GridShowsTheRows
  <2>3. CASE grid.phase # "built"
    <3>1. grid' = [grid EXCEPT !.pending = Nodes(rows, seen)]
      BY <1>2, <2>3 DEF Render
    <3> QED BY <1>2, <2>1, <2>3, <3>1 DEF GridInv, GridShowsTheRows
  <2> QED BY <2>2, <2>3
<1> QED BY <1>1, <1>2

LEMMA SeeKeeps == ASSUME ReportInv, NEW seen, ViewShape(seen), See(seen) PROVE ReportInv'
<1>1. feed' = feed /\ report' = seen /\ Render(feed, seen)
  BY DEF See
<1>2. GridInv'
  BY <1>1, RenderKeepsTheGrid DEF ReportInv
<1>3. ViewShape(report)'
  BY <1>1 DEF ViewShape, Fields
<1> QED BY <1>2, <1>3 DEF ReportInv

LEMMA DrillShape == ASSUME ViewShape(report), NEW v \in Visuals, NEW steps PROVE ViewShape(SetDrill(v, steps))
<1> USE DEF ViewShape, Fields
<1>1. CASE v = "matrix"
  <2> DEFINE m == [report.matrix EXCEPT !.drill = steps]
  <2>1. SetDrill(v, steps) = [report EXCEPT !.matrix = m]
    BY <1>1 DEF SetDrill
  <2>2. Fields(m, {"drill", "drillMode", "expandAll"}) /\ m.drillMode \in BOOLEAN /\ m.expandAll \in BOOLEAN
    OBVIOUS
  <2> HIDE DEF m
  <2> QED BY <2>1, <2>2
<1>2. CASE v = "pie"
  <2> DEFINE m == [report.pie EXCEPT !.drill = steps]
  <2>1. SetDrill(v, steps) = [report EXCEPT !.pie = m]
    BY <1>2 DEF SetDrill
  <2>2. Fields(m, {"drill", "drillMode"}) /\ m.drillMode \in BOOLEAN
    OBVIOUS
  <2> HIDE DEF m
  <2> QED BY <2>1, <2>2
<1>3. CASE v = "waterfall"
  <2> DEFINE d == [report.waterfall.drills EXCEPT ![report.waterfall.axis] = steps]
             m == [report.waterfall EXCEPT !.drills = d]
  <2>1. SetDrill(v, steps) = [report EXCEPT !.waterfall = m]
    BY <1>3 DEF SetDrill
  <2>2. Fields(d, {"date", "category"})
    OBVIOUS
  <2> HIDE DEF d
  <2>3. /\ Fields(m, {"axis", "drills", "drillMode"}) /\ m.drillMode \in BOOLEAN
        /\ m.drills = d /\ m.axis = report.waterfall.axis
    OBVIOUS
  <2> HIDE DEF m
  <2> QED BY <2>1, <2>2, <2>3
<1> QED BY <1>1, <1>2, <1>3 DEF Visuals

LEMMA DrillIntoShape == ASSUME ViewShape(report), NEW v \in Visuals, NEW key PROVE ViewShape(drillInto(v, key))
  BY DrillShape DEF drillInto
LEMMA SlicerShape == ASSUME ViewShape(report), NEW years, NEW months
  PROVE ViewShape([report EXCEPT !.years = years, !.months = months])
  BY DEF ViewShape, Fields, Visuals
LEMMA FilterShape == ASSUME ViewShape(report), NEW v \in Visuals, NEW c, NEW extend
  PROVE ViewShape([report EXCEPT !.filter = applyClick(@, v, c, extend)])
<1> DEFINE f == applyClick(report.filter, v, c, extend)
<1>1. Fields(f, Visuals)
  <2>1. CASE extend
    <3>1. f = [report.filter EXCEPT ![v] = toggled(@, c)]
      BY <2>1 DEF applyClick
    <3> QED BY <3>1 DEF ViewShape, Fields
  <2>2. CASE ~extend
    BY <2>2 DEF applyClick, Fields
  <2> QED BY <2>1, <2>2
<1>2. [report EXCEPT !.filter = applyClick(@, v, c, extend)] = [report EXCEPT !.filter = f]
  OBVIOUS
<1> HIDE DEF f
<1> QED BY <1>1, <1>2 DEF ViewShape, Fields

LEMMA SwitchShape == ASSUME ViewShape(report), NEW v \in Visuals
  PROVE  ViewShape([report EXCEPT ![v].drillMode = ~@])
<1> DEFINE Parts == {"years", "months", "filter", "matrix", "waterfall", "pie"}
           m == [report[v] EXCEPT !.drillMode = ~@]
           seen == [report EXCEPT ![v] = m]
<1>1. [report EXCEPT ![v].drillMode = ~@] = seen
  OBVIOUS
<1>2. "drillMode" \in DOMAIN report[v] /\ Fields(report[v], DOMAIN report[v])
      /\ report[v].drillMode \in BOOLEAN
  BY DEF ViewShape, Fields, Visuals
<1>3. /\ m.drillMode \in BOOLEAN /\ Fields(m, DOMAIN report[v])
      /\ \A n \in DOMAIN report[v] \ {"drillMode"} : m[n] = report[v][n]
  BY <1>2 DEF Fields
<1> SUFFICES ViewShape(seen)
  BY <1>1
<1>4. Fields(report, Parts) /\ v \in Parts
  BY DEF ViewShape, Visuals
<1> HIDE DEF m
<1>5. Fields(seen, Parts) /\ seen[v] = m /\ \A n \in Parts \ {v} : seen[n] = report[n]
  BY <1>4 DEF Fields
<1> HIDE DEF seen
<1>6. CASE v = "matrix"
  <2>1. /\ seen.matrix = m /\ seen.filter = report.filter
        /\ seen.waterfall = report.waterfall /\ seen.pie = report.pie
    BY <1>5, <1>6
  <2>2. Fields(m, {"drill", "drillMode", "expandAll"}) /\ m.expandAll = report.matrix.expandAll
    BY <1>3, <1>6 DEF ViewShape, Fields
  <2> QED BY <1>3, <1>5, <2>1, <2>2 DEF ViewShape
<1>7. CASE v = "waterfall"
  <2>1. /\ seen.waterfall = m /\ seen.filter = report.filter
        /\ seen.matrix = report.matrix /\ seen.pie = report.pie
    BY <1>5, <1>7
  <2>2. /\ Fields(m, {"axis", "drills", "drillMode"})
        /\ m.axis = report.waterfall.axis /\ m.drills = report.waterfall.drills
    BY <1>3, <1>7 DEF ViewShape, Fields
  <2> QED BY <1>3, <1>5, <2>1, <2>2 DEF ViewShape
<1>8. CASE v = "pie"
  <2>1. /\ seen.pie = m /\ seen.filter = report.filter
        /\ seen.matrix = report.matrix /\ seen.waterfall = report.waterfall
    BY <1>5, <1>8
  <2>2. Fields(m, {"drill", "drillMode"})
    BY <1>3, <1>8 DEF ViewShape, Fields
  <2> QED BY <1>3, <1>5, <2>1, <2>2 DEF ViewShape
<1> QED BY <1>6, <1>7, <1>8 DEF Visuals

LEMMA AxisShape == ASSUME ViewShape(report), NEW axis \in {"date", "category"}
  PROVE  ViewShape([report EXCEPT !.waterfall.axis = axis])
<1> USE DEF ViewShape, Fields
<1> DEFINE m == [report.waterfall EXCEPT !.axis = axis]
<1>1. [report EXCEPT !.waterfall.axis = axis] = [report EXCEPT !.waterfall = m]
  OBVIOUS
<1>2. /\ Fields(m, {"axis", "drills", "drillMode"}) /\ m.drillMode \in BOOLEAN
      /\ m.axis = axis /\ m.drills = report.waterfall.drills
  OBVIOUS
<1> HIDE DEF m
<1> QED BY <1>1, <1>2

LEMMA ExpandShape == ASSUME ViewShape(report)
  PROVE  ViewShape([report EXCEPT !.matrix.expandAll = ~@])
<1> USE DEF ViewShape, Fields
<1> DEFINE m == [report.matrix EXCEPT !.expandAll = ~@]
<1>1. [report EXCEPT !.matrix.expandAll = ~@] = [report EXCEPT !.matrix = m]
  OBVIOUS
<1>2. Fields(m, {"drill", "drillMode", "expandAll"}) /\ m.drillMode \in BOOLEAN /\ m.expandAll \in BOOLEAN
  OBVIOUS
<1> HIDE DEF m
<1> QED BY <1>1, <1>2

LEMMA InitialShape == ViewShape(INITIAL_VIEW)
  BY DEF ViewShape, Fields, INITIAL_VIEW, Visuals
LEMMA Restarted == ASSUME ViewShape(report) PROVE RestartIsComplete
<1> USE DEF INITIAL_VIEW
<1>1. ASSUME isDefaultView PROVE report = INITIAL_VIEW
  <2>1. /\ report.years = {} /\ report.months = {}
        /\ \A v \in Visuals : report.filter[v] = {}
        /\ report.matrix.drillMode = FALSE /\ report.waterfall.drillMode = FALSE
        /\ report.pie.drillMode = FALSE
        /\ report.matrix.drill = <<>> /\ report.matrix.expandAll = FALSE
        /\ report.waterfall.axis = "date" /\ report.pie.drill = <<>>
        /\ report.waterfall.drills.date = <<>> /\ report.waterfall.drills.category = <<>>
    BY <1>1 DEF isDefaultView, ViewShape, Visuals
  <2>2. report.filter = INITIAL_VIEW.filter
    BY <2>1 DEF ViewShape, Fields
  <2>3. report.matrix = INITIAL_VIEW.matrix
    BY <2>1 DEF ViewShape, Fields
  <2>4. report.pie = INITIAL_VIEW.pie
    BY <2>1 DEF ViewShape, Fields
  <2>5. report.waterfall.drills = INITIAL_VIEW.waterfall.drills
    BY <2>1 DEF ViewShape, Fields
  <2>6. report.waterfall = INITIAL_VIEW.waterfall
    BY <2>1, <2>5 DEF ViewShape, Fields
  <2> QED BY <2>1, <2>2, <2>3, <2>4, <2>6 DEF ViewShape, Fields
<1>2. ASSUME report = INITIAL_VIEW PROVE isDefaultView
  BY <1>2 DEF isDefaultView, Visuals
<1> QED BY <1>1, <1>2 DEF RestartIsComplete

LEMMA ReportStep ==
  ASSUME ReportInv, [\E rows : ReportNext(rows)]_reportVars
  PROVE  ReportInv'
<1> SUFFICES ASSUME NEW rows, ReportNext(rows) PROVE ReportInv'
  <2>1. CASE UNCHANGED reportVars
    BY <2>1 DEF reportVars, ReportInv, GridInv, GridShowsTheRows
  <2> QED BY <2>1
<1>1. ASSUME NEW y, NEW extend, PickYear(y, extend) PROVE ReportInv'
  BY <1>1, SlicerShape, SeeKeeps DEF PickYear, ReportInv
<1>2. ASSUME NEW m, NEW extend, PickMonth(m, extend) PROVE ReportInv'
  <2> DEFINE months == slicerPick(report.months, m, extend)
  <2>1. See([report EXCEPT !.months = months])
    BY <1>2 DEF PickMonth
  <2> HIDE DEF months
  <2>2. ViewShape([report EXCEPT !.months = months])
    BY DEF ReportInv, ViewShape, Fields
  <2> QED BY <2>1, <2>2, SeeKeeps
<1>3. ASSUME NEW v \in Visuals, NEW key, NEW extend, ClickMark(v, key, extend) PROVE ReportInv'
  BY <1>3, DrillIntoShape, FilterShape, SeeKeeps DEF ClickMark, ReportInv
<1>4. ASSUME NEW path, ClickRow(path) PROVE ReportInv'
  BY <1>4, DrillIntoShape, SeeKeeps DEF ClickRow, ReportInv, Visuals
<1>5. ASSUME NEW account, ClickHeader(account) PROVE ReportInv'
  BY <1>5, FilterShape, SeeKeeps DEF ClickHeader, ReportInv, Visuals
<1>6. ASSUME NEW v \in Visuals, DrillUp(v) \/ NextLevel(v) \/ ToggleDrillMode(v) PROVE ReportInv'
  BY <1>6, DrillShape, SwitchShape, SeeKeeps DEF DrillUp, NextLevel, ToggleDrillMode, ReportInv
<1>7. ASSUME NEW axis \in {"date", "category"}, SwitchAxis(axis) PROVE ReportInv'
  BY <1>7, AxisShape, SeeKeeps DEF SwitchAxis, ReportInv
<1>8. CASE ToggleExpandAll \/ Restart
  BY <1>8, ExpandShape, InitialShape, SeeKeeps DEF ToggleExpandAll, Restart, ReportInv
<1>9. CASE ChunkLoads \/ TableBuilt
  <2>1. feed' = feed /\ report' = report
    BY <1>9 DEF ChunkLoads, TableBuilt
  <2>2. CASE ChunkLoads
    BY <2>1, <2>2 DEF ChunkLoads, ReportInv, GridInv, GridShowsTheRows
  <2>3. CASE TableBuilt
    BY <2>1, <2>3 DEF TableBuilt, ReportInv, GridInv, GridShowsTheRows
  <2> QED BY <1>9, <2>2, <2>3
<1>10. CASE Refetch(rows)
  BY <1>10, RenderKeepsTheGrid DEF Refetch, ReportInv
<1> QED
  BY <1>1, <1>2, <1>3, <1>4, <1>5, <1>6, <1>7, <1>8, <1>9, <1>10 DEF ReportNext, Visuals

LEMMA ReportInvariant == Spec => []ReportInv
<1>1. Init => ReportInv
  <2>1. ASSUME NEW rows, ReportInit(rows) PROVE ReportInv
    BY <2>1, InitialShape DEF ReportInit, Mounted, ReportInv, GridInv, GridShowsTheRows
  <2> QED BY <2>1 DEF Init
<1>2. [Next]_vars => [\E rows : ReportNext(rows)]_reportVars
  BY DEF Next, vars
<1> QED BY <1>1, <1>2, ReportStep, PTL DEF Spec

(* A grid that is built shows the rows, the account columns and the marked  *)
(* headers of the view as it is, for any rows and accounts, however often   *)
(* it is mounted and whatever changes while its library loads.              *)
THEOREM GridIsTheView == Spec => []GridShowsTheRows
<1>1. ReportInv => GridShowsTheRows
  BY DEF ReportInv, GridInv
<1> QED BY <1>1, ReportInvariant, PTL

(* Restart is offered exactly when something on the page is not as it       *)
(* opens, over every sequence of slicers, filters, drills, axes, visuals    *)
(* and refetches: isDefaultView looks at enough.                            *)
THEOREM RestartShows == Spec => []RestartIsComplete
<1>1. ReportInv => RestartIsComplete
  BY Restarted DEF ReportInv
<1> QED BY <1>1, ReportInvariant, PTL

-----------------------------------------------------------------------------
(* More about sums: of nothing, of one summand more, of an interval.        *)
LEMMA SumsAreTotals ==
  /\ \A f, S : SumFunctionOnSet(f, S) = Total(f, S)
  /\ \A f : SumFunction(f) = Total(f, DOMAIN f)
  BY DEF SumFunction, SumFunctionOnSet, Total

LEMMA TotalType ==
  ASSUME NEW S, NEW f, IsFiniteSet(S), \A x \in S : f[x] \in Int
  PROVE  Total(f, S) \in Int
<1>1. PICK g : Sums(g, f, S) /\ Total(f, S) = g[S]
  BY TotalIsASum
<1> QED BY <1>1 DEF Sums

LEMMA TotalSame ==
  ASSUME NEW S, NEW f, NEW h, IsFiniteSet(S), \A x \in S : f[x] \in Int /\ h[x] = f[x]
  PROVE  Total(f, S) = Total(h, S)
BY TotalWithoutZeros

LEMMA TotalOfNothing == \A f : Total(f, {}) = 0
<1> SUFFICES ASSUME NEW f PROVE Total(f, {}) = 0
  OBVIOUS
<1>1. IsFiniteSet({})
  BY FS_EmptySet
<1>2. PICK g : Sums(g, f, {}) /\ Total(f, {}) = g[{}]
  BY <1>1, TotalIsASum
<1> QED BY <1>2 DEF Sums

(* One summand more. *)
LEMMA TotalMore ==
  ASSUME NEW S, NEW x, NEW f, IsFiniteSet(S), x \notin S, f[x] \in Int, \A y \in S : f[y] \in Int
  PROVE  Total(f, S \union {x}) = Total(f, S) + f[x]
<1> DEFINE D == S \union {x}
<1>1. IsFiniteSet(D) /\ \A y \in D : f[y] \in Int
  BY FS_AddElement
<1>2. PICK g : Sums(g, f, D) /\ Total(f, D) = g[D]
  BY <1>1, TotalIsASum
<1>3. PICK k : Sums(k, f, S) /\ Total(f, S) = k[S]
  BY TotalIsASum
<1>4. InAnyOrder(g, f, D)
  BY <1>1, <1>2, TakeAny
<1>5. D \in SUBSET D /\ x \in D /\ D \ {x} = S
  OBVIOUS
<1>6. g[D] = f[x] + g[S]
  BY <1>4, <1>5 DEF InAnyOrder
<1> DEFINE T == {s \in SUBSET S : g[s] = k[s]}
<1>7. ASSUME NEW s \in SUBSET S, \A t \in SUBSET s : t # s => t \in T PROVE s \in T
  <2>1. s \in SUBSET D
    OBVIOUS
  <2>2. CASE s = {}
    BY <1>2, <1>3, <2>1, <2>2 DEF Sums
  <2>3. CASE s # {}
    <3>1. Pick(s) \in s
      BY <2>3 DEF Pick
    <3>2. g[s \ {Pick(s)}] = k[s \ {Pick(s)}]
      BY <1>7, <3>1
    <3>3. g[s] = f[Pick(s)] + g[s \ {Pick(s)}]
      BY <1>2, <2>1, <2>3 DEF Sums
    <3>4. k[s] = f[Pick(s)] + k[s \ {Pick(s)}]
      BY <1>3, <2>3 DEF Sums
    <3> QED BY <3>2, <3>3, <3>4
  <2> QED BY <2>2, <2>3
<1>8. \A s \in SUBSET S : s \in T
  <2>1. Inherited(S, T)
    BY <1>7 DEF Inherited
  <2> HIDE DEF T
  <2> QED BY <2>1, SubsetInduction
<1>9. g[S] = k[S] /\ k[S] \in Int
  BY <1>3, <1>8 DEF Sums
<1> QED BY <1>2, <1>3, <1>6, <1>9

LEMMA UptoFinite == \A n \in Nat : IsFiniteSet(1..n)
BY FS_Interval

LEMMA TotalNext ==
  ASSUME NEW n \in Nat, NEW f, \A i \in 1..(n + 1) : f[i] \in Int
  PROVE  /\ Total(f, 1..(n + 1)) = Total(f, 1..n) + f[n + 1]
         /\ Total(f, 1..n) \in Int
<1> DEFINE S == 1..n  x == n + 1
<1>1. IsFiniteSet(S)
  BY UptoFinite
<1>2. x \notin S /\ 1..x = S \union {x}
  OBVIOUS
<1>3. (\A i \in S : f[i] \in Int) /\ f[x] \in Int
  OBVIOUS
<1> HIDE DEF S
<1>4. Total(f, S) \in Int
  BY ONLY <1>1, <1>3, TotalType
<1>5. Total(f, S \union {x}) = Total(f, S) + f[x]
  <2> HIDE DEF x
  <2> QED BY ONLY <1>1, <1>2, <1>3, TotalMore
<1>6. Total(f, 1..x) = Total(f, S) + f[x]
  BY ONLY <1>2, <1>5
<1> QED BY <1>4, <1>6 DEF S

(* The largest and the smallest of finitely many integers. *)
LEMMA HasMax ==
  ASSUME NEW S, S \subseteq Int, IsFiniteSet(S), S # {}
  PROVE  Max(S) \in S /\ \A y \in S : y <= Max(S)
<1> DEFINE T == {s \in SUBSET S : s # {} => \E x \in s : \A y \in s : y <= x}
<1>1. ASSUME NEW s \in SUBSET S, \A t \in SUBSET s : t # s => t \in T PROVE s \in T
  <2> SUFFICES ASSUME s # {} PROVE \E x \in s : \A y \in s : y <= x
    OBVIOUS
  <2>1. PICK c \in s : TRUE
    OBVIOUS
  <2>2. s \ {c} \in T
    BY <1>1, <2>1
  <2>3. CASE s \ {c} = {}
    <3>1. \A y \in s : y <= c
      BY <2>1, <2>3
    <3> QED BY <2>1, <3>1
  <2>4. CASE s \ {c} # {}
    <3>1. PICK x \in s \ {c} : \A y \in s \ {c} : y <= x
      BY <2>2, <2>4
    <3>2. CASE c <= x
      <4>1. \A y \in s : y <= x
        BY <3>1, <3>2
      <4> QED BY <3>1, <4>1
    <3>3. CASE ~(c <= x)
      <4>1. \A y \in s : y <= c
        BY <2>1, <3>1, <3>3
      <4> QED BY <2>1, <4>1
    <3> QED BY <3>2, <3>3
  <2> QED BY <2>3, <2>4
<1>2. \A s \in SUBSET S : s \in T
  <2>1. Inherited(S, T)
    BY <1>1 DEF Inherited
  <2> HIDE DEF T
  <2> QED BY <2>1, SubsetInduction
<1>3. PICK x \in S : \A y \in S : y <= x
  BY <1>2
<1>4. \A y \in S : x >= y
  BY <1>3
<1>5. Max(S) \in S /\ \A y \in S : Max(S) >= y
  BY <1>3, <1>4 DEF Max
<1> QED BY <1>5

LEMMA HasMin ==
  ASSUME NEW S, S \subseteq Int, IsFiniteSet(S), S # {}
  PROVE  Min(S) \in S /\ \A y \in S : Min(S) <= y
<1> DEFINE M == {-y : y \in S}  f == [y \in S |-> -y]
<1>1. f \in Surjection(S, M)
  BY DEF Surjection
<1>2. IsFiniteSet(M)
  <2> HIDE DEF f, M
  <2> QED BY <1>1, FS_Surjection
<1>3. M \subseteq Int /\ M # {}
  OBVIOUS
<1>4. Max(M) \in M /\ \A y \in M : y <= Max(M)
  <2> HIDE DEF M
  <2> QED BY <1>2, <1>3, HasMax
<1>5. PICK x \in S : Max(M) = -x
  BY <1>4
<1>6. ASSUME NEW y \in S PROVE x <= y
  <2>1. -y <= -x
    BY <1>4, <1>5
  <2> QED BY <2>1
<1>7. \E z \in S : \A y \in S : z <= y
  BY <1>6
<1> QED BY <1>7 DEF Min

-----------------------------------------------------------------------------
(* Sequences. *)
IsList(s) == Len(s) \in Nat /\ s = [i \in 1..Len(s) |-> s[i]]

LEMMA ListIs ==
  ASSUME NEW N \in Nat, NEW s, s = [i \in 1..N |-> s[i]]
  PROVE  IsList(s) /\ Len(s) = N /\ DOMAIN s = 1..N
<1>1. s \in Seq({s[i] : i \in 1..N}) /\ DOMAIN s = 1..N
  OBVIOUS
<1> QED BY <1>1 DEF IsList

LEMMA ListDomain == ASSUME NEW s, IsList(s) PROVE Len(s) \in Nat /\ DOMAIN s = 1..Len(s)
<1> DEFINE N == Len(s)
<1>1. N \in Nat /\ s = [i \in 1..N |-> s[i]]
  BY DEF IsList
<1> HIDE DEF N
<1>2. DOMAIN s = 1..N
  BY <1>1
<1> QED BY <1>1, <1>2 DEF N

LEMMA NoList == IsList(<<>>) /\ Len(<<>>) = 0 /\ DOMAIN <<>> = {}
<1>1. <<>> \in Seq({}) /\ Len(<<>>) = 0
  OBVIOUS
<1> QED BY <1>1 DEF IsList

LEMMA OneList == ASSUME NEW x PROVE IsList(<<x>>) /\ Len(<<x>>) = 1 /\ <<x>>[1] = x
<1>1. <<x>> \in Seq({x}) /\ Len(<<x>>) = 1
  OBVIOUS
<1> QED BY <1>1 DEF IsList

(* One list after another. *)
LEMMA JoinedList ==
  ASSUME NEW s, NEW t, IsList(s), IsList(t)
  PROVE  /\ IsList(s \o t) /\ Len(s \o t) = Len(s) + Len(t)
         /\ \A i \in 1..Len(s) : (s \o t)[i] = s[i]
         /\ \A i \in 1..Len(t) : (s \o t)[Len(s) + i] = t[i]
<1> DEFINE T == {s[i] : i \in 1..Len(s)} \union {t[i] : i \in 1..Len(t)}
<1>1. s \in Seq(T)
  <2>1. Len(s) \in Nat /\ s = [i \in 1..Len(s) |-> s[i]] /\ \A i \in 1..Len(s) : s[i] \in T
    BY DEF IsList
  <2> HIDE DEF T
  <2> QED BY <2>1
<1>2. t \in Seq(T)
  <2>1. Len(t) \in Nat /\ t = [i \in 1..Len(t) |-> t[i]] /\ \A i \in 1..Len(t) : t[i] \in T
    BY DEF IsList
  <2> HIDE DEF T
  <2> QED BY <2>1
<1> HIDE DEF T
<1> DEFINE w == s \o t
<1>3. /\ w \in Seq(T) /\ Len(w) = Len(s) + Len(t) /\ Len(s) \in Nat /\ Len(t) \in Nat
  BY <1>1, <1>2
<1>4. \A i \in 1..Len(s) : w[i] = s[i]
  BY <1>1, <1>2
<1>5. \A i \in 1..Len(t) : w[Len(s) + i] = t[i]
  BY <1>1, <1>2
<1> HIDE DEF w
<1>6. IsList(w)
  BY <1>3 DEF IsList
<1> QED BY <1>3, <1>4, <1>5, <1>6 DEF w

LEMMA JoinedSet ==
  ASSUME NEW s, NEW t, IsList(s), IsList(t)
  PROVE  ToSet(s \o t) = ToSet(s) \union ToSet(t)
<1> DEFINE w == s \o t  M == Len(s)  N == Len(t)
<1>1. /\ M \in Nat /\ N \in Nat /\ DOMAIN w = 1..(M + N) /\ DOMAIN s = 1..M /\ DOMAIN t = 1..N
      /\ \A i \in 1..M : w[i] = s[i]
  BY JoinedList, ListDomain
<1>2. \A i \in 1..N : w[M + i] = t[i]
  BY JoinedList
<1> HIDE DEF w, M, N
<1>3. /\ ToSet(w) = {w[i] : i \in 1..(M + N)}
      /\ ToSet(s) = {s[i] : i \in 1..M} /\ ToSet(t) = {t[i] : i \in 1..N}
  BY <1>1 DEF ToSet
<1>4. ASSUME NEW i \in 1..(M + N) PROVE w[i] \in ToSet(s) \union ToSet(t)
  <2>1. CASE i \in 1..M
    BY <1>1, <1>3, <2>1
  <2>2. CASE i \notin 1..M
    <3>1. i - M \in 1..N /\ M + (i - M) = i
      BY <1>1, <2>2
    <3>2. w[i] = t[i - M]
      BY <1>2, <3>1
    <3> QED BY <1>3, <3>1, <3>2
  <2> QED BY <2>1, <2>2
<1>5. ToSet(s) \subseteq ToSet(w)
  <2>1. \A i \in 1..M : i \in 1..(M + N)
    BY <1>1
  <2> QED BY <1>1, <1>3, <2>1
<1>6. ToSet(t) \subseteq ToSet(w)
  <2>1. \A i \in 1..N : M + i \in 1..(M + N)
    BY <1>1
  <2> QED BY <1>2, <1>3, <2>1
<1>7. ToSet(w) = ToSet(s) \union ToSet(t)
  BY <1>3, <1>4, <1>5, <1>6
<1> QED BY <1>7 DEF w

LEMMA NothingBefore == ASSUME NEW s, IsList(s) PROVE <<>> \o s = s
<1> DEFINE w == <<>> \o s  N == Len(s)
<1>1. IsList(w) /\ Len(w) = 0 + N /\ N \in Nat /\ \A i \in 1..N : w[0 + i] = s[i]
  BY NoList, JoinedList, ListDomain
<1>2. s = [i \in 1..N |-> s[i]]
  BY DEF IsList
<1> HIDE DEF w, N
<1>3. w = [i \in 1..N |-> w[i]]
  BY <1>1 DEF IsList
<1>4. \A i \in 1..N : w[i] = s[i]
  BY <1>1
<1>5. w = s
  BY <1>2, <1>3, <1>4
<1> QED BY <1>5 DEF w

(* FlattenSeq, one list at a time. *)
Steps(g, ss, N) ==
  /\ g[0] = <<>> /\ g[N] = FlattenSeq(ss)
  /\ \A i \in 0..N : IsList(g[i])
  /\ \A i \in 1..N : g[i] = g[i - 1] \o ss[i]

LEMMA Flattening ==
  ASSUME NEW N \in Nat, NEW ss, ss = [i \in 1..N |-> ss[i]], \A i \in 1..N : IsList(ss[i])
  PROVE  \E g : Steps(g, ss, N)
<1> DEFINE P(f) == f = [i \in 1..N |-> IF i = 1 THEN ss[i] ELSE f[i - 1] \o ss[i]]
           flatten == CHOOSE f : P(f)
<1>1. Len(ss) = N /\ IsList(ss)
  BY ListIs
<1>2. FlattenSeq(ss) = IF N = 0 THEN ss ELSE flatten[N]
  BY <1>1 DEF FlattenSeq
<1>3. \E f : P(f)
  <2> DEFINE Upto(f, n) == /\ f = [i \in 1..N |-> f[i]]
                           /\ \A i \in 1..N : i <= n => f[i] = IF i = 1 THEN ss[i] ELSE f[i - 1] \o ss[i]
             T == {n \in Nat : \E f : Upto(f, n)}
  <2>1. 0 \in T
    <3>1. Upto([i \in 1..N |-> 0], 0)
      OBVIOUS
    <3> HIDE DEF Upto
    <3> QED BY <3>1
  <2>2. ASSUME NEW n \in Nat, n \in T PROVE n + 1 \in T
    <3>1. PICK f : Upto(f, n)
      BY <2>2
    <3> DEFINE h == [i \in 1..N |-> IF i <= n THEN f[i] ELSE IF i = 1 THEN ss[i] ELSE f[i - 1] \o ss[i]]
    <3>2. ASSUME NEW i \in 1..N, i <= n + 1
          PROVE  h[i] = IF i = 1 THEN ss[i] ELSE h[i - 1] \o ss[i]
      <4>1. CASE i = 1
        <5>1. i <= n => f[i] = ss[i]
          BY <3>1, <4>1
        <5> QED BY <4>1, <5>1
      <4>2. CASE i # 1
        <5>1. i - 1 \in 1..N /\ i - 1 <= n
          BY <3>2, <4>2
        <5>2. h[i - 1] = f[i - 1]
          BY <5>1
        <5>3. i <= n => f[i] = f[i - 1] \o ss[i]
          BY <3>1, <4>2
        <5>4. h[i] = f[i - 1] \o ss[i]
          BY <4>2, <5>3
        <5> QED BY <4>2, <5>2, <5>4
      <4> QED BY <4>1, <4>2
    <3>3. h = [i \in 1..N |-> h[i]]
      OBVIOUS
    <3> HIDE DEF h
    <3>4. Upto(h, n + 1)
      BY <3>2, <3>3
    <3> HIDE DEF Upto
    <3> QED BY <3>4
  <2>3. N \in T
    <3> HIDE DEF T
    <3> QED BY <2>1, <2>2, CountingUp
  <2>4. PICK f : Upto(f, N)
    BY <2>3
  <2>5. \A i \in 1..N : i <= N => f[i] = IF i = 1 THEN ss[i] ELSE f[i - 1] \o ss[i]
    BY ONLY <2>4
  <2>7. f = [i \in 1..N |-> f[i]]
    BY ONLY <2>4
  <2>8. \A i \in 1..N : i <= N
    OBVIOUS
  <2>9. \A i \in 1..N : f[i] = IF i = 1 THEN ss[i] ELSE f[i - 1] \o ss[i]
    BY <2>5, <2>8
  <2>6. P(f)
    BY <2>7, <2>9
  <2> HIDE DEF P
  <2> QED BY <2>6
<1>4. P(flatten)
  <2> HIDE DEF P
  <2> QED BY <1>3
<1> HIDE DEF flatten
<1>5. \A i \in 1..N : flatten[i] = IF i = 1 THEN ss[i] ELSE flatten[i - 1] \o ss[i]
  BY <1>4
<1> HIDE DEF P
<1> DEFINE g == [i \in 0..N |-> IF i = 0 THEN <<>> ELSE flatten[i]]
<1>6. ASSUME NEW i \in 1..N PROVE g[i] = g[i - 1] \o ss[i]
  <2>1. CASE i = 1
    <3>1. g[i] = ss[i] /\ g[i - 1] = <<>>
      BY <1>5, <2>1
    <3>2. IsList(ss[i])
      OBVIOUS
    <3> QED BY <3>1, <3>2, NothingBefore
  <2>2. CASE i # 1
    <3>1. i - 1 \in 0..N /\ i - 1 # 0 /\ i \in 0..N /\ i # 0
      BY <2>2
    <3>2. flatten[i] = flatten[i - 1] \o ss[i]
      BY <1>5, <2>2
    <3> QED BY <3>1, <3>2
  <2> QED BY <2>1, <2>2
<1>7. g[0] = <<>>
  OBVIOUS
<1>8. g[N] = FlattenSeq(ss)
  <2>1. CASE N = 0
    <3>1. ss = <<>>
      BY <2>1
    <3> QED BY <1>2, <1>7, <2>1, <3>1
  <2>2. CASE N # 0
    BY <1>2, <2>2
  <2> QED BY <2>1, <2>2
<1> HIDE DEF g
<1> DEFINE T == {n \in Nat : n <= N => IsList(g[n])}
<1>9. 0 \in T
  BY <1>7, NoList
<1>10. ASSUME NEW n \in Nat, n \in T PROVE n + 1 \in T
  <2> SUFFICES ASSUME n + 1 <= N PROVE IsList(g[n + 1])
    OBVIOUS
  <2>1. n + 1 \in 1..N /\ (n + 1) - 1 = n /\ IsList(g[n]) /\ IsList(ss[n + 1])
    BY <1>10
  <2>2. g[n + 1] = g[n] \o ss[n + 1]
    BY <1>6, <2>1
  <2> QED BY <2>1, <2>2, JoinedList
<1>11. \A n \in Nat : n \in T
  <2> HIDE DEF T
  <2> QED BY <1>9, <1>10, CountingUp
<1>12. \A i \in 0..N : IsList(g[i])
  BY <1>11
<1>13. Steps(g, ss, N)
  BY <1>6, <1>7, <1>8, <1>12 DEF Steps
<1> QED BY <1>13

-----------------------------------------------------------------------------
(* The books, and the rows of the files that hold a part of them.          *)
Amounts(a) == [j \in DOMAIN Ledger[a] |-> Ledger[a][j].amount]

LEMMA LedgerIs ==
  ASSUME NEW a \in DOMAIN Ledger
  PROVE  /\ Len(Ledger[a]) \in Nat /\ DOMAIN Ledger[a] = 1..Len(Ledger[a])
         /\ \A i \in DOMAIN Ledger[a] : Ledger[a][i].date \in Int /\ Ledger[a][i].amount \in Int
         /\ \A i, j \in DOMAIN Ledger[a] : i <= j => Ledger[a][i].date <= Ledger[a][j].date
<1> DEFINE l == Ledger[a]  R == [date : Int, amount : Int, words : SUBSET STRING]
<1>1. l \in Seq(R) /\ \A i, j \in DOMAIN l : i < j => l[i].date <= l[j].date
  BY LedgerIsBooks
<1> HIDE DEF l, R
<1>2. Len(l) \in Nat /\ DOMAIN l = 1..Len(l) /\ \A i \in DOMAIN l : l[i] \in R
  BY <1>1
<1>3. \A i \in DOMAIN l : l[i].date \in Int /\ l[i].amount \in Int
  BY <1>2 DEF R
<1>4. ASSUME NEW i \in DOMAIN l, NEW j \in DOMAIN l, i <= j PROVE l[i].date <= l[j].date
  <2>1. i \in Int /\ j \in Int
    BY <1>2
  <2>2. CASE i = j
    BY <1>3, <2>2
  <2>3. CASE i # j
    BY <1>1, <1>4, <2>1, <2>3
  <2> QED BY <2>2, <2>3
<1>5. \A i, j \in DOMAIN l : i <= j => l[i].date <= l[j].date
  BY <1>4
<1> QED BY <1>2, <1>3, <1>5 DEF l

LEMMA BooksAre ==
  ASSUME NEW a \in DOMAIN Ledger, NEW n \in 0..Len(Ledger[a])
  PROVE  /\ Books(a, n) = Opening[a] + Total(Amounts(a), 1..n)
         /\ Opening[a] \in Int /\ Total(Amounts(a), 1..n) \in Int /\ Books(a, n) \in Int
<1>1. /\ Len(Ledger[a]) \in Nat /\ DOMAIN Ledger[a] = 1..Len(Ledger[a])
      /\ \A i \in DOMAIN Ledger[a] : Ledger[a][i].amount \in Int
  BY LedgerIs
<1>2. Books(a, n) = Opening[a] + Total(Amounts(a), 1..n)
  BY SumsAreTotals DEF Books, Amounts
<1>3. \A i \in 1..n : Amounts(a)[i] \in Int
  <2>1. \A i \in 1..n : i \in DOMAIN Ledger[a]
    BY <1>1
  <2> QED BY <1>1, <2>1 DEF Amounts
<1>4. IsFiniteSet(1..n)
  BY <1>1, FS_Interval
<1>5. Total(Amounts(a), 1..n) \in Int
  BY <1>3, <1>4, TotalType
<1>6. Opening[a] \in Int
  BY LedgerIsBooks
<1> QED BY <1>2, <1>5, <1>6

Fields5 == {"date", "words", "balance", "debit", "credit"}

(* A parsed row is that of transaction i, of those up to d: where a balance  *)
(* is stated it is the bank's, on deposit accounts on the last row of a day. *)
Booked(a, i, d, r) ==
  /\ DOMAIN r = Fields5
  /\ r.date = Ledger[a][i].date /\ Money(r) = Ledger[a][i].amount
  /\ a = "CreditCard" => r.balance \in {NULL, Books(a, i)}
  /\ a # "CreditCard" /\ (\A j \in (i + 1)..d : Ledger[a][j].date # Ledger[a][i].date)
       => r.balance = Books(a, i)

LEMMA SignsAre ==
  ASSUME NEW r, NEW c, DOMAIN r = Fields5
  PROVE  LET s == to_canonical_signs(r, c) IN
         /\ DOMAIN s = Fields5
         /\ s.date = r.date
         /\ s.debit = IF c.money = "card_ledger" THEN Negate(r.debit) ELSE r.debit
         /\ s.credit = IF c.money = "card_ledger" THEN Negate(r.credit) ELSE r.credit
         /\ s.balance = IF c.balance = "asset" THEN r.balance
                        ELSE IF c.balance = "debt" THEN Negate(r.balance) ELSE NULL
BY DEF to_canonical_signs, Fields5

LEMMA RowIsBooked ==
  ASSUME NEW a \in DOMAIN Ledger, NEW version \in {"v1", "v2"},
         NEW c \in Nat, NEW d \in Nat, d <= Len(Ledger[a]), NEW i \in (c + 1)..d
  PROVE  LET s == to_canonical_signs(ExportedRow(a, version, c + 1, d, i), convention_for(version, a)) IN
         /\ Booked(a, i, d, s)
         /\ version = "v2" /\ i = d => s.balance # NULL
<1> DEFINE t == Ledger[a][i]
           r == ExportedRow(a, version, c + 1, d, i)
           conv == convention_for(version, a)
           s == to_canonical_signs(r, conv)
           Day == {j \in (c + 1)..d : Ledger[a][j].date = t.date}
<1>1. /\ i \in 0..Len(Ledger[a]) /\ d \in 0..Len(Ledger[a]) /\ i \in DOMAIN Ledger[a]
      /\ t.date \in Int /\ t.amount \in Int /\ NULL \notin Int
  BY LedgerIs, LedgerIsBooks
<1>2. Max(Day) \in Day /\ i <= Max(Day) /\ Max(Day) <= d
  <2>1. IsFiniteSet((c + 1)..d)
    BY FS_Interval
  <2>2. Day \subseteq Int /\ IsFiniteSet(Day) /\ i \in Day
    BY <2>1, FS_Subset
  <2> HIDE DEF Day
  <2>3. Max(Day) \in Day /\ i <= Max(Day)
    BY <2>2, HasMax
  <2> QED BY <2>3 DEF Day
<1>3. Max(Day) \in 0..Len(Ledger[a]) /\ (i = d => Max(Day) = i)
  BY <1>2
<1>4. Books(a, i) \in Int /\ Books(a, Max(Day)) \in Int
  <2> HIDE DEF Day
  <2> QED BY <1>1, <1>3, BooksAre
<1> DEFINE debit == IF ~(t.amount < 0) THEN NULL
                    ELSE IF conv.money = "card_ledger" THEN -t.amount ELSE t.amount
           credit == IF ~(t.amount >= 0) THEN NULL
                     ELSE IF conv.money = "card_ledger" THEN -t.amount ELSE t.amount
           balance == IF conv.balance = "unstated" THEN 0
                      ELSE IF version = "v2" /\ i # Max(Day) THEN NULL
                      ELSE IF conv.balance = "debt" THEN -Books(a, i) ELSE Books(a, Max(Day))
<1>5. /\ DOMAIN r = Fields5 /\ r.date = t.date /\ r.debit = debit /\ r.credit = credit
      /\ r.balance = balance
  BY DEF ExportedRow, Fields5
<1> HIDE DEF r, Day
<1>6. /\ DOMAIN s = Fields5 /\ s.date = t.date
      /\ s.debit = IF conv.money = "card_ledger" THEN Negate(debit) ELSE debit
      /\ s.credit = IF conv.money = "card_ledger" THEN Negate(credit) ELSE credit
      /\ s.balance = IF conv.balance = "asset" THEN balance
                     ELSE IF conv.balance = "debt" THEN Negate(balance) ELSE NULL
  BY <1>5, SignsAre
<1> HIDE DEF s
<1>7. Money(s) = t.amount
  <2>1. s.debit = IF t.amount < 0 THEN t.amount ELSE NULL
    BY <1>1, <1>6 DEF Negate
  <2>2. s.credit = IF t.amount >= 0 THEN t.amount ELSE NULL
    BY <1>1, <1>6 DEF Negate
  <2> HIDE DEF t
  <2> QED BY <1>1, <2>1, <2>2 DEF Money
<1>8. a = "CreditCard" /\ version = "v1" => s.balance = NULL
  BY <1>6 DEF convention_for
<1>9. a = "CreditCard" /\ version = "v2" =>
        s.balance = IF i # Max(Day) THEN NULL ELSE Books(a, i)
  <2> SUFFICES ASSUME a = "CreditCard", version = "v2"
               PROVE  s.balance = IF i # Max(Day) THEN NULL ELSE Books(a, i)
    OBVIOUS
  <2>1. conv.balance = "debt"
    BY DEF convention_for
  <2>2. s.balance = Negate(IF i # Max(Day) THEN NULL ELSE -Books(a, i))
    BY <1>6, <2>1
  <2> QED BY <1>1, <1>4, <2>2 DEF Negate
<1>10. a # "CreditCard" =>
         s.balance = IF version = "v2" /\ i # Max(Day) THEN NULL ELSE Books(a, Max(Day))
  <2> SUFFICES ASSUME a # "CreditCard"
               PROVE  s.balance = IF version = "v2" /\ i # Max(Day) THEN NULL ELSE Books(a, Max(Day))
    OBVIOUS
  <2>1. conv.balance = "asset"
    BY DEF convention_for
  <2> QED BY <1>6, <2>1
<1>11. ASSUME \A j \in (i + 1)..d : Ledger[a][j].date # t.date PROVE Max(Day) = i
  <2>1. Max(Day) \in Int /\ ~(Max(Day) \in (i + 1)..d)
    BY <1>2, <1>11 DEF Day
  <2> QED BY <1>2, <2>1
<1>12. Booked(a, i, d, s)
  <2>1. a = "CreditCard" => s.balance \in {NULL, Books(a, i)}
    BY <1>8, <1>9
  <2>2. a # "CreditCard" /\ (\A j \in (i + 1)..d : Ledger[a][j].date # t.date) => s.balance = Books(a, i)
    BY <1>10, <1>11
  <2> QED BY <1>6, <1>7, <2>1, <2>2 DEF Booked
<1>13. version = "v2" /\ i = d => s.balance # NULL
  BY <1>1, <1>3, <1>4, <1>9, <1>10
<1> QED BY <1>12, <1>13 DEF s, r

(* A file of the uploads is a part of the books: transactions c + 1 to d, as *)
(* the bank exports them, or with the first row of the card last.          *)
Turned(a, c, d) == [Export(a, "v1", c + 1, d) EXCEPT !.rows = Append(Tail(@), Head(@))]
Part(a, file, c, d) ==
  \/ file.version \notin DOMAIN RowOrder /\ file.rows = <<>> /\ c = d
  \/ \E version \in DOMAIN RowOrder : c <= d /\ file = Export(a, version, c + 1, d)
  \/ /\ a = "CreditCard" /\ c < d /\ file = Turned(a, c, d)
     /\ \A j \in (c + 2)..d : Ledger[a][j].date # Ledger[a][c + 1].date

(* Row k is transaction p[k] of c + 1 to d, rows of one day in the order of  *)
(* the books.                                                              *)
Orders(p, a, c, d) ==
  /\ p \in [1..(d - c) -> (c + 1)..d]
  /\ \A n \in (c + 1)..d : \E k \in 1..(d - c) : p[k] = n
  /\ \A j, k \in 1..(d - c) : j < k =>
       p[j] # p[k] /\ (Ledger[a][p[j]].date = Ledger[a][p[k]].date => p[j] < p[k])

AsBooked(p, a, c, d, rows) ==
  /\ IsList(rows) /\ Len(rows) = d - c
  /\ Orders(p, a, c, d)
  /\ \A k \in 1..(d - c) : Booked(a, p[k], d, rows[k])

LEMMA Layouts ==
  /\ DOMAIN RowOrder = {"v1", "v2"}
  /\ RowOrder["v1"] # "descending" /\ RowOrder["v2"] = "descending"
BY DEF RowOrder

LEMMA ReversedIs ==
  ASSUME NEW s, IsList(s)
  PROVE  /\ IsList(Reverse(s)) /\ Len(Reverse(s)) = Len(s)
         /\ \A k \in 1..Len(s) : Reverse(s)[k] = s[Len(s) - k + 1]
<1> DEFINE N == Len(s)  t == [k \in 1..N |-> s[N - k + 1]]
<1>1. N \in Nat
  BY DEF IsList
<1>2. Reverse(s) = t
  BY DEF Reverse
<1> HIDE DEF N
<1>3. t = [k \in 1..N |-> t[k]] /\ \A k \in 1..N : t[k] = s[N - k + 1]
  OBVIOUS
<1> HIDE DEF t
<1>4. IsList(t) /\ Len(t) = N
  BY <1>1, <1>3, ListIs
<1> QED BY <1>2, <1>3, <1>4 DEF N

(* The transaction on row k of an export.                                  *)
At(version, c, d, k) == IF version = "v1" THEN c + k ELSE d - k + 1

(* The transactions after the c-th, to the d-th, in the order of a layout. *)
Lists(file, a, version, c, d) ==
  /\ file.version = version /\ IsList(file.rows) /\ Len(file.rows) = d - c
  /\ \A k \in 1..(d - c) : file.rows[k] = ExportedRow(a, version, c + 1, d, At(version, c, d, k))

LEMMA ExportIs ==
  ASSUME NEW a, NEW version \in {"v1", "v2"}, NEW c \in Nat, NEW d \in Nat, c <= d
  PROVE  Lists(Export(a, version, c + 1, d), a, version, c, d)
<1> DEFINE n == d - c
           rows == [k \in 1..(d - (c + 1) + 1) |-> ExportedRow(a, version, c + 1, d, (c + 1) + k - 1)]
           e == Export(a, version, c + 1, d)
<1>1. e.version = version /\ e.rows = IF version = "v1" THEN rows ELSE Reverse(rows)
  BY DEF Export
<1>2. n \in Nat /\ d - (c + 1) + 1 = n /\ \A k \in 1..n : (c + 1) + k - 1 = c + k
  OBVIOUS
<1>3. rows = [k \in 1..n |-> rows[k]] /\ \A k \in 1..n : rows[k] = ExportedRow(a, version, c + 1, d, c + k)
  BY <1>2
<1> HIDE DEF rows, e
<1>4. IsList(rows) /\ Len(rows) = n
  BY <1>2, <1>3, ListIs
<1>5. /\ IsList(Reverse(rows)) /\ Len(Reverse(rows)) = n
      /\ \A k \in 1..n : Reverse(rows)[k] = rows[n - k + 1]
  BY <1>4, ReversedIs
<1>6. ASSUME NEW k \in 1..n PROVE Reverse(rows)[k] = ExportedRow(a, version, c + 1, d, d - k + 1)
  <2>1. n - k + 1 \in 1..n /\ c + (n - k + 1) = d - k + 1
    OBVIOUS
  <2>2. Reverse(rows)[k] = rows[n - k + 1]
    BY <1>5
  <2>3. rows[n - k + 1] = ExportedRow(a, version, c + 1, d, c + (n - k + 1))
    BY <1>3, <2>1
  <2> QED BY <2>1, <2>2, <2>3
<1>7. ASSUME version = "v1" PROVE Lists(e, a, version, c, d)
  <2>1. e.rows = rows /\ \A k \in 1..n : At(version, c, d, k) = c + k
    BY <1>1, <1>7 DEF At
  <2> QED BY <1>1, <1>3, <1>4, <2>1 DEF Lists
<1>8. ASSUME version = "v2" PROVE Lists(e, a, version, c, d)
  <2>1. e.rows = Reverse(rows) /\ \A k \in 1..n : At(version, c, d, k) = d - k + 1
    BY <1>1, <1>8 DEF At
  <2> QED BY <1>1, <1>5, <1>6, <2>1 DEF Lists
<1> QED BY <1>7, <1>8 DEF e

Signed(a, file, k) == to_canonical_signs(file.rows[k], convention_for(file.version, a))

(* The n rows of a file, oldest first and with the signs of the statement. *)
Normal(out, a, file, n) ==
  /\ IsList(out) /\ Len(out) = n
  /\ \A k \in 1..n : out[k] = Signed(a, file, IF file.version = "v1" THEN k ELSE n - k + 1)

LEMMA NormalizedIs ==
  ASSUME NEW a, NEW file, NEW n \in Nat, IsList(file.rows), Len(file.rows) = n,
         file.version \in {"v1", "v2"}
  PROVE  Normal(normalize_file(a, file), a, file, n)
<1> DEFINE rows == [k \in DOMAIN file.rows |-> to_canonical_signs(file.rows[k], convention_for(file.version, a))]
           out == normalize_file(a, file)
<1>1. out = IF RowOrder[file.version] = "descending" THEN Reverse(rows) ELSE rows
  BY DEF normalize_file
<1>2. DOMAIN file.rows = 1..n
  BY ListDomain
<1>3. rows = [k \in 1..n |-> rows[k]] /\ \A k \in 1..n : rows[k] = Signed(a, file, k)
  BY <1>2 DEF Signed
<1> HIDE DEF rows, out
<1>4. IsList(rows) /\ Len(rows) = n
  BY <1>3, ListIs
<1>5. ASSUME file.version = "v1" PROVE Normal(out, a, file, n)
  <2>1. out = rows
    BY <1>1, <1>5, Layouts
  <2> QED BY <1>3, <1>4, <1>5, <2>1 DEF Normal
<1>6. ASSUME file.version = "v2" PROVE Normal(out, a, file, n)
  <2>1. out = Reverse(rows)
    BY <1>1, <1>6, Layouts
  <2>2. IsList(out) /\ Len(out) = n /\ \A k \in 1..n : out[k] = rows[n - k + 1]
    BY <1>4, <2>1, ReversedIs
  <2>3. \A k \in 1..n : n - k + 1 \in 1..n
    OBVIOUS
  <2>4. \A k \in 1..n : out[k] = Signed(a, file, n - k + 1)
    BY <1>3, <2>2, <2>3
  <2> QED BY <1>6, <2>2, <2>4 DEF Normal
<1> QED BY <1>5, <1>6 DEF out

LEMMA TurnedIs ==
  ASSUME NEW a, NEW c \in Nat, NEW d \in Nat, c < d
  PROVE  LET e == Turned(a, c, d) IN
         /\ e.version = "v1" /\ IsList(e.rows) /\ Len(e.rows) = d - c
         /\ \A k \in 1..(d - c) :
              e.rows[k] = ExportedRow(a, "v1", c + 1, d, IF k < d - c THEN c + 1 + k ELSE c + 1)
<1> DEFINE x == Export(a, "v1", c + 1, d)  rows == x.rows  n == d - c  e == Turned(a, c, d)
           E == {rows[k] : k \in 1..n}
<1>1. /\ x.version = "v1" /\ IsList(rows) /\ Len(rows) = n
      /\ \A k \in 1..n : rows[k] = ExportedRow(a, "v1", c + 1, d, c + k)
  <2>1. c <= d /\ \A k \in 1..n : At("v1", c, d, k) = c + k
    BY DEF At
  <2>2. Lists(x, a, "v1", c, d)
    BY <2>1, ExportIs
  <2> HIDE DEF x
  <2> QED BY <2>1, <2>2 DEF Lists
<1>2. e.version = x.version /\ e.rows = Append(Tail(rows), Head(rows))
  BY DEF Turned, Export
<1>3. n \in Nat /\ n >= 1
  OBVIOUS
<1> HIDE DEF n, x, e
<1>4. rows \in Seq(E)
  <2>1. rows = [k \in 1..n |-> rows[k]] /\ \A k \in 1..n : rows[k] \in E
    BY <1>1 DEF IsList
  <2> HIDE DEF E, rows
  <2> QED BY <1>3, <2>1
<1> HIDE DEF E, rows
<1> DEFINE t == Append(Tail(rows), Head(rows))
<1>5. /\ t \in Seq(E) /\ Len(t) = n
      /\ \A k \in 1..n : t[k] = IF k < n THEN rows[1 + k] ELSE rows[1]
  <2>1. Tail(rows) \in Seq(E) /\ Len(Tail(rows)) = n - 1 /\ Head(rows) = rows[1] /\ rows[1] \in E
    BY <1>1, <1>3, <1>4
  <2>2. \A k \in 1..(n - 1) : Tail(rows)[k] = rows[1 + k]
    BY <1>1, <1>3, <1>4
  <2>3. t \in Seq(E) /\ Len(t) = (n - 1) + 1
    BY <2>1
  <2>4. t[n] = rows[1]
    BY <1>3, <2>1
  <2>5. \A k \in 1..(n - 1) : t[k] = Tail(rows)[k]
    BY <1>3, <2>1
  <2> HIDE DEF t
  <2>6. t \in Seq(E) /\ Len(t) = n
    BY <1>3, <2>3
  <2>7. ASSUME NEW k \in 1..n PROVE t[k] = IF k < n THEN rows[1 + k] ELSE rows[1]
    <3>1. k < n => k \in 1..(n - 1)
      BY <1>3
    <3>2. ~(k < n) => k = n
      BY <1>3
    <3> QED BY <2>2, <2>4, <2>5, <3>1, <3>2
  <2> QED BY <2>6, <2>7
<1> HIDE DEF t
<1>6. IsList(t)
  BY <1>5 DEF IsList
<1>7. ASSUME NEW k \in 1..n
      PROVE  t[k] = ExportedRow(a, "v1", c + 1, d, IF k < n THEN c + 1 + k ELSE c + 1)
  <2>1. CASE k < n
    <3>1. 1 + k \in 1..n /\ c + (1 + k) = c + 1 + k
      BY <1>3, <2>1
    <3> QED BY <1>1, <1>5, <2>1, <3>1
  <2>2. CASE ~(k < n)
    <3>1. 1 \in 1..n
      BY <1>3
    <3> QED BY <1>1, <1>5, <2>2, <3>1
  <2> QED BY <2>1, <2>2
<1> QED BY <1>1, <1>2, <1>5, <1>6, <1>7 DEF n, t, e

(* Some row states a balance. *)
States(rows) == \E k \in 1..Len(rows) : rows[k].balance # NULL

(* Every row of a part is booked.                                          *)
LEMMA RowsAreBooked ==
  ASSUME NEW a \in DOMAIN Ledger, NEW version \in {"v1", "v2"}, NEW c \in Nat, NEW d \in Nat,
         NEW p, NEW rows,
         c <= d, d <= Len(Ledger[a]), IsList(rows), Len(rows) = d - c, Orders(p, a, c, d),
         \A k \in 1..(d - c) : rows[k] =
            to_canonical_signs(ExportedRow(a, version, c + 1, d, p[k]), convention_for(version, a))
  PROVE  /\ AsBooked(p, a, c, d, rows)
         /\ version = "v2" /\ c < d => States(rows)
<1>1. ASSUME NEW k \in 1..(d - c)
      PROVE  Booked(a, p[k], d, rows[k]) /\ (version = "v2" /\ p[k] = d => rows[k].balance # NULL)
  <2>1. p[k] \in (c + 1)..d
    BY DEF Orders
  <2> DEFINE i == p[k]
  <2> HIDE DEF i
  <2>2. LET s == to_canonical_signs(ExportedRow(a, version, c + 1, d, i), convention_for(version, a)) IN
         /\ Booked(a, i, d, s)
         /\ version = "v2" /\ i = d => s.balance # NULL
    BY <2>1, RowIsBooked DEF i
  <2> QED BY <2>2 DEF i
<1>2. AsBooked(p, a, c, d, rows)
  BY <1>1 DEF AsBooked
<1>3. ASSUME version = "v2", c < d PROVE States(rows)
  <2>1. d \in (c + 1)..d
    BY <1>3
  <2>2. PICK k \in 1..(d - c) : p[k] = d
    BY <2>1 DEF Orders
  <2> QED BY <1>1, <1>3, <2>2 DEF States
<1> QED BY <1>2, <1>3

LEMMA PartIsBooked ==
  ASSUME NEW a \in DOMAIN Ledger, NEW file, NEW c \in Nat, NEW d \in Nat, d <= Len(Ledger[a]),
         Part(a, file, c, d), file.version \in DOMAIN RowOrder
  PROVE  /\ IsList(file.rows) /\ Len(file.rows) = d - c
         /\ \E p : AsBooked(p, a, c, d, normalize_file(a, file))
         /\ file.version = "v2" /\ c < d => States(normalize_file(a, file))
<1> DEFINE n == d - c  out == normalize_file(a, file)
           Source(v, i) == to_canonical_signs(ExportedRow(a, v, c + 1, d, i), convention_for(v, a))
<1>1. CASE \E version \in DOMAIN RowOrder : c <= d /\ file = Export(a, version, c + 1, d)
  <2>1. PICK version \in {"v1", "v2"} : c <= d /\ file = Export(a, version, c + 1, d)
    BY <1>1, Layouts
  <2>2. /\ file.version = version /\ IsList(file.rows) /\ Len(file.rows) = n
        /\ \A k \in 1..n :
             file.rows[k] = ExportedRow(a, version, c + 1, d, At(version, c, d, k))
    <3>1. Lists(Export(a, version, c + 1, d), a, version, c, d)
      BY <2>1, ExportIs
    <3>2. Lists(file, a, version, c, d)
      BY ONLY <2>1, <3>1
    <3> QED BY ONLY <3>2 DEF Lists, n
  <2>3. n \in Nat
    BY <2>1
  <2>4. /\ IsList(out) /\ Len(out) = n
        /\ \A k \in 1..n : out[k] = Signed(a, file, IF version = "v1" THEN k ELSE n - k + 1)
    <3> HIDE DEF n
    <3>1. Normal(out, a, file, n)
      BY <2>2, <2>3, NormalizedIs
    <3> HIDE DEF out
    <3> QED BY ONLY <2>2, <3>1 DEF Normal
  <2> HIDE DEF out
  <2>5. ASSUME NEW k \in 1..n PROVE out[k] = Source(version, c + k)
    <3>1. CASE version = "v1"
      <4>1. out[k] = Signed(a, file, k)
        BY <2>4, <3>1
      <4>2. file.rows[k] = ExportedRow(a, version, c + 1, d, c + k)
        BY <2>2, <3>1 DEF At
      <4> QED BY <2>2, <4>1, <4>2 DEF Signed
    <3>2. CASE version = "v2"
      <4>1. out[k] = Signed(a, file, n - k + 1)
        BY <2>4, <3>2
      <4>2. n - k + 1 \in 1..n /\ d - (n - k + 1) + 1 = c + k
        BY <2>1
      <4>3. file.rows[n - k + 1] = ExportedRow(a, version, c + 1, d, d - (n - k + 1) + 1)
        BY <2>2, <3>2, <4>2 DEF At
      <4>4. file.rows[n - k + 1] = ExportedRow(a, version, c + 1, d, c + k)
        BY <4>2, <4>3
      <4> QED BY <2>2, <4>1, <4>4 DEF Signed
    <3> QED BY <3>1, <3>2
  <2> DEFINE p == [k \in 1..n |-> c + k]
  <2>6. p \in [1..n -> (c + 1)..d] /\ \A k \in 1..n : p[k] = c + k
    BY <2>1
  <2>7. \A i \in (c + 1)..d : i - c \in 1..n /\ c + (i - c) = i
    BY <2>1
  <2> HIDE DEF p, Source
  <2>8. \A i \in (c + 1)..d : \E k \in 1..n : p[k] = i
    BY <2>6, <2>7
  <2>9. \A j, k \in 1..n : j < k =>
          p[j] # p[k] /\ (Ledger[a][p[j]].date = Ledger[a][p[k]].date => p[j] < p[k])
    BY <2>6
  <2>10. \A k \in 1..n : out[k] = Source(version, p[k])
    BY <2>5, <2>6
  <2>11. /\ AsBooked(p, a, c, d, out)
         /\ version = "v2" /\ c < d => States(out)
    <3>1. c <= d /\ Len(out) = n /\ Orders(p, a, c, d)
      BY <2>1, <2>4, <2>6, <2>8, <2>9 DEF Orders
    <3>2. \A k \in 1..n : out[k] =
             to_canonical_signs(ExportedRow(a, version, c + 1, d, p[k]), convention_for(version, a))
      BY <2>10 DEF Source
    <3> QED BY <2>4, <3>1, <3>2, RowsAreBooked
  <2> QED BY <2>2, <2>11 DEF out
<1>2. CASE /\ a = "CreditCard" /\ c < d /\ file = Turned(a, c, d)
           /\ \A j \in (c + 2)..d : Ledger[a][j].date # Ledger[a][c + 1].date
  <2>1. c < d /\ file = Turned(a, c, d) /\ \A j \in (c + 2)..d : Ledger[a][j].date # Ledger[a][c + 1].date
    BY <1>2
  <2>2. /\ file.version = "v1" /\ IsList(file.rows) /\ Len(file.rows) = n
        /\ \A k \in 1..n :
             file.rows[k] = ExportedRow(a, "v1", c + 1, d, IF k < n THEN c + 1 + k ELSE c + 1)
    BY <2>1, TurnedIs
  <2>3. n \in Nat
    BY <2>1
  <2>4. /\ IsList(out) /\ Len(out) = n /\ \A k \in 1..n : out[k] = Signed(a, file, k)
    <3> HIDE DEF n
    <3>1. Normal(out, a, file, n)
      BY <2>2, <2>3, NormalizedIs
    <3> HIDE DEF out
    <3> QED BY ONLY <2>2, <3>1 DEF Normal
  <2> HIDE DEF out
  <2> DEFINE p == [k \in 1..n |-> IF k < n THEN c + 1 + k ELSE c + 1]
  <2>5. p \in [1..n -> (c + 1)..d] /\ \A k \in 1..n : p[k] = IF k < n THEN c + 1 + k ELSE c + 1
    BY <2>1
  <2> HIDE DEF p, Source
  <2>6. ASSUME NEW i \in (c + 1)..d PROVE \E k \in 1..n : p[k] = i
    <3>1. CASE i = c + 1
      <4>1. n \in 1..n /\ p[n] = c + 1
        BY <2>1, <2>5
      <4> QED BY <3>1, <4>1
    <3>2. CASE i # c + 1
      <4>1. i - c - 1 \in 1..n /\ i - c - 1 < n /\ c + 1 + (i - c - 1) = i
        BY <3>2
      <4>2. p[i - c - 1] = i
        BY <2>5, <4>1
      <4> QED BY <4>1, <4>2
    <3> QED BY <3>1, <3>2
  <2>7. ASSUME NEW j \in 1..n, NEW k \in 1..n, j < k
        PROVE  p[j] # p[k] /\ (Ledger[a][p[j]].date = Ledger[a][p[k]].date => p[j] < p[k])
    <3>1. p[j] = c + 1 + j
      BY <2>5, <2>7
    <3>2. CASE k < n
      BY <2>5, <2>7, <3>1, <3>2
    <3>3. CASE ~(k < n)
      <4>1. p[k] = c + 1 /\ p[j] \in (c + 2)..d /\ p[j] # c + 1
        BY <2>5, <2>7, <3>1, <3>3
      <4>2. Ledger[a][p[j]].date # Ledger[a][c + 1].date
        BY <2>1, <4>1
      <4> QED BY <4>1, <4>2
    <3> QED BY <3>2, <3>3
  <2>8. \A k \in 1..n : out[k] = Source("v1", p[k])
    <3> TAKE k \in 1..n
    <3>1. file.rows[k] = ExportedRow(a, "v1", c + 1, d, p[k])
      BY <2>2, <2>5
    <3>2. out[k] = to_canonical_signs(file.rows[k], convention_for("v1", a))
      BY <2>2, <2>4 DEF Signed
    <3> QED BY <3>1, <3>2 DEF Source
  <2>9. AsBooked(p, a, c, d, out)
    <3>1. c <= d /\ Len(out) = n /\ Orders(p, a, c, d)
      BY <2>1, <2>4, <2>5, <2>6, <2>7 DEF Orders
    <3>2. \A k \in 1..n : out[k] =
             to_canonical_signs(ExportedRow(a, "v1", c + 1, d, p[k]), convention_for("v1", a))
      BY <2>8 DEF Source
    <3> QED BY <2>4, <3>1, <3>2, RowsAreBooked
  <2> QED BY <2>2, <2>9 DEF out
<1> QED BY <1>1, <1>2 DEF Part

-----------------------------------------------------------------------------
(* One file after another: the rows of all of them are the books.          *)
LEMMA BookedLater ==
  ASSUME NEW a, NEW i \in Int, NEW c \in Int, NEW d \in Int, NEW r, c <= d, Booked(a, i, c, r)
  PROVE  Booked(a, i, d, r)
<1>1. \A j \in (i + 1)..c : j \in (i + 1)..d
  OBVIOUS
<1> QED BY <1>1 DEF Booked

(* The rows of one export after those of the exports before it.            *)
LEMMA BookedAfter ==
  ASSUME NEW a, NEW c \in Nat, NEW d \in Nat, NEW p, NEW q, NEW s, NEW t,
         c <= d, AsBooked(p, a, 0, c, s), AsBooked(q, a, c, d, t)
  PROVE  \E w : AsBooked(w, a, 0, d, s \o t)
<1> DEFINE w == [k \in 1..d |-> IF k <= c THEN p[k] ELSE q[k - c]]
           n == d - c
           day(i) == Ledger[a][i].date
           st == s \o t
<1>1. /\ IsList(s) /\ Len(s) = c /\ IsList(t) /\ Len(t) = n /\ n \in Nat
      /\ Orders(p, a, 0, c) /\ Orders(q, a, c, d)
      /\ \A k \in 1..c : Booked(a, p[k], c, s[k])
      /\ \A k \in 1..n : Booked(a, q[k], d, t[k])
  BY DEF AsBooked
<1>2. /\ p \in [1..c -> 1..c]
      /\ \A i \in 1..c : \E k \in 1..c : p[k] = i
      /\ \A j, k \in 1..c : j < k => p[j] # p[k] /\ (day(p[j]) = day(p[k]) => p[j] < p[k])
  <2>1. c - 0 = c /\ 0 + 1 = 1 /\ Orders(p, a, 0, c)
    BY <1>1
  <2>2. /\ p \in [1..(c - 0) -> (0 + 1)..c]
        /\ \A i \in (0 + 1)..c : \E k \in 1..(c - 0) : p[k] = i
    BY ONLY <2>1 DEF Orders
  <2>3. \A j, k \in 1..(c - 0) : j < k => p[j] # p[k] /\ (day(p[j]) = day(p[k]) => p[j] < p[k])
    BY ONLY <2>1 DEF Orders
  <2> HIDE DEF day
  <2> QED BY ONLY <2>1, <2>2, <2>3
<1>3. /\ q \in [1..n -> (c + 1)..d]
      /\ \A i \in (c + 1)..d : \E k \in 1..n : q[k] = i
      /\ \A j, k \in 1..n : j < k => q[j] # q[k] /\ (day(q[j]) = day(q[k]) => q[j] < q[k])
  BY <1>1 DEF Orders
<1>4. /\ IsList(st) /\ Len(st) = d
      /\ \A k \in 1..c : st[k] = s[k]
      /\ \A k \in 1..n : st[c + k] = t[k]
  <2>1. c + n = d
    OBVIOUS
  <2> HIDE DEF n
  <2> QED BY <1>1, <2>1, JoinedList
<1>5. \A k \in 1..c : k \in 1..d /\ w[k] = p[k] /\ p[k] \in 1..c
  BY <1>2
<1>6. \A k \in 1..d : k \notin 1..c => k - c \in 1..n /\ c + (k - c) = k /\ w[k] = q[k - c] /\ q[k - c] \in (c + 1)..d
  BY <1>3
<1>7. \A k \in 1..n : c + k \in 1..d /\ w[c + k] = q[k]
  OBVIOUS
<1>8. w \in [1..d -> 1..d]
  <2>1. \A k \in 1..d : w[k] \in 1..d
    <3> TAKE k \in 1..d
    <3>1. CASE k \in 1..c
      <4>1. w[k] \in 1..c
        BY <1>5, <3>1
      <4> QED BY <4>1
    <3>2. CASE k \notin 1..c
      <4>1. w[k] \in (c + 1)..d
        BY <1>6, <3>2
      <4> QED BY <4>1
    <3> QED BY <3>1, <3>2
  <2>2. w = [k \in 1..d |-> w[k]]
    OBVIOUS
  <2> HIDE DEF w
  <2> QED BY ONLY <2>1, <2>2
<1> HIDE DEF w, st, n, day
<1>9. ASSUME NEW i \in 1..d PROVE \E k \in 1..d : w[k] = i
  <2>1. CASE i \in 1..c
    BY <1>2, <1>5, <2>1
  <2>2. CASE i \notin 1..c
    <3>1. i \in (c + 1)..d
      BY <2>2
    <3>2. PICK k \in 1..n : q[k] = i
      BY <1>3, <3>1
    <3> QED BY <1>7, <3>2
  <2> QED BY <2>1, <2>2
<1>10. ASSUME NEW j \in 1..d, NEW k \in 1..d, j < k
       PROVE  w[j] # w[k] /\ (day(w[j]) = day(w[k]) => w[j] < w[k])
  <2>1. CASE k \in 1..c
    <3>1. j \in 1..c
      BY <1>10, <2>1
    <3> QED BY <1>2, <1>5, <1>10, <2>1, <3>1
  <2>2. CASE k \notin 1..c
    <3>1. w[k] = q[k - c] /\ k - c \in 1..n /\ w[k] \in (c + 1)..d
      BY <1>6, <2>2
    <3>2. CASE j \in 1..c
      <4>1. w[j] \in 1..c
        BY <1>5, <3>2
      <4> QED BY <3>1, <4>1
    <3>3. CASE j \notin 1..c
      <4>1. w[j] = q[j - c] /\ j - c \in 1..n /\ j - c < k - c
        BY <1>6, <1>10, <3>3
      <4> QED BY <1>3, <3>1, <4>1
    <3> QED BY <3>2, <3>3
  <2> QED BY <2>1, <2>2
<1>11. ASSUME NEW k \in 1..d PROVE Booked(a, w[k], d, st[k])
  <2>1. CASE k \in 1..c
    <3>1. Booked(a, p[k], c, s[k]) /\ p[k] \in Int
      BY <1>1, <1>5, <2>1
    <3>2. Booked(a, p[k], d, s[k])
      BY <3>1, BookedLater
    <3> QED BY <1>4, <1>5, <2>1, <3>2
  <2>2. CASE k \notin 1..c
    <3>1. k - c \in 1..n /\ c + (k - c) = k /\ w[k] = q[k - c]
      BY <1>6, <2>2
    <3>2. st[c + (k - c)] = t[k - c]
      BY <1>4, <3>1
    <3> QED BY <1>1, <3>1, <3>2
  <2> QED BY <2>1, <2>2
<1>12. Orders(w, a, 0, d)
  <2>1. d - 0 = d /\ 0 + 1 = 1
    OBVIOUS
  <2> QED BY <1>8, <1>9, <1>10, <2>1 DEF Orders, day
<1>13. AsBooked(w, a, 0, d, st)
  <2>1. d - 0 = d
    OBVIOUS
  <2> QED BY <1>4, <1>11, <1>12, <2>1 DEF AsBooked
<1> QED BY <1>13 DEF st

LEMMA NothingBooked == ASSUME NEW a PROVE AsBooked(<<>>, a, 0, 0, <<>>)
<1>1. 0 - 0 = 0 /\ 1..0 = {} /\ (0 + 1)..0 = {}
  OBVIOUS
<1>2. <<>> \in [{} -> {}]
  OBVIOUS
<1>3. Orders(<<>>, a, 0, 0)
  BY <1>1, <1>2 DEF Orders
<1> QED BY <1>1, <1>3, NoList DEF AsBooked

LEMMA StatesAfter ==
  ASSUME NEW s, NEW t, IsList(s), IsList(t), States(s) \/ States(t)
  PROVE  States(s \o t)
<1> DEFINE st == s \o t  M == Len(s)  N == Len(t)
<1>1. /\ M \in Nat /\ N \in Nat /\ Len(st) = M + N
      /\ \A k \in 1..M : st[k] = s[k]
      /\ \A k \in 1..N : st[M + k] = t[k]
  BY JoinedList, ListDomain
<1> HIDE DEF st, M, N
<1>2. CASE States(s)
  <2>1. PICK k \in 1..M : s[k].balance # NULL
    BY <1>2 DEF States, M
  <2>2. k \in 1..(M + N) /\ st[k].balance # NULL
    BY <1>1, <2>1
  <2>3. States(st)
    BY <1>1, <2>2 DEF States
  <2> QED BY <2>3 DEF st
<1>3. CASE States(t)
  <2>1. PICK k \in 1..N : t[k].balance # NULL
    BY <1>3 DEF States, N
  <2>2. M + k \in 1..(M + N) /\ st[M + k].balance # NULL
    BY <1>1, <2>1
  <2>3. States(st)
    BY <1>1, <2>2 DEF States
  <2> QED BY <2>3 DEF st
<1> QED BY <1>2, <1>3

(* The uploads of an account are its books from the start, one part after    *)
(* the other: Before(fs, i) rows are in the first i of them.                *)
Sizes(fs) == [i \in DOMAIN fs |-> Len(fs[i].rows)]
Before(fs, i) == Total(Sizes(fs), 1..i)
InBooks(a, fs) ==
  /\ IsList(fs)
  /\ \A i \in 1..Len(fs) : /\ IsList(fs[i].rows)
                           /\ Part(a, fs[i], Before(fs, i - 1), Before(fs, i))
                           /\ Before(fs, i) <= Len(Ledger[a])

LEMMA BeforeIs ==
  ASSUME NEW fs, NEW i \in Nat, IsList(fs), \A j \in 1..Len(fs) : IsList(fs[j].rows),
         i + 1 <= Len(fs)
  PROVE  /\ Before(fs, i) \in Nat /\ Before(fs, i + 1) \in Nat
         /\ Before(fs, i + 1) = Before(fs, i) + Len(fs[i + 1].rows)
<1> DEFINE N == Len(fs)
<1>1. N \in Nat /\ DOMAIN fs = 1..N
  BY ListDomain
<1>2. \A j \in 1..N : Sizes(fs)[j] = Len(fs[j].rows) /\ Sizes(fs)[j] \in Nat
  BY <1>1 DEF Sizes, IsList
<1> HIDE DEF N
<1> DEFINE f == Sizes(fs)
           T == {n \in Nat : n <= N => Total(f, 1..n) \in Nat}
<1> HIDE DEF f
<1>3. ASSUME NEW n \in Nat, n + 1 <= N
      PROVE  Total(f, 1..(n + 1)) = Total(f, 1..n) + f[n + 1] /\ Total(f, 1..n) \in Int /\ f[n + 1] \in Nat
  <2>1. \A j \in 1..(n + 1) : j \in 1..N
    BY <1>1, <1>3
  <2>2. \A j \in 1..(n + 1) : f[j] \in Int
    BY <1>2, <2>1 DEF f
  <2>3. n + 1 \in 1..N
    BY <1>1, <1>3
  <2> QED BY <1>2, <2>2, <2>3, TotalNext DEF f
<1>4. 0 \in T
  <2>1. 1..0 = {}
    OBVIOUS
  <2> QED BY <2>1, TotalOfNothing
<1>5. ASSUME NEW n \in Nat, n \in T PROVE n + 1 \in T
  <2> SUFFICES ASSUME n + 1 <= N PROVE Total(f, 1..(n + 1)) \in Nat
    OBVIOUS
  <2>1. Total(f, 1..n) \in Nat
    BY <1>1, <1>5
  <2> QED BY <1>3, <2>1
<1>6. \A n \in Nat : n \in T
  <2> HIDE DEF T
  <2> QED BY <1>4, <1>5, CountingUp
<1>7. i <= N /\ i + 1 <= N /\ i + 1 \in 1..N
  BY <1>1 DEF N
<1>8. Total(f, 1..i) \in Nat /\ Total(f, 1..(i + 1)) \in Nat
  BY <1>6, <1>7
<1>9. Total(f, 1..(i + 1)) = Total(f, 1..i) + f[i + 1]
  BY <1>3, <1>7
<1> QED BY <1>2, <1>7, <1>8, <1>9 DEF f, Before

(* A stated balance: a file of the new layout that is not empty. *)
Stated(fs) == \E i \in 1..Len(fs) : fs[i].version = "v2" /\ fs[i].rows # <<>>

Joined(a, fs) == FlattenSeq([i \in DOMAIN fs |-> normalize_file(a, fs[i])])

LEMMA JoinedIsBooked ==
  ASSUME NEW a \in DOMAIN Ledger, NEW fs, InBooks(a, fs),
         \A i \in 1..Len(fs) : fs[i].version \in DOMAIN RowOrder
  PROVE  LET n == Before(fs, Len(fs)) IN
         /\ n \in Nat /\ n <= Len(Ledger[a])
         /\ \E p : AsBooked(p, a, 0, n, Joined(a, fs))
         /\ Stated(fs) => States(Joined(a, fs))
<1> DEFINE N == Len(fs)  at(i) == Before(fs, i)
           ss == [i \in DOMAIN fs |-> normalize_file(a, fs[i])]
<1>1. /\ N \in Nat /\ DOMAIN fs = 1..N /\ IsList(fs)
      /\ \A i \in 1..N : /\ IsList(fs[i].rows) /\ Part(a, fs[i], at(i - 1), at(i))
                         /\ at(i) <= Len(Ledger[a]) /\ fs[i].version \in DOMAIN RowOrder
  BY ListDomain DEF InBooks
<1>2. at(0) = 0
  <2>1. 1..0 = {}
    OBVIOUS
  <2> QED BY <2>1, TotalOfNothing DEF Before
<1>3. ASSUME NEW i \in 1..N
      PROVE  at(i - 1) \in Nat /\ at(i) \in Nat /\ at(i) = at(i - 1) + Len(fs[i].rows)
  <2> DEFINE j == i - 1
  <2>1. j \in Nat /\ j + 1 <= N /\ j + 1 = i
    BY <1>1
  <2> HIDE DEF j
  <2>2. Before(fs, j) \in Nat /\ Before(fs, j + 1) \in Nat
        /\ Before(fs, j + 1) = Before(fs, j) + Len(fs[j + 1].rows)
    BY <1>1, <2>1, BeforeIs
  <2> QED BY <2>1, <2>2 DEF j
<1>4. ASSUME NEW i \in 1..N
      PROVE  /\ IsList(ss[i]) /\ \E p : AsBooked(p, a, at(i - 1), at(i), ss[i])
             /\ fs[i].version = "v2" /\ fs[i].rows # <<>> => States(ss[i])
  <2> DEFINE c == at(i - 1)  d == at(i)  file == fs[i]
  <2>1. c \in Nat /\ d \in Nat /\ d <= Len(Ledger[a]) /\ Part(a, file, c, d)
        /\ file.version \in DOMAIN RowOrder /\ d = c + Len(file.rows) /\ IsList(file.rows)
        /\ Len(file.rows) \in Nat
    BY <1>1, <1>3, ListDomain
  <2> HIDE DEF c, d, file
  <2>2. /\ \E p : AsBooked(p, a, c, d, normalize_file(a, file))
        /\ file.version = "v2" /\ c < d => States(normalize_file(a, file))
    BY <2>1, PartIsBooked
  <2>3. ss[i] = normalize_file(a, file)
    BY <1>1 DEF file
  <2>4. file.rows # <<>> => c < d
    <3> SUFFICES ASSUME file.rows # <<>> PROVE Len(file.rows) # 0
      BY <2>1
    <3>1. file.rows = [k \in 1..Len(file.rows) |-> file.rows[k]]
      BY <2>1 DEF IsList
    <3>2. Len(file.rows) = 0 => file.rows = <<>>
      BY <3>1
    <3> QED BY <3>2
  <2>5. IsList(normalize_file(a, file))
    BY <2>2 DEF AsBooked
  <2> HIDE DEF ss
  <2> QED BY <2>2, <2>3, <2>4, <2>5 DEF c, d, file
<1>5. ss = [i \in 1..N |-> ss[i]]
  BY <1>1
<1>6. FlattenSeq(ss) = Joined(a, fs)
  BY DEF Joined
<1> HIDE DEF ss, N, at
<1>7. PICK g : Steps(g, ss, N)
  BY <1>1, <1>4, <1>5, Flattening
<1>8. /\ g[0] = <<>> /\ g[N] = Joined(a, fs)
      /\ \A i \in 0..N : IsList(g[i])
      /\ \A i \in 1..N : g[i] = g[i - 1] \o ss[i]
  BY <1>6, <1>7 DEF Steps
<1> DEFINE Fine(n) == /\ at(n) \in Nat /\ \E p : AsBooked(p, a, 0, at(n), g[n])
                      /\ (\E i \in 1..n : fs[i].version = "v2" /\ fs[i].rows # <<>>) => States(g[n])
           T == {n \in Nat : n <= N => Fine(n)}
<1>9. 0 \in T
  <2>1. Fine(0)
    <3>1. AsBooked(<<>>, a, 0, at(0), g[0])
      BY <1>2, <1>8, NothingBooked
    <3> QED BY <1>2, <3>1
  <2> HIDE DEF Fine
  <2> QED BY <2>1
<1>10. ASSUME NEW n \in Nat, n \in T PROVE n + 1 \in T
  <2> SUFFICES ASSUME n + 1 <= N PROVE Fine(n + 1)
    BY DEF T
  <2>1. n <= N /\ n + 1 \in 1..N /\ (n + 1) - 1 = n /\ n \in 0..N
    BY <1>1
  <2>2. Fine(n)
    BY <1>10, <2>1
  <2>3. /\ IsList(g[n]) /\ IsList(ss[n + 1]) /\ g[n + 1] = g[n] \o ss[n + 1]
        /\ at(n) \in Nat /\ at(n + 1) \in Nat /\ at(n) <= at(n + 1)
    <3>1. Len(fs[n + 1].rows) \in Nat
      BY <1>1, <2>1 DEF IsList
    <3>2. at(n + 1) = at(n) + Len(fs[n + 1].rows) /\ at(n) \in Nat
      BY <1>3, <2>1
    <3>3. IsList(ss[n + 1])
      BY <1>4, <2>1
    <3>4. IsList(g[n])
      BY <1>8, <2>1
    <3>5. g[n + 1] = g[n] \o ss[n + 1]
      BY ONLY <1>8, <2>1
    <3>6. at(n) \in Nat /\ at(n + 1) \in Nat /\ at(n) <= at(n + 1)
      BY <3>1, <3>2
    <3> QED BY <3>3, <3>4, <3>5, <3>6
  <2>4. PICK p : AsBooked(p, a, 0, at(n), g[n])
    BY <2>2
  <2>5. PICK q : AsBooked(q, a, at(n), at(n + 1), ss[n + 1])
    BY <1>4, <2>1
  <2>6. \E w : AsBooked(w, a, 0, at(n + 1), g[n] \o ss[n + 1])
    BY <2>3, <2>4, <2>5, BookedAfter
  <2>7. ASSUME NEW i \in 1..(n + 1), fs[i].version = "v2", fs[i].rows # <<>>
        PROVE  States(g[n + 1])
    <3>1. CASE i = n + 1
      <4>1. States(ss[n + 1])
        BY <1>4, <2>1, <2>7, <3>1
      <4> QED BY <2>3, <4>1, StatesAfter
    <3>2. CASE i # n + 1
      <4>1. i \in 1..n
        BY <3>2
      <4>2. States(g[n])
        BY <2>2, <2>7, <4>1
      <4> QED BY <2>3, <4>2, StatesAfter
    <3> QED BY <3>1, <3>2
  <2> QED BY <2>3, <2>6, <2>7
<1>11. \A n \in Nat : n \in T
  <2> HIDE DEF T
  <2> QED BY <1>9, <1>10, CountingUp
<1>12. Fine(N)
  BY <1>1, <1>11
<1>13. at(N) <= Len(Ledger[a])
  <2>1. CASE N = 0
    BY <1>2, <2>1, LedgerIs
  <2>2. CASE N # 0
    <3>1. N \in 1..N
      BY <1>1, <2>2
    <3> QED BY <1>1, <3>1
  <2> QED BY <2>1, <2>2
<1>14. /\ at(N) \in Nat /\ \E p : AsBooked(p, a, 0, at(N), Joined(a, fs))
       /\ Stated(fs) => States(Joined(a, fs))
  BY <1>8, <1>12 DEF Stated, N
<1> QED BY <1>13, <1>14 DEF at, N

-----------------------------------------------------------------------------
(* The sort, the balances filled in, the parsed transactions.              *)
LEMMA SameSize ==
  ASSUME NEW S, NEW n \in Nat, NEW p, IsFiniteSet(S), \A j \in S : p[j] \in 1..n,
         \A i, j \in S : p[i] = p[j] => i = j, \A m \in 1..n : \E j \in S : p[j] = m
  PROVE  Cardinality(S) = n
<1> DEFINE r == [j \in S |-> p[j]]
<1>1. r \in [S -> 1..n] /\ DOMAIN r = S /\ \A j \in S : r[j] = p[j]
  OBVIOUS
<1> HIDE DEF r
<1>2. \A i, j \in DOMAIN r : r[i] = r[j] => i = j
  BY <1>1
<1>3. r \in Injection(S, 1..n)
  BY <1>1, <1>2 DEF Injection, IsInjective
<1>4. r \in Surjection(S, 1..n)
  <2>1. \A m \in 1..n : \E j \in S : r[j] = m
    BY <1>1
  <2> QED BY <1>1, <2>1 DEF Surjection
<1>5. ExistsBijection(S, 1..n)
  BY <1>3, <1>4 DEF ExistsBijection, Bijection
<1>6. Cardinality(1..n) = Cardinality(S)
  BY <1>5, FS_Bijection
<1>7. Cardinality(1..n) = IF 1 > n THEN 0 ELSE n - 1 + 1
  BY FS_Interval
<1> QED BY <1>6, <1>7

(* The sort puts the rows in the order of the books.                       *)
LEMMA SortedIsBooked ==
  ASSUME NEW a \in DOMAIN Ledger, NEW n \in Nat, n <= Len(Ledger[a]), NEW p, NEW rows,
         AsBooked(p, a, 0, n, rows)
  PROVE  LET s == to_chronological_order(rows) IN
         /\ IsList(s) /\ Len(s) = n /\ \A i \in 1..n : Booked(a, i, n, s[i])
         /\ States(rows) => States(s)
<1> DEFINE Upto(i) == {j \in DOMAIN rows : rows[j].date < rows[i].date \/ (rows[j].date = rows[i].date /\ j <= i)}
           at(m) == CHOOSE i \in DOMAIN rows : Cardinality(Upto(i)) = m
           s == to_chronological_order(rows)
           day(i) == Ledger[a][i].date
<1>1. /\ Len(Ledger[a]) \in Nat /\ DOMAIN Ledger[a] = 1..Len(Ledger[a])
      /\ \A i \in DOMAIN Ledger[a] : day(i) \in Int
      /\ \A i, j \in DOMAIN Ledger[a] : i <= j => day(i) <= day(j)
  BY LedgerIs
<1>2. \A i \in 1..n : i \in DOMAIN Ledger[a]
  BY <1>1
<1>3. /\ IsList(rows) /\ Len(rows) = n /\ DOMAIN rows = 1..n
      /\ Orders(p, a, 0, n) /\ \A k \in 1..n : Booked(a, p[k], n, rows[k])
  <2>1. n - 0 = n
    OBVIOUS
  <2> QED BY <2>1, ListDomain DEF AsBooked
<1>4. /\ p \in [1..n -> 1..n]
      /\ \A i \in 1..n : \E k \in 1..n : p[k] = i
  <2>1. n - 0 = n /\ 0 + 1 = 1 /\ Orders(p, a, 0, n)
    BY <1>3
  <2>2. /\ p \in [1..(n - 0) -> (0 + 1)..n]
        /\ \A i \in (0 + 1)..n : \E k \in 1..(n - 0) : p[k] = i
    BY ONLY <2>1 DEF Orders
  <2> QED BY ONLY <2>1, <2>2
<1>5. \A j, k \in 1..n : j < k => p[j] # p[k] /\ (day(p[j]) = day(p[k]) => p[j] < p[k])
  <2>1. n - 0 = n /\ Orders(p, a, 0, n)
    BY <1>3
  <2>2. \A j, k \in 1..(n - 0) : j < k => p[j] # p[k] /\ (day(p[j]) = day(p[k]) => p[j] < p[k])
    BY ONLY <2>1 DEF Orders
  <2> HIDE DEF day
  <2> QED BY ONLY <2>1, <2>2
<1>6. \A k \in 1..n : p[k] \in 1..n /\ rows[k].date = day(p[k]) /\ day(p[k]) \in Int
  <2> TAKE k \in 1..n
  <2>1. Booked(a, p[k], n, rows[k]) /\ p[k] \in 1..n
    BY <1>3, <1>4
  <2> QED BY <1>1, <1>2, <2>1 DEF Booked
<1>7. s = [m \in DOMAIN rows |-> rows[at(m)]]
  BY DEF to_chronological_order
<1> HIDE DEF s, day
<1>8. ASSUME NEW i \in 1..n, NEW j \in 1..n PROVE j \in Upto(i) <=> p[j] <= p[i]
  <2>1. j \in Upto(i) <=> (day(p[j]) < day(p[i]) \/ (day(p[j]) = day(p[i]) /\ j <= i))
    BY <1>3, <1>6
  <2>2. p[j] <= p[i] => day(p[j]) <= day(p[i])
    BY <1>1, <1>2, <1>6
  <2>3. p[i] <= p[j] => day(p[i]) <= day(p[j])
    BY <1>1, <1>2, <1>6
  <2>4. ASSUME day(p[j]) = day(p[i]) PROVE j <= i <=> p[j] <= p[i]
    <3>1. p[i] \in Int /\ p[j] \in Int
      BY <1>6
    <3>2. CASE j < i
      <4>1. p[j] < p[i]
        BY <1>5, <2>4, <3>2
      <4> QED BY <3>1, <3>2, <4>1
    <3>3. CASE i < j
      <4>1. p[i] < p[j]
        BY <1>5, <2>4, <3>3
      <4> QED BY <3>1, <3>3, <4>1
    <3>4. CASE i = j
      BY <3>1, <3>4
    <3> QED BY <3>2, <3>3, <3>4
  <2>5. p[i] \in Int /\ p[j] \in Int /\ day(p[i]) \in Int /\ day(p[j]) \in Int
    BY <1>6
  <2> HIDE DEF Upto
  <2> QED BY <2>1, <2>2, <2>3, <2>4, <2>5
<1>9. ASSUME NEW i \in 1..n PROVE Cardinality(Upto(i)) = p[i]
  <2> DEFINE S == Upto(i)
  <2>1. S \subseteq 1..n
    BY <1>3
  <2>2. \A j \in 1..n : j \in S <=> p[j] <= p[i]
    BY <1>8
  <2> HIDE DEF S, Upto
  <2>3. IsFiniteSet(S)
    <3>1. IsFiniteSet(1..n)
      BY FS_Interval
    <3> QED BY <2>1, <3>1, FS_Subset
  <2>4. p[i] \in Nat /\ p[i] \in 1..n
    BY <1>6
  <2>5. \A j \in S : p[j] \in 1..p[i]
    <3> TAKE j \in S
    <3>1. p[j] \in 1..n /\ p[j] <= p[i]
      BY <1>6, <2>1, <2>2
    <3> QED BY <2>4, <3>1
  <2>6. \A j, k \in S : p[j] = p[k] => j = k
    <3> SUFFICES ASSUME NEW j \in S, NEW k \in S, p[j] = p[k] PROVE j = k
      OBVIOUS
    <3>1. j \in 1..n /\ k \in 1..n /\ ~(j < k) /\ ~(k < j)
      BY <1>5, <2>1
    <3> QED BY <3>1
  <2>7. \A m \in 1..p[i] : \E j \in S : p[j] = m
    <3> TAKE m \in 1..p[i]
    <3>1. m \in 1..n /\ m <= p[i]
      BY <2>4
    <3>2. PICK j \in 1..n : p[j] = m
      BY <1>4, <3>1
    <3> QED BY <2>2, <3>1, <3>2
  <2>8. Cardinality(S) = p[i]
    BY <2>3, <2>4, <2>5, <2>6, <2>7, SameSize
  <2> QED BY <2>8 DEF S
<1> HIDE DEF Upto
<1>10. ASSUME NEW m \in 1..n PROVE at(m) \in 1..n /\ p[at(m)] = m
  <2>1. PICK k \in 1..n : p[k] = m
    BY <1>4
  <2>2. Cardinality(Upto(k)) = m
    BY <1>9, <2>1
  <2>3. at(m) \in DOMAIN rows /\ Cardinality(Upto(at(m))) = m
    BY <1>3, <2>2
  <2> HIDE DEF at
  <2> QED BY <1>3, <1>9, <2>3
<1> HIDE DEF at
<1>11. s = [m \in 1..n |-> s[m]] /\ \A m \in 1..n : s[m] = rows[at(m)]
  BY <1>3, <1>7
<1>12. IsList(s) /\ Len(s) = n
  BY <1>11, ListIs
<1>13. ASSUME NEW m \in 1..n PROVE Booked(a, m, n, s[m])
  BY <1>3, <1>10, <1>11
<1>14. ASSUME States(rows) PROVE States(s)
  <2>1. PICK k \in 1..n : rows[k].balance # NULL
    BY <1>3, <1>14 DEF States
  <2>2. p[k] \in 1..n /\ at(p[k]) \in 1..n /\ p[at(p[k])] = p[k]
    BY <1>6, <1>10
  <2>3. at(p[k]) = k
    <3>1. ~(at(p[k]) < k) /\ ~(k < at(p[k]))
      BY <1>5, <2>2
    <3> QED BY <2>2, <3>1
  <2>4. s[p[k]].balance # NULL
    BY <1>11, <2>1, <2>2, <2>3
  <2> QED BY <1>12, <2>2, <2>4 DEF States
<1> QED BY <1>12, <1>13, <1>14 DEF s

LastOfDay(a, i, n) == \A j \in (i + 1)..n : Ledger[a][j].date # Ledger[a][i].date

(* A filled row: of the bank's date and money, and of its balance where the  *)
(* day closes.                                                             *)
Filled(a, i, n, known, r) ==
  /\ DOMAIN r = Fields5
  /\ r.date = Ledger[a][i].date /\ Money(r) = Ledger[a][i].amount
  /\ known /\ LastOfDay(a, i, n) => r.balance = Books(a, i)

LEMMA BalanceSet ==
  ASSUME NEW r, NEW x, DOMAIN r = Fields5
  PROVE  LET s == [r EXCEPT !.balance = x] IN
         DOMAIN s = Fields5 /\ s.date = r.date /\ s.balance = x /\ Money(s) = Money(r)
<1> DEFINE s == [r EXCEPT !.balance = x]
<1>1. DOMAIN s = Fields5 /\ s.date = r.date /\ s.balance = x /\ s.debit = r.debit /\ s.credit = r.credit
  BY DEF Fields5
<1> HIDE DEF s
<1>2. Money(s) = Money(r)
  BY <1>1 DEF Money
<1> QED BY <1>1, <1>2 DEF s

LEMMA FilledIs ==
  ASSUME NEW a \in DOMAIN Ledger, NEW n \in Nat, n <= Len(Ledger[a]), NEW rows,
         IsList(rows), Len(rows) = n, \A i \in 1..n : Booked(a, i, n, rows[i])
  PROVE  LET f == fill_missing_balances(rows)
             known == a # "CreditCard" \/ States(rows) IN
         /\ IsList(f) /\ Len(f) = n
         /\ \A i \in 1..n : Filled(a, i, n, known, f[i])
<1> DEFINE money == [i \in DOMAIN rows |-> Money(rows[i])]
           Running(i) == SumFunctionOnSet(money, 1..i)
           stated == {i \in DOMAIN rows : rows[i].balance # NULL}
           Anchor(i) == IF \E j \in stated : j >= i THEN Min({j \in stated : j >= i}) ELSE Max(stated)
           Offset(i) == IF stated = {} THEN 0 ELSE rows[Anchor(i)].balance - Running(Anchor(i))
           f == fill_missing_balances(rows)
           known == a # "CreditCard" \/ States(rows)
           new(i) == IF rows[i].balance # NULL THEN rows[i].balance ELSE Running(i) + Offset(i)
<1>1. f = [i \in DOMAIN rows |-> [rows[i] EXCEPT !.balance = new(i)]]
  BY DEF fill_missing_balances
<1>2. DOMAIN rows = 1..n
  BY ListDomain
<1>3. f = [i \in 1..n |-> f[i]] /\ \A i \in 1..n : f[i] = [rows[i] EXCEPT !.balance = new(i)]
  <2> HIDE DEF new, f
  <2> QED BY <1>1, <1>2
<1> HIDE DEF f
<1>4. IsList(f) /\ Len(f) = n
  BY <1>3, ListIs
<1>5. \A i \in 1..n : DOMAIN rows[i] = Fields5 /\ rows[i].date = Ledger[a][i].date
                      /\ Money(rows[i]) = Ledger[a][i].amount
  BY DEF Booked
<1>6. ASSUME NEW i \in 1..n
      PROVE  /\ Running(i) \in Int /\ Books(a, i) \in Int /\ Opening[a] \in Int
             /\ Books(a, i) = Opening[a] + Running(i)
  <2>1. i \in 0..Len(Ledger[a]) /\ \A j \in 1..i : j \in 1..n /\ j \in DOMAIN Ledger[a]
    BY LedgerIs
  <2>2. \A j \in 1..i : Amounts(a)[j] \in Int /\ money[j] = Amounts(a)[j]
    BY <1>2, <1>5, <2>1, LedgerIs DEF Amounts
  <2> HIDE DEF money
  <2>3. Running(i) = Total(money, 1..i)
    BY SumsAreTotals
  <2>4. IsFiniteSet(1..i)
    BY FS_Interval
  <2>5. Total(money, 1..i) = Total(Amounts(a), 1..i)
    BY <2>2, <2>4, TotalSame
  <2> QED BY <2>1, <2>3, <2>5, BooksAre
<1> HIDE DEF Running, money
<1>7. ASSUME NEW i \in 1..n, known, LastOfDay(a, i, n) PROVE new(i) = Books(a, i)
  <2>1. CASE rows[i].balance # NULL
    <3>1. a = "CreditCard" => rows[i].balance = Books(a, i)
      BY <2>1 DEF Booked
    <3>2. a # "CreditCard" => rows[i].balance = Books(a, i)
      BY <1>7 DEF Booked, LastOfDay
    <3> QED BY <2>1, <3>1, <3>2
  <2>2. CASE rows[i].balance = NULL
    <3>1. a = "CreditCard"
      <4>1. a # "CreditCard" => rows[i].balance = Books(a, i)
        BY <1>7 DEF Booked, LastOfDay
      <4> QED BY <1>6, <2>2, <4>1, LedgerIsBooks
    <3>2. stated # {}
      <4>1. PICK k \in 1..n : rows[k].balance # NULL
        BY <1>7, <3>1 DEF States
      <4> QED BY <1>2, <4>1
    <3>3. \A k \in stated : k \in 1..n /\ rows[k].balance = Books(a, k)
      BY <1>2, <3>1 DEF Booked
    <3>4. stated \subseteq 1..n
      BY <3>3
    <3> HIDE DEF stated
    <3>5. Anchor(i) \in stated
      <4>1. CASE \E j \in stated : j >= i
        <5> DEFINE S == {j \in stated : j >= i}
        <5>1. S # {} /\ S \subseteq stated
          BY <4>1
        <5> HIDE DEF S
        <5>2. Min(S) \in S
          <6>1. S \subseteq 1..n /\ 1..n \subseteq Int /\ IsFiniteSet(1..n)
            BY <3>4, <5>1, UptoFinite
          <6>2. S \subseteq Int /\ IsFiniteSet(S)
            BY <6>1, FS_Subset
          <6> QED BY <5>1, <6>2, HasMin
        <5>3. Min(S) \in stated
          BY <5>2 DEF S
        <5> QED BY <4>1, <5>3 DEF S
      <4>2. CASE ~(\E j \in stated : j >= i)
        <5>1. IsFiniteSet(1..n)
          BY FS_Interval
        <5>2. stated \subseteq Int /\ IsFiniteSet(stated)
          <6>1. IsFiniteSet(stated)
            BY <3>4, <5>1, FS_Subset
          <6>2. 1..n \subseteq Int
            OBVIOUS
          <6> QED BY <3>4, <6>1, <6>2
        <5>3. Max(stated) \in stated
          BY <3>2, <5>2, HasMax
        <5> QED BY <4>2, <5>3
      <4> QED BY <4>1, <4>2
    <3> DEFINE k == Anchor(i)
    <3>6. k \in 1..n /\ rows[k].balance = Books(a, k)
      <4> HIDE DEF k
      <4>1. k \in stated
        BY <3>5 DEF k
      <4> QED BY <3>3, <4>1
    <3> HIDE DEF k
    <3>7. Offset(i) = Books(a, k) - Running(k)
      BY <3>2, <3>6 DEF k
    <3> HIDE DEF Offset
    <3>8. Books(a, k) = Opening[a] + Running(k) /\ Running(k) \in Int /\ Opening[a] \in Int
      BY <1>6, <3>6
    <3>9. Offset(i) = Opening[a]
      BY <3>7, <3>8
    <3> QED BY <1>6, <2>2, <3>9
  <2> QED BY <2>1, <2>2
<1> HIDE DEF new
<1>8. ASSUME NEW i \in 1..n PROVE Filled(a, i, n, known, f[i])
  <2>1. f[i] = [rows[i] EXCEPT !.balance = new(i)]
    BY <1>3
  <2>2. /\ DOMAIN f[i] = Fields5 /\ f[i].date = rows[i].date /\ f[i].balance = new(i)
        /\ Money(f[i]) = Money(rows[i])
    <3> DEFINE r == rows[i]  x == new(i)  s == [r EXCEPT !.balance = x]
    <3>1. DOMAIN r = Fields5 /\ f[i] = s
      BY <1>5, <2>1
    <3> HIDE DEF r, x
    <3>2. DOMAIN s = Fields5 /\ s.date = r.date /\ s.balance = x /\ Money(s) = Money(r)
      BY <3>1, BalanceSet
    <3> HIDE DEF s
    <3> QED BY <3>1, <3>2 DEF r, x
  <2> HIDE DEF known
  <2>3. known /\ LastOfDay(a, i, n) => f[i].balance = Books(a, i)
    BY <1>7, <2>2
  <2> QED BY <1>5, <2>2, <2>3 DEF Filled
<1> QED BY <1>4, <1>8 DEF f

Tied(a, n, known, t) ==
  IsList(t) /\ Len(t) = n /\ \A i \in 1..n : t[i].index = i /\ Filled(a, i, n, known, t[i].row)

(* What parsing makes of the uploads of an account: its books, once each     *)
(* and in order.                                                           *)
LEMMA ParsedIs ==
  ASSUME NEW a \in DOMAIN Ledger, NEW fs, InBooks(a, fs),
         \A i \in 1..Len(fs) : fs[i].version \in DOMAIN RowOrder
  PROVE  LET n == Before(fs, Len(fs))
             t == parse_transactions(a, fs)
             known == a # "CreditCard" \/ Stated(fs) IN
         n \in Nat /\ n <= Len(Ledger[a]) /\ Tied(a, n, known, t)
<1> DEFINE n == Before(fs, Len(fs))  rows == Joined(a, fs)
           sorted == to_chronological_order(rows)  f == fill_missing_balances(sorted)
           t == parse_transactions(a, fs)  known == a # "CreditCard" \/ Stated(fs)
<1>1. n \in Nat /\ n <= Len(Ledger[a]) /\ Stated(fs) => States(rows)
  BY JoinedIsBooked
<1>2. PICK p : AsBooked(p, a, 0, n, rows)
  BY JoinedIsBooked
<1>3. t = [i \in DOMAIN f |-> [index |-> i, row |-> f[i]]]
  BY DEF parse_transactions, Joined
<1> HIDE DEF n, rows, f, t
<1>4. n \in Nat /\ n <= Len(Ledger[a])
  BY JoinedIsBooked DEF n
<1>5. /\ IsList(sorted) /\ Len(sorted) = n /\ \A i \in 1..n : Booked(a, i, n, sorted[i])
      /\ States(rows) => States(sorted)
  BY <1>2, <1>4, SortedIsBooked
<1> HIDE DEF sorted
<1>6. /\ IsList(f) /\ Len(f) = n
      /\ \A i \in 1..n : Filled(a, i, n, a # "CreditCard" \/ States(sorted), f[i])
  BY <1>4, <1>5, FilledIs DEF f
<1>7. known => (a # "CreditCard" \/ States(sorted))
  BY <1>1, <1>4, <1>5
<1> HIDE DEF known
<1>8. \A i \in 1..n : Filled(a, i, n, known, f[i])
  BY <1>6, <1>7 DEF Filled
<1>9. DOMAIN f = 1..n
  BY <1>6, ListDomain
<1>10. t = [i \in 1..n |-> t[i]] /\ \A i \in 1..n : t[i].index = i /\ t[i].row = f[i]
  BY <1>3, <1>9
<1>11. IsList(t) /\ Len(t) = n
  BY <1>4, <1>10, ListIs
<1>12. Tied(a, n, known, t)
  BY <1>8, <1>10, <1>11 DEF Tied
<1> QED BY <1>4, <1>12 DEF n, t, known

-----------------------------------------------------------------------------
(* The staged rows and their money.                                       *)
(* The money a list of rows has for an account.                            *)
AmountOf(rows, a) == SumOf(rows, OfAccount(rows, a))
Amounted(rows) == IsList(rows) /\ \A i \in 1..Len(rows) : rows[i].amount \in Int
Its(rows, a) == [i \in 1..Len(rows) |-> IF rows[i].accountType = a THEN rows[i].amount ELSE 0]

LEMMA AmountIs ==
  ASSUME NEW rows, NEW a, Amounted(rows)
  PROVE  /\ AmountOf(rows, a) = Total(Its(rows, a), 1..Len(rows))
         /\ \A i \in 1..Len(rows) : Its(rows, a)[i] \in Int
<1> DEFINE D == 1..Len(rows)  f == Its(rows, a)  S == OfAccount(rows, a)
           h == [i \in DOMAIN rows |-> rows[i].amount]
<1>1. /\ DOMAIN rows = D /\ Len(rows) \in Nat
      /\ \A i \in D : rows[i].amount \in Int
  BY ListDomain DEF Amounted
<1>2. /\ \A x \in D : f[x] = IF rows[x].accountType = a THEN rows[x].amount ELSE 0
      /\ \A x \in D : h[x] = rows[x].amount
      /\ S = {i \in D : rows[i].accountType = a}
  BY <1>1 DEF Its, OfAccount
<1>3. AmountOf(rows, a) = Total(h, S)
  BY SumsAreTotals DEF AmountOf, SumOf
<1>4. IsFiniteSet(D)
  BY <1>1, UptoFinite
<1> HIDE DEF D, f, S, h
<1>5. \A x \in D : f[x] \in Int
  BY <1>1, <1>2
<1>6. S \in SUBSET D /\ (\A x \in S : h[x] = f[x]) /\ (\A x \in D \ S : f[x] = 0)
  BY <1>1, <1>2
<1>7. Total(f, D) = Total(h, S)
  BY <1>4, <1>5, <1>6, TotalWithoutZeros
<1> QED BY <1>3, <1>5, <1>7 DEF D, f

LEMMA AmountType == ASSUME NEW rows, NEW a, Amounted(rows) PROVE AmountOf(rows, a) \in Int
<1>1. IsFiniteSet(1..Len(rows))
  BY UptoFinite DEF Amounted, IsList
<1> QED BY <1>1, AmountIs, TotalType

LEMMA NoAmount == ASSUME NEW a PROVE AmountOf(<<>>, a) = 0 /\ Amounted(<<>>)
<1>1. Amounted(<<>>) /\ 1..Len(<<>>) = {}
  BY NoList DEF Amounted
<1>2. AmountOf(<<>>, a) = Total(Its(<<>>, a), {})
  BY <1>1, AmountIs
<1> QED BY <1>1, <1>2, TotalOfNothing

LEMMA OneAmount ==
  ASSUME NEW r, NEW a, r.amount \in Int
  PROVE  Amounted(<<r>>) /\ AmountOf(<<r>>, a) = IF r.accountType = a THEN r.amount ELSE 0
<1> DEFINE s == <<r>>
<1>1. IsList(s) /\ Len(s) = 1 /\ s[1] = r
  BY OneList
<1> HIDE DEF s
<1>2. Amounted(s)
  BY <1>1 DEF Amounted
<1>3. /\ AmountOf(s, a) = Total(Its(s, a), 1..1)
      /\ \A i \in 1..1 : Its(s, a)[i] \in Int
  BY <1>1, <1>2, AmountIs
<1>4. Its(s, a)[1] = IF r.accountType = a THEN r.amount ELSE 0
  BY <1>1 DEF Its
<1>5. Total(Its(s, a), 1..(0 + 1)) = Total(Its(s, a), 1..0) + Its(s, a)[0 + 1]
  <2>1. \A i \in 1..(0 + 1) : Its(s, a)[i] \in Int
    BY <1>3
  <2> QED BY <2>1, TotalNext
<1>6. Total(Its(s, a), 1..0) = 0
  <2>1. 1..0 = {}
    OBVIOUS
  <2> QED BY <2>1, TotalOfNothing
<1>7. Its(s, a)[1] \in Int /\ 0 + 1 = 1
  BY <1>3
<1>8. AmountOf(s, a) = Its(s, a)[1]
  BY <1>3, <1>5, <1>6, <1>7
<1> QED BY <1>2, <1>4, <1>8 DEF s

LEMMA JoinedAmount ==
  ASSUME NEW s, NEW t, NEW a, Amounted(s), Amounted(t)
  PROVE  Amounted(s \o t) /\ AmountOf(s \o t, a) = AmountOf(s, a) + AmountOf(t, a)
<1> DEFINE w == s \o t  M == Len(s)  N == Len(t)  f == Its(s, a)  g == Its(t, a)  h == Its(w, a)
<1>1. /\ IsList(w) /\ M \in Nat /\ N \in Nat /\ Len(w) = M + N
      /\ \A i \in 1..M : w[i] = s[i]
      /\ \A i \in 1..N : w[M + i] = t[i]
  BY JoinedList, ListDomain DEF Amounted
<1>2. (\A i \in 1..M : s[i].amount \in Int) /\ (\A i \in 1..N : t[i].amount \in Int)
  BY DEF Amounted
<1> HIDE DEF w, M, N
<1>3. \A i \in 1..(M + N) : i \notin 1..M => i - M \in 1..N /\ M + (i - M) = i
  BY <1>1
<1>4. Amounted(w)
  <2>1. ASSUME NEW i \in 1..(M + N) PROVE w[i].amount \in Int
    <3>1. CASE i \in 1..M
      BY <1>1, <1>2, <3>1
    <3>2. CASE i \notin 1..M
      <4>1. w[M + (i - M)] = t[i - M]
        BY <1>1, <1>3, <3>2
      <4> QED BY <1>2, <1>3, <3>2, <4>1
    <3> QED BY <3>1, <3>2
  <2> QED BY <1>1, <2>1 DEF Amounted
<1>5. \A i \in 1..M : h[i] = f[i]
  <2>1. \A i \in 1..M : i \in 1..(M + N)
    BY <1>1
  <2> QED BY <1>1, <2>1 DEF Its, M
<1>6. \A i \in 1..N : h[M + i] = g[i]
  <2>1. \A i \in 1..N : M + i \in 1..(M + N)
    BY <1>1
  <2> QED BY <1>1, <2>1 DEF Its, N
<1>7. /\ AmountOf(w, a) = Total(h, 1..(M + N)) /\ \A i \in 1..(M + N) : h[i] \in Int
  BY <1>1, <1>4, AmountIs
<1>8. /\ AmountOf(s, a) = Total(f, 1..M) /\ \A i \in 1..M : f[i] \in Int
  BY AmountIs DEF M
<1>9. /\ AmountOf(t, a) = Total(g, 1..N) /\ \A i \in 1..N : g[i] \in Int
  BY AmountIs DEF N
<1> HIDE DEF f, g, h
<1> DEFINE T == {n \in Nat : n <= N => Total(h, 1..(M + n)) = Total(f, 1..M) + Total(g, 1..n)}
<1>10. Total(f, 1..M) \in Int
  <2>1. IsFiniteSet(1..M)
    BY <1>1, UptoFinite
  <2> QED BY <1>8, <2>1, TotalType
<1>11. 0 \in T
  <2>1. IsFiniteSet(1..M) /\ M + 0 = M /\ 1..0 = {}
    BY <1>1, UptoFinite
  <2>2. \A i \in 1..M : f[i] \in Int /\ h[i] = f[i]
    BY <1>5, <1>8
  <2>3. Total(f, 1..M) = Total(h, 1..M)
    BY <2>1, <2>2, TotalSame
  <2>4. Total(g, 1..0) = 0
    BY <2>1, TotalOfNothing
  <2> QED BY <1>10, <2>1, <2>3, <2>4
<1>12. ASSUME NEW n \in Nat, n \in T PROVE n + 1 \in T
  <2> SUFFICES ASSUME n + 1 <= N
               PROVE  Total(h, 1..(M + (n + 1))) = Total(f, 1..M) + Total(g, 1..(n + 1))
    OBVIOUS
  <2>1. Total(h, 1..(M + n)) = Total(f, 1..M) + Total(g, 1..n)
    BY <1>1, <1>12
  <2>2. \A i \in 1..(n + 1) : g[i] \in Int
    <3>1. \A i \in 1..(n + 1) : i \in 1..N
      BY <1>1
    <3> QED BY <1>9, <3>1
  <2>3. Total(g, 1..(n + 1)) = Total(g, 1..n) + g[n + 1] /\ Total(g, 1..n) \in Int
    BY <2>2, TotalNext
  <2> DEFINE m == M + n
  <2>4. m \in Nat /\ M + (n + 1) = m + 1
    BY <1>1
  <2>5. \A i \in 1..(m + 1) : h[i] \in Int
    <3>1. \A i \in 1..(m + 1) : i \in 1..(M + N)
      BY <1>1
    <3> QED BY <1>7, <3>1
  <2> HIDE DEF m
  <2>6. Total(h, 1..(m + 1)) = Total(h, 1..m) + h[m + 1]
    BY <2>4, <2>5, TotalNext
  <2>7. h[m + 1] = g[n + 1] /\ g[n + 1] \in Int
    <3>1. n + 1 \in 1..N
      BY <1>1
    <3> QED BY <1>6, <1>9, <2>4, <3>1
  <2>8. Total(h, 1..m) = Total(f, 1..M) + Total(g, 1..n)
    BY <2>1 DEF m
  <2> QED BY <1>10, <2>3, <2>4, <2>6, <2>7, <2>8
<1>13. \A n \in Nat : n \in T
  <2> HIDE DEF T
  <2> QED BY <1>11, <1>12, CountingUp
<1>14. Total(h, 1..(M + N)) = Total(f, 1..M) + Total(g, 1..N)
  BY <1>1, <1>13
<1> QED BY <1>4, <1>7, <1>8, <1>9, <1>14 DEF w

(* Lists flattened: their rows, and their money.                           *)
Parts(ss, N, a) == [i \in 1..N |-> AmountOf(ss[i], a)]

LEMMA FlatAre ==
  ASSUME NEW N \in Nat, NEW ss, ss = [i \in 1..N |-> ss[i]], \A i \in 1..N : Amounted(ss[i])
  PROVE  LET flat == FlattenSeq(ss) IN
         /\ Amounted(flat)
         /\ \A x : x \in ToSet(flat) <=> \E i \in 1..N : x \in ToSet(ss[i])
         /\ \A a : AmountOf(flat, a) = Total(Parts(ss, N, a), 1..N)
<1> DEFINE flat == FlattenSeq(ss)
           In(x, n) == \E i \in 1..n : x \in ToSet(ss[i])
<1>1. \A i \in 1..N : IsList(ss[i])
  BY DEF Amounted
<1>2. PICK g : Steps(g, ss, N)
  BY <1>1, Flattening
<1>3. /\ g[0] = <<>> /\ g[N] = flat
      /\ \A i \in 0..N : IsList(g[i])
      /\ \A i \in 1..N : g[i] = g[i - 1] \o ss[i]
  BY <1>2 DEF Steps
<1> HIDE DEF flat
<1>4. \A a : \A i \in 1..N : Parts(ss, N, a)[i] = AmountOf(ss[i], a) /\ Parts(ss, N, a)[i] \in Int
  BY AmountType DEF Parts
<1> DEFINE Fine(n) == /\ Amounted(g[n])
                      /\ \A x : x \in ToSet(g[n]) <=> In(x, n)
                      /\ \A a : AmountOf(g[n], a) = Total(Parts(ss, N, a), 1..n)
           T == {n \in Nat : n <= N => Fine(n)}
<1>5. Fine(0)
  <2>1. Amounted(g[0])
    BY <1>3, NoAmount
  <2>2. ToSet(g[0]) = {} /\ \A x : ~In(x, 0)
    <3>1. ToSet(<<>>) = {}
      BY NoList DEF ToSet
    <3>2. 1..0 = {}
      OBVIOUS
    <3> QED BY <1>3, <3>1, <3>2
  <2>3. ASSUME NEW a PROVE AmountOf(g[0], a) = Total(Parts(ss, N, a), 1..0)
    <3>1. 1..0 = {}
      OBVIOUS
    <3> QED BY <1>3, <3>1, NoAmount, TotalOfNothing
  <2> HIDE DEF In
  <2> QED BY <2>1, <2>2, <2>3
<1>6. ASSUME NEW n \in Nat, n + 1 <= N, Fine(n) PROVE Fine(n + 1)
  <2>1. n + 1 \in 1..N /\ (n + 1) - 1 = n /\ n \in 0..N
    BY <1>6
  <2>2. g[n + 1] = g[n] \o ss[n + 1] /\ Amounted(g[n]) /\ Amounted(ss[n + 1])
    <3>1. g[n + 1] = g[n] \o ss[n + 1]
      BY ONLY <1>3, <2>1
    <3> QED BY <1>6, <2>1, <3>1
  <2>3. Amounted(g[n + 1])
    BY <2>2, JoinedAmount
  <2>4. ASSUME NEW x PROVE x \in ToSet(g[n + 1]) <=> In(x, n + 1)
    <3>1. ToSet(g[n + 1]) = ToSet(g[n]) \union ToSet(ss[n + 1])
      BY <2>2, JoinedSet DEF Amounted
    <3>2. In(x, n + 1) <=> In(x, n) \/ x \in ToSet(ss[n + 1])
      <4>1. \A i \in 1..(n + 1) : i = n + 1 \/ i \in 1..n
        OBVIOUS
      <4>2. n + 1 \in 1..(n + 1) /\ \A i \in 1..n : i \in 1..(n + 1)
        OBVIOUS
      <4> QED BY <4>1, <4>2
    <3>3. x \in ToSet(g[n]) <=> In(x, n)
      BY <1>6
    <3> HIDE DEF In
    <3> QED BY <3>1, <3>2, <3>3
  <2>5. ASSUME NEW a PROVE AmountOf(g[n + 1], a) = Total(Parts(ss, N, a), 1..(n + 1))
    <3>1. AmountOf(g[n + 1], a) = AmountOf(g[n], a) + AmountOf(ss[n + 1], a)
      BY <2>2, JoinedAmount
    <3>2. AmountOf(g[n], a) = Total(Parts(ss, N, a), 1..n)
      BY <1>6
    <3> DEFINE f == Parts(ss, N, a)
    <3>3. \A i \in 1..(n + 1) : i \in 1..N
      BY <2>1
    <3>4. \A i \in 1..(n + 1) : f[i] \in Int
      BY <1>4, <3>3
    <3>5. f[n + 1] = AmountOf(ss[n + 1], a)
      BY <1>4, <2>1
    <3> HIDE DEF f
    <3>6. Total(f, 1..(n + 1)) = Total(f, 1..n) + f[n + 1]
      BY <3>4, TotalNext
    <3> QED BY <3>1, <3>2, <3>5, <3>6 DEF f
  <2> HIDE DEF In
  <2> QED BY <2>3, <2>4, <2>5
<1> HIDE DEF Fine
<1>7. \A n \in Nat : n \in T
  <2>1. 0 \in T
    BY <1>5
  <2>2. ASSUME NEW n \in Nat, n \in T PROVE n + 1 \in T
    <3>1. n + 1 <= N => n <= N
      OBVIOUS
    <3> QED BY <1>6, <2>2, <3>1
  <2> HIDE DEF T
  <2> QED BY <2>1, <2>2, CountingUp
<1>8. Fine(N)
  BY <1>7
<1> QED BY <1>3, <1>8 DEF Fine, flat

(* A staged row of a parsed transaction. *)
About(a, t, r) ==
  /\ r.accountType = a /\ r.index = t.index /\ r.date = t.row.date
  /\ r.amount = Money(t.row) /\ r.balance = t.row.balance

LEMMA StagedIs == \A a, t, label, sk : About(a, t, Staged(a, t, label, sk))
BY DEF About, Staged

(* Every match of a transaction stages it; a map without a string twice      *)
(* stages it once.                                                         *)
LEMMA CategorisedIs ==
  ASSUME NEW a, NEW t, NEW map \in BudgetMaps, Money(t.row) \in Int
  PROVE  LET c == Categorised(a, t, map) IN
         /\ Amounted(c) /\ (\E x : x \in ToSet(c)) /\ \A x \in ToSet(c) : About(a, t, x)
         /\ MatchesOnce(map) => \A b : AmountOf(c, b) = IF b = a THEN Money(t.row) ELSE 0
<1> DEFINE N == Len(map)  key == check_match(t.row.words, map)
           row(k) == Staged(a, t, map[k].label, CategorySK[<<map[k].category, map[k].subCategory>>])
           ss == [k \in DOMAIN map |-> IF map[k].match = key THEN <<row(k)>> ELSE <<>>]
           c == Categorised(a, t, map)
           hits == {i \in DOMAIN map : map[i].match \in t.row.words}
<1>1. N \in Nat /\ DOMAIN map = 1..N /\ \A i \in 1..N : map[i].match # NULL
  BY MapsAreLists
<1>2. c = IF key = NULL THEN <<Staged(a, t, NULL, NULL)>> ELSE FlattenSeq(ss)
  BY DEF Categorised
<1>3. ASSUME NEW r, About(a, t, r)
      PROVE  /\ Amounted(<<r>>) /\ ToSet(<<r>>) = {r}
             /\ \A b : AmountOf(<<r>>, b) = IF b = a THEN Money(t.row) ELSE 0
  <2>1. r.amount = Money(t.row) /\ r.accountType = a
    BY <1>3 DEF About
  <2>2. Amounted(<<r>>) /\ \A b : AmountOf(<<r>>, b) = IF r.accountType = b THEN r.amount ELSE 0
    BY <2>1, OneAmount
  <2>3. ToSet(<<r>>) = {r}
    <3>1. DOMAIN <<r>> = {1} /\ <<r>>[1] = r
      OBVIOUS
    <3> QED BY <3>1 DEF ToSet
  <2> QED BY <2>1, <2>2, <2>3
<1>4. CASE key = NULL
  <2> DEFINE r == Staged(a, t, NULL, NULL)
  <2>1. c = <<r>> /\ About(a, t, r)
    BY <1>2, <1>4, StagedIs
  <2> HIDE DEF r, c
  <2> QED BY <1>3, <2>1 DEF c
<1>5. CASE key # NULL
  <2>1. PICK h \in 1..N : map[h].match = key
    <3>1. hits # {} /\ key = map[Min(hits)].match
      BY <1>5 DEF check_match
    <3>2. hits \subseteq 1..N /\ hits \subseteq Int /\ IsFiniteSet(hits)
      <4>1. hits \subseteq 1..N /\ 1..N \subseteq Int /\ IsFiniteSet(1..N)
        BY <1>1, UptoFinite
      <4> HIDE DEF hits
      <4> QED BY <4>1, FS_Subset
    <3> HIDE DEF hits
    <3>3. Min(hits) \in hits
      BY <3>1, <3>2, HasMin
    <3> QED BY <3>1, <3>2, <3>3
  <2>2. c = FlattenSeq(ss)
    BY <1>2, <1>5
  <2>3. /\ ss = [k \in 1..N |-> ss[k]]
        /\ \A k \in 1..N : ss[k] = IF map[k].match = key THEN <<row(k)>> ELSE <<>>
    BY <1>1
  <2>4. \A k \in 1..N : About(a, t, row(k))
    BY StagedIs
  <2> HIDE DEF ss, row, c, key
  <2>5. ASSUME NEW k \in 1..N
        PROVE  /\ Amounted(ss[k]) /\ ToSet(ss[k]) = IF map[k].match = key THEN {row(k)} ELSE {}
               /\ \A b : AmountOf(ss[k], b) = IF map[k].match = key /\ b = a THEN Money(t.row) ELSE 0
    <3>1. CASE map[k].match = key
      BY <1>3, <2>3, <2>4, <3>1
    <3>2. CASE map[k].match # key
      <4>1. ToSet(<<>>) = {}
        BY NoList DEF ToSet
      <4>2. ss[k] = <<>>
        BY <2>3, <3>2
      <4> QED BY <3>2, <4>1, <4>2, NoAmount
    <3> QED BY <3>1, <3>2
  <2>6. /\ Amounted(c)
        /\ \A x : x \in ToSet(c) <=> \E i \in 1..N : x \in ToSet(ss[i])
        /\ \A b : AmountOf(c, b) = Total(Parts(ss, N, b), 1..N)
    BY <1>1, <2>2, <2>3, <2>5, FlatAre
  <2>7. \E x : x \in ToSet(c)
    <3>1. row(h) \in ToSet(ss[h])
      BY <2>1, <2>5
    <3> QED BY <2>6, <3>1
  <2>8. ASSUME NEW x \in ToSet(c) PROVE About(a, t, x)
    <3>1. PICK i \in 1..N : x \in ToSet(ss[i])
      BY <2>6
    <3>2. x = row(i)
      <4>1. ToSet(ss[i]) = {row(i)} \/ ToSet(ss[i]) = {}
        BY <2>5
      <4> QED BY <3>1, <4>1
    <3> QED BY <2>4, <3>2
  <2>9. ASSUME MatchesOnce(map), NEW b PROVE AmountOf(c, b) = IF b = a THEN Money(t.row) ELSE 0
    <3> DEFINE f == Parts(ss, N, b)  S == {h}
               y == IF b = a THEN Money(t.row) ELSE 0
    <3>1. y \in Int
      OBVIOUS
    <3>2. \A k \in 1..N : f[k] = IF k = h THEN y ELSE 0
      <4> TAKE k \in 1..N
      <4>1. f[k] = AmountOf(ss[k], b)
        BY DEF Parts
      <4>2. map[k].match = key <=> k = h
        BY <1>1, <2>1, <2>9 DEF MatchesOnce
      <4> QED BY <2>5, <4>1, <4>2
    <3> HIDE DEF f, y, N
    <3>3. IsFiniteSet(1..N)
      BY <1>1, UptoFinite
    <3>4. Total(f, 1..N) = Total(f, S)
      <4> DEFINE D == 1..N
      <4>1. S \in SUBSET D
        BY <2>1
      <4>2. \A x \in D : f[x] \in Int
        BY <3>1, <3>2
      <4>3. \A x \in D \ S : f[x] = 0
        BY <3>2
      <4>4. IsFiniteSet(D)
        BY <3>3
      <4> HIDE DEF D, S
      <4>5. Total(f, D) = Total(f, S)
        BY ONLY <4>1, <4>2, <4>3, <4>4, TotalWithoutZeros
      <4> QED BY <4>5 DEF D
    <3>5. Total(f, S) = y
      <4>1. IsFiniteSet({}) /\ S = {} \union {h} /\ h \notin {} /\ f[h] = y
        BY <2>1, <3>2, FS_EmptySet
      <4>2. Total(f, {} \union {h}) = Total(f, {}) + f[h]
        BY <3>1, <4>1, TotalMore
      <4> QED BY <3>1, <4>1, <4>2, TotalOfNothing
    <3>6. AmountOf(c, b) = Total(f, 1..N)
      BY <2>6 DEF f
    <3> QED BY <3>4, <3>5, <3>6 DEF y
  <2> QED BY <2>6, <2>7, <2>8, <2>9 DEF c
<1> QED BY <1>4, <1>5

-----------------------------------------------------------------------------
(* One account, and all of them.                                          *)
StagedRow(a, i, n, known, r) ==
  /\ r.accountType = a /\ r.index = i
  /\ r.date = Ledger[a][i].date /\ r.amount = Ledger[a][i].amount
  /\ known /\ LastOfDay(a, i, n) => r.balance = Books(a, i)

(* The staged rows of an account are its first n transactions.             *)
StagesAll(rows, a, n, known) ==
  /\ \A x \in ToSet(rows) : x.accountType = a => \E i \in 1..n : StagedRow(a, i, n, known, x)
  /\ \A i \in 1..n : \E x \in ToSet(rows) : StagedRow(a, i, n, known, x)

LEMMA MappedIs ==
  ASSUME NEW a \in DOMAIN Ledger, NEW n \in Nat, n <= Len(Ledger[a]), NEW known,
         NEW map \in BudgetMaps, NEW t, Tied(a, n, known, t)
  PROVE  LET out == map_categories(a, t, map) IN
         /\ Amounted(out) /\ StagesAll(out, a, n, known)
         /\ \A x \in ToSet(out) : x.accountType = a
         /\ MatchesOnce(map) =>
              \A b : AmountOf(out, b) = IF b = a THEN Total(Amounts(a), 1..n) ELSE 0
<1> DEFINE ss == [i \in DOMAIN t |-> Categorised(a, t[i], map)]  out == map_categories(a, t, map)
<1>1. DOMAIN t = 1..n
  BY ListDomain DEF Tied
<1>2. ss = [i \in 1..n |-> ss[i]] /\ \A i \in 1..n : ss[i] = Categorised(a, t[i], map)
  BY <1>1
<1>3. out = FlattenSeq(ss)
  BY DEF map_categories
<1> HIDE DEF ss, out
<1>4. \A i \in 1..n : i \in DOMAIN Ledger[a] /\ Ledger[a][i].amount \in Int
                      /\ Amounts(a)[i] = Ledger[a][i].amount
  BY LedgerIs DEF Amounts
<1>5. ASSUME NEW i \in 1..n
      PROVE  /\ Amounted(ss[i]) /\ (\E x : x \in ToSet(ss[i]))
             /\ \A x \in ToSet(ss[i]) : StagedRow(a, i, n, known, x)
             /\ MatchesOnce(map) => \A b : AmountOf(ss[i], b) = IF b = a THEN Amounts(a)[i] ELSE 0
  <2>1. t[i].index = i /\ Filled(a, i, n, known, t[i].row)
    BY DEF Tied
  <2>2. Money(t[i].row) = Amounts(a)[i] /\ Money(t[i].row) \in Int
    BY <1>4, <2>1 DEF Filled
  <2> DEFINE u == t[i]
  <2> HIDE DEF u
  <2>3. /\ Amounted(ss[i]) /\ (\E x : x \in ToSet(ss[i])) /\ \A x \in ToSet(ss[i]) : About(a, u, x)
        /\ MatchesOnce(map) => \A b : AmountOf(ss[i], b) = IF b = a THEN Money(u.row) ELSE 0
    BY <1>2, <2>2, CategorisedIs DEF u
  <2>4. ASSUME NEW x \in ToSet(ss[i]) PROVE StagedRow(a, i, n, known, x)
    <3>1. About(a, u, x)
      BY <2>3
    <3>2. /\ x.accountType = a /\ x.index = i /\ x.date = Ledger[a][i].date
          /\ x.amount = Ledger[a][i].amount /\ x.balance = u.row.balance
      BY <1>4, <2>1, <2>2, <3>1 DEF About, Filled, u
    <3>3. known /\ LastOfDay(a, i, n) => u.row.balance = Books(a, i)
      BY <2>1 DEF Filled, u
    <3> QED BY <3>2, <3>3 DEF StagedRow
  <2> QED BY <2>2, <2>3, <2>4 DEF u
<1>6. /\ Amounted(out)
      /\ \A x : x \in ToSet(out) <=> \E i \in 1..n : x \in ToSet(ss[i])
      /\ \A b : AmountOf(out, b) = Total(Parts(ss, n, b), 1..n)
  BY <1>2, <1>3, <1>5, FlatAre
<1>7. \A x \in ToSet(out) : \E i \in 1..n : StagedRow(a, i, n, known, x)
  BY <1>5, <1>6
<1>8. ASSUME NEW i \in 1..n PROVE \E x \in ToSet(out) : StagedRow(a, i, n, known, x)
  <2>1. PICK x : x \in ToSet(ss[i])
    BY <1>5
  <2> QED BY <1>5, <1>6, <2>1
<1>9. StagesAll(out, a, n, known) /\ \A x \in ToSet(out) : x.accountType = a
  <2>1. \A x \in ToSet(out) : x.accountType = a
    BY <1>7 DEF StagedRow
  <2> QED BY <1>7, <1>8, <2>1 DEF StagesAll
<1>10. ASSUME MatchesOnce(map), NEW b PROVE AmountOf(out, b) = IF b = a THEN Total(Amounts(a), 1..n) ELSE 0
  <2> DEFINE f == Parts(ss, n, b)
  <2>1. \A i \in 1..n : f[i] = IF b = a THEN Amounts(a)[i] ELSE 0
    BY <1>5, <1>10 DEF Parts
  <2>2. AmountOf(out, b) = Total(f, 1..n) /\ IsFiniteSet(1..n)
    BY <1>6, UptoFinite
  <2> HIDE DEF f
  <2>3. CASE b = a
    <3>1. \A i \in 1..n : f[i] \in Int /\ Amounts(a)[i] = f[i]
      BY <1>4, <2>1, <2>3
    <3>2. Total(f, 1..n) = Total(Amounts(a), 1..n)
      BY <2>2, <3>1, TotalSame
    <3> QED BY <2>2, <2>3, <3>2
  <2>4. CASE b # a
    <3>1. \A i \in 1..n : f[i] = 0
      BY <2>1, <2>4
    <3> DEFINE D == 1..n  S == {}
    <3>2. S \in SUBSET D /\ IsFiniteSet(D)
      BY <2>2
    <3>3. \A i \in D : f[i] \in Int /\ f[i] = 0
      BY <3>1
    <3>4. \A i \in S : f[i] = f[i]
      OBVIOUS
    <3> HIDE DEF D, S
    <3>5. \A i \in D \ S : f[i] = 0
      BY <3>3
    <3>6. Total(f, D) = Total(f, S)
      BY <3>2, <3>3, <3>4, <3>5, TotalWithoutZeros
    <3> QED BY <2>2, <2>4, <3>6, TotalOfNothing DEF D, S
  <2> QED BY <2>3, <2>4
<1> QED BY <1>6, <1>9, <1>10 DEF out

(* A finite set as a list: each element, once.                             *)
LEMMA ListOf ==
  ASSUME NEW S, IsFiniteSet(S)
  PROVE  LET s == SetToSeq(S)  n == Cardinality(S) IN
         /\ n \in Nat /\ s = [k \in 1..n |-> s[k]] /\ \A k \in 1..n : s[k] \in S
         /\ \A j, k \in 1..n : s[j] = s[k] => j = k
         /\ \A x \in S : \E k \in 1..n : s[k] = x
<1> DEFINE n == Cardinality(S)  s == SetToSeq(S)
<1>1. n \in Nat
  BY FS_CardinalityType
<1>2. \E f \in [1..n -> S] : IsInjective(f)
  <2>1. ExistsBijection(1..n, S)
    BY FS_CardinalityType
  <2>2. PICK f : f \in Bijection(1..n, S)
    BY <2>1 DEF ExistsBijection
  <2>3. f \in [1..n -> S] /\ IsInjective(f)
    BY <2>2 DEF Bijection, Injection
  <2> QED BY <2>3
<1>3. s \in [1..n -> S] /\ IsInjective(s)
  <2>1. s = CHOOSE f \in [1..n -> S] : IsInjective(f)
    BY DEF SetToSeq
  <2> HIDE DEF s, n
  <2> QED BY <1>2, <2>1
<1> HIDE DEF s
<1>4. s \in Injection(1..n, S)
  BY <1>3 DEF Injection
<1>5. Cardinality(1..n) = Cardinality(S)
  <2>1. Cardinality(1..n) = IF 1 > n THEN 0 ELSE n - 1 + 1
    BY <1>1, FS_Interval
  <2> HIDE DEF n
  <2>2. Cardinality(1..n) = n
    BY <1>1, <2>1
  <2> QED BY <2>2 DEF n
<1>6. s \in Surjection(1..n, S)
  BY <1>4, <1>5, FS_Injection
<1>7. \A x \in S : \E k \in 1..n : s[k] = x
  BY <1>6 DEF Surjection
<1>8. \A j, k \in 1..n : s[j] = s[k] => j = k
  BY <1>3 DEF IsInjective
<1>9. s = [k \in 1..n |-> s[k]] /\ \A k \in 1..n : s[k] \in S
  BY <1>3
<1> QED BY <1>1, <1>7, <1>8, <1>9 DEF n, s

LEMMA TotalOfOne ==
  ASSUME NEW D, NEW h \in D, NEW y \in Int, NEW f, IsFiniteSet(D), \A k \in D : f[k] = IF k = h THEN y ELSE 0
  PROVE  Total(f, D) = y
<1> DEFINE S == {h}
<1>1. S \in SUBSET D
  OBVIOUS
<1>2. \A x \in D : f[x] \in Int
  OBVIOUS
<1>3. \A x \in D \ S : f[x] = 0
  OBVIOUS
<1>4. \A x \in S : f[x] = f[x]
  OBVIOUS
<1>5. IsFiniteSet({}) /\ S = {} \union {h} /\ h \notin {} /\ f[h] = y
  BY FS_EmptySet
<1> HIDE DEF S
<1>6. Total(f, D) = Total(f, S)
  BY <1>1, <1>2, <1>3, <1>4, TotalWithoutZeros
<1>7. Total(f, {} \union {h}) = Total(f, {}) + f[h]
  BY <1>5, TotalMore
<1> QED BY <1>5, <1>6, <1>7, TotalOfNothing

Known(a, fs) == a # "CreditCard" \/ Stated(fs)

(* What a run stages: of each account the transactions its exports cover.   *)
Reports(rows, files, map) ==
  /\ Amounted(rows) /\ \A x \in ToSet(rows) : x.accountType \in DOMAIN Ledger
  /\ \A a \in DOMAIN Ledger :
       LET n == Before(files[a], Len(files[a])) IN
       /\ n \in Nat /\ n <= Len(Ledger[a]) /\ StagesAll(rows, a, n, Known(a, files[a]))
       /\ MatchesOnce(map) => AmountOf(rows, a) = Total(Amounts(a), 1..n)

LEMMA AccountIs ==
  ASSUME NEW a \in DOMAIN Ledger, NEW fs, NEW map \in BudgetMaps, InBooks(a, fs),
         \A i \in DOMAIN fs : ~Refused(fs[i])
  PROVE  LET out == map_categories(a, parse_transactions(a, fs), map)
             n == Before(fs, Len(fs)) IN
         /\ Amounted(out) /\ StagesAll(out, a, n, Known(a, fs))
         /\ n \in Nat /\ n <= Len(Ledger[a]) /\ \A x \in ToSet(out) : x.accountType = a
         /\ MatchesOnce(map) =>
              \A b : AmountOf(out, b) = IF b = a THEN Total(Amounts(a), 1..n) ELSE 0
<1> DEFINE n == Before(fs, Len(fs))  t == parse_transactions(a, fs)
<1>1. \A i \in 1..Len(fs) : fs[i].version \in DOMAIN RowOrder
  <2>1. DOMAIN fs = 1..Len(fs)
    BY ListDomain DEF InBooks
  <2> QED BY <2>1 DEF Refused
<1>2. n \in Nat /\ n <= Len(Ledger[a]) /\ Tied(a, n, Known(a, fs), t)
  BY <1>1, ParsedIs DEF Known
<1> DEFINE known == Known(a, fs)  out == map_categories(a, t, map)
<1> HIDE DEF n, t, known
<1>3. /\ Amounted(out) /\ StagesAll(out, a, n, known)
      /\ \A x \in ToSet(out) : x.accountType = a
      /\ MatchesOnce(map) =>
           \A b : AmountOf(out, b) = IF b = a THEN Total(Amounts(a), 1..n) ELSE 0
  BY <1>2, MappedIs DEF known
<1> QED BY <1>2, <1>3 DEF n, t, known

LEMMA RunReports ==
  ASSUME NEW files, NEW map \in BudgetMaps, DOMAIN files = DOMAIN Ledger,
         \A a \in DOMAIN Ledger : InBooks(a, files[a]), Runs(files, map)
  PROVE  Reports(Run(files, map).rows, files, map)
<1> DEFINE S == DOMAIN Ledger  m == Cardinality(S)  accounts == SetToSeq(S)
           Of(a) == map_categories(a, parse_transactions(a, files[a]), map)
           ss == [k \in DOMAIN accounts |-> Of(accounts[k])]
           rows == Run(files, map).rows
           n(a) == Before(files[a], Len(files[a]))
<1>1. /\ m \in Nat /\ accounts = [k \in 1..m |-> accounts[k]] /\ \A k \in 1..m : accounts[k] \in S
      /\ \A j, k \in 1..m : accounts[j] = accounts[k] => j = k
      /\ \A x \in S : \E k \in 1..m : accounts[k] = x
  BY ListOf, LedgerIsBooks
<1>2. rows = FlattenSeq(ss)
  BY DEF Run
<1>3. ASSUME NEW a \in S
      PROVE  /\ Amounted(Of(a)) /\ StagesAll(Of(a), a, n(a), Known(a, files[a]))
             /\ n(a) \in Nat /\ n(a) <= Len(Ledger[a]) /\ \A x \in ToSet(Of(a)) : x.accountType = a
             /\ MatchesOnce(map) =>
                  \A b : AmountOf(Of(a), b) = IF b = a THEN Total(Amounts(a), 1..n(a)) ELSE 0
  <2>1. \A i \in DOMAIN files[a] : ~Refused(files[a][i])
    BY DEF Runs
  <2> QED BY <2>1, AccountIs
<1> HIDE DEF rows, Of, accounts, n, S, m
<1>4. ss = [k \in 1..m |-> ss[k]] /\ \A k \in 1..m : ss[k] = Of(accounts[k])
  <2>1. DOMAIN accounts = 1..m
    BY <1>1
  <2> QED BY <2>1
<1> HIDE DEF ss
<1>5. /\ Amounted(rows)
      /\ \A x : x \in ToSet(rows) <=> \E k \in 1..m : x \in ToSet(ss[k])
      /\ \A a : AmountOf(rows, a) = Total(Parts(ss, m, a), 1..m)
  <2>1. \A k \in 1..m : Amounted(ss[k])
    BY <1>1, <1>3, <1>4
  <2> QED BY <1>1, <1>2, <1>4, <2>1, FlatAre
<1>6. \A x \in ToSet(rows) : \E k \in 1..m : x \in ToSet(Of(accounts[k])) /\ x.accountType = accounts[k]
  BY <1>1, <1>3, <1>4, <1>5
<1>7. \A x \in ToSet(rows) : x.accountType \in S
  BY <1>1, <1>6
<1>8. ASSUME NEW a \in S PROVE StagesAll(rows, a, n(a), Known(a, files[a]))
  <2> DEFINE known == Known(a, files[a])
  <2>1. PICK k \in 1..m : accounts[k] = a
    BY <1>1
  <2>2. StagesAll(Of(a), a, n(a), known)
    BY <1>3
  <2> HIDE DEF known
  <2>3. ASSUME NEW x \in ToSet(rows), x.accountType = a
        PROVE  \E i \in 1..n(a) : StagedRow(a, i, n(a), known, x)
    <3>1. x \in ToSet(Of(a))
      BY <1>6, <2>3
    <3> QED BY <2>2, <2>3, <3>1 DEF StagesAll
  <2>4. \A x \in ToSet(Of(a)) : x \in ToSet(rows)
    BY <1>4, <1>5, <2>1
  <2>5. \A i \in 1..n(a) : \E x \in ToSet(rows) : StagedRow(a, i, n(a), known, x)
    BY <2>2, <2>4 DEF StagesAll
  <2>6. StagesAll(rows, a, n(a), known)
    BY <2>3, <2>5 DEF StagesAll
  <2> QED BY <2>6 DEF known
<1>9. ASSUME NEW a \in S, MatchesOnce(map) PROVE AmountOf(rows, a) = Total(Amounts(a), 1..n(a))
  <2> DEFINE f == Parts(ss, m, a)  y == Total(Amounts(a), 1..n(a))  D == 1..m
  <2>1. PICK h \in D : accounts[h] = a
    BY <1>1
  <2>2. \A k \in D : f[k] = AmountOf(Of(accounts[k]), a)
    BY <1>4 DEF Parts
  <2>3. \A k \in D : f[k] = IF k = h THEN y ELSE 0
    <3> TAKE k \in D
    <3>1. accounts[k] \in S /\ (accounts[k] = a <=> k = h)
      BY <1>1, <2>1
    <3>2. \A b : AmountOf(Of(accounts[k]), b) =
                   IF b = accounts[k] THEN Total(Amounts(accounts[k]), 1..n(accounts[k])) ELSE 0
      BY <1>3, <1>9, <3>1
    <3> QED BY <2>2, <3>1, <3>2
  <2>4. y \in Int
    <3>1. n(a) \in 0..Len(Ledger[a])
      BY <1>3
    <3> QED BY <3>1, BooksAre DEF S
  <2>5. IsFiniteSet(D)
    BY <1>1, UptoFinite
  <2>6. AmountOf(rows, a) = Total(f, D)
    BY <1>5
  <2> HIDE DEF f, y, D
  <2>7. Total(f, D) = y
    BY <2>3, <2>4, <2>5, TotalOfOne
  <2> QED BY <2>6, <2>7 DEF y
<1>10. \A a \in S : /\ n(a) \in Nat /\ n(a) <= Len(Ledger[a]) /\ StagesAll(rows, a, n(a), Known(a, files[a]))
                    /\ MatchesOnce(map) => AmountOf(rows, a) = Total(Amounts(a), 1..n(a))
  BY <1>3, <1>8, <1>9
<1> QED BY <1>5, <1>7, <1>10 DEF Reports, S, n, rows

-----------------------------------------------------------------------------
(* The invariant of the pipeline, and what it says of the report.          *)
LEMMA RowsOfIs ==
  ASSUME NEW fs, IsList(fs)
  PROVE  RowsOf(fs) = Before(fs, Len(fs))
<1>1. DOMAIN fs = 1..Len(fs) /\ DOMAIN Sizes(fs) = DOMAIN fs
  BY ListDomain DEF Sizes
<1>2. RowsOf(fs) = Total(Sizes(fs), DOMAIN Sizes(fs))
  BY SumsAreTotals DEF RowsOf, Sizes
<1> QED BY <1>1, <1>2 DEF Before

LEMMA NamedKeeps == \A tables, r : Named(tables, r).accountType = r.accountType /\ Named(tables, r).amount = r.amount
BY DEF Named

LEMMA BreakdownKeeps == ASSUME NEW a PROVE AmountOf(breakdown_rows(staged), a) = AmountOf(staged.rows, a)
<1> DEFINE old == staged.rows  new == breakdown_rows(staged)  D == DOMAIN old
<1>1. new = [i \in D |-> Named(staged, old[i])]
  BY DEF breakdown_rows
<1> HIDE DEF old, new, D
<1>2. DOMAIN new = D /\ \A i \in D : new[i].accountType = old[i].accountType /\ new[i].amount = old[i].amount
  <2>1. DOMAIN new = D /\ \A i \in D : new[i] = Named(staged, old[i])
    BY <1>1
  <2> QED BY <2>1, NamedKeeps
<1>3. OfAccount(new, a) = OfAccount(old, a)
  BY <1>2 DEF OfAccount, D
<1>4. [i \in DOMAIN new |-> new[i].amount] = [i \in DOMAIN old |-> old[i].amount]
  BY <1>2 DEF D
<1> HIDE DEF D
<1>5. AmountOf(new, a) = AmountOf(old, a)
  BY <1>3, <1>4 DEF AmountOf, SumOf
<1> QED BY <1>5 DEF new, old

(* What the pipeline holds: the uploads are the books so far, and the tables *)
(* are what a run made of earlier uploads.                                 *)
Uploads(files) == DOMAIN files = DOMAIN Ledger /\ \A a \in DOMAIN Ledger : InBooks(a, files[a])
Stages(tables) ==
  /\ Uploads(tables.of) /\ tables.by \in BudgetMaps
  /\ Reports(tables.rows, tables.of, tables.by)
PipelineInv ==
  /\ Uploads(exports) /\ budgetMap \in BudgetMaps
  /\ staged = NULL \/ Stages(staged)

LEMMA TotalsDoTie == ASSUME PipelineInv PROVE TotalsTie
<1> SUFFICES ASSUME staged # NULL, MatchesOnce(staged.by), NEW a \in DOMAIN exports
             PROVE  LET rows == breakdown_rows(staged)
                    IN SumOf(rows, OfAccount(rows, a)) = Books(a, Covered(a)) - Opening[a]
  BY DEF TotalsTie
<1> DEFINE n == Before(staged.of[a], Len(staged.of[a]))
<1>1. a \in DOMAIN Ledger /\ Stages(staged)
  BY DEF PipelineInv, Uploads
<1>2. InBooks(a, staged.of[a])
  BY <1>1 DEF Stages, Uploads
<1>3. n \in Nat /\ n <= Len(Ledger[a]) /\ AmountOf(staged.rows, a) = Total(Amounts(a), 1..n)
  BY <1>1 DEF Stages, Reports
<1>4. Covered(a) = n
  BY <1>2, RowsOfIs DEF Covered, InBooks
<1> HIDE DEF n
<1>5. n \in 0..Len(Ledger[a])
  BY <1>1, <1>3, LedgerIs
<1>6. Books(a, n) - Opening[a] = Total(Amounts(a), 1..n)
  <2>1. Books(a, n) = Opening[a] + Total(Amounts(a), 1..n) /\ Opening[a] \in Int /\ Total(Amounts(a), 1..n) \in Int
    BY <1>1, <1>5, BooksAre
  <2> QED BY <2>1
<1>7. AmountOf(breakdown_rows(staged), a) = Books(a, Covered(a)) - Opening[a]
  BY <1>3, <1>4, <1>6, BreakdownKeeps
<1> QED BY <1>7 DEF AmountOf

(* The days of the report are integers.                                    *)
LEMMA DaysAre ==
  ASSUME NEW a \in DOMAIN Ledger, Stages(staged), Covered(a) > 0, NEW d \in DOMAIN DailyMetrics
  PROVE  d \in Int /\ DailyMetrics[d].balance = [b \in DOMAIN exports |-> EndOfDay(b, d)]
<1> DEFINE rows == staged.rows  days == {r.date : r \in ToSet(rows)}  N == Len(rows)
           n(b) == Before(staged.of[b], Len(staged.of[b]))
<1>1. /\ IsList(rows) /\ \A x \in ToSet(rows) : x.accountType \in DOMAIN Ledger
      /\ \A b \in DOMAIN Ledger :
           n(b) \in Nat /\ n(b) <= Len(Ledger[b]) /\ StagesAll(rows, b, n(b), Known(b, staged.of[b]))
  BY DEF Stages, Reports, Amounted
<1>2. InBooks(a, staged.of[a])
  BY DEF Stages, Uploads
<1>3. n(a) > 0
  BY <1>2, RowsOfIs DEF Covered, InBooks
<1>4. days \subseteq Int
  <2> SUFFICES ASSUME NEW x \in ToSet(rows) PROVE x.date \in Int
    OBVIOUS
  <2> DEFINE b == x.accountType
  <2>1. b \in DOMAIN Ledger
    BY <1>1
  <2>2. PICK i \in 1..n(b) : StagedRow(b, i, n(b), Known(b, staged.of[b]), x)
    BY <1>1, <2>1 DEF StagesAll
  <2>3. n(b) \in Nat /\ n(b) <= Len(Ledger[b])
    BY <1>1, <2>1
  <2> HIDE DEF b, n
  <2>4. i \in DOMAIN Ledger[b] /\ Ledger[b][i].date \in Int
    BY <2>1, <2>3, LedgerIs
  <2> QED BY <2>2, <2>4 DEF StagedRow
<1>5. days # {}
  <2>1. 1 \in 1..n(a)
    BY <1>1, <1>3
  <2>2. \E x \in ToSet(rows) : StagedRow(a, 1, n(a), Known(a, staged.of[a]), x)
    BY <1>1, <2>1 DEF StagesAll
  <2> QED BY <2>2
<1>6. IsFiniteSet(days)
  <2> DEFINE f == [i \in 1..N |-> rows[i].date]
  <2>1. N \in Nat /\ DOMAIN rows = 1..N
    BY <1>1, ListDomain
  <2>2. days = {rows[i].date : i \in 1..N}
    BY <2>1 DEF ToSet
  <2>3. f \in Surjection(1..N, days)
    <3>1. f \in [1..N -> days] /\ \A x \in days : \E i \in 1..N : f[i] = x
      BY <2>2
    <3> QED BY <3>1 DEF Surjection
  <2> HIDE DEF f, days
  <2> QED BY <2>1, <2>3, UptoFinite, FS_Surjection
<1> HIDE DEF days
<1>7. Min(days) \in Int /\ Max(days) \in Int
  <2>1. Min(days) \in days
    BY <1>4, <1>5, <1>6, HasMin
  <2>2. Max(days) \in days
    BY <1>4, <1>5, <1>6, HasMax
  <2> QED BY <1>4, <2>1, <2>2
<1>8. DOMAIN DailyMetrics = Min(days)..Max(days)
  BY DEF DailyMetrics, days
<1>9. DailyMetrics[d].balance = [b \in DOMAIN exports |-> EndOfDay(b, d)]
  <2>1. d \in Min(days)..Max(days)
    BY <1>8
  <2> QED BY <2>1 DEF DailyMetrics, days
<1>10. d \in Int
  <2>1. d \in Min(days)..Max(days)
    BY <1>8
  <2> QED BY <1>7, <2>1
<1> QED BY <1>9, <1>10

(* The last transaction of an account up to a day, of the first n.          *)
LastUpto(a, n, d, m) ==
  /\ m \in 1..n /\ Ledger[a][m].date <= d
  /\ \A i \in 1..n : Ledger[a][i].date <= d => i <= m

LEMMA LastIs ==
  ASSUME NEW a, NEW n \in Nat, NEW d \in Int, n > 0, Ledger[a][1].date <= d
  PROVE  LET m == Max({0} \cup {i \in 1..n : Ledger[a][i].date <= d}) IN LastUpto(a, n, d, m)
<1> DEFINE S == {0} \cup {i \in 1..n : Ledger[a][i].date <= d}  m == Max(S)
<1>1. S \subseteq 0..n /\ 1 \in S
  OBVIOUS
<1>2. \A i \in S : i \in 1..n => Ledger[a][i].date <= d
  OBVIOUS
<1>3. \A i \in 1..n : Ledger[a][i].date <= d => i \in S
  OBVIOUS
<1> HIDE DEF S
<1>4. S \subseteq Int /\ IsFiniteSet(S) /\ S # {}
  <2>1. IsFiniteSet(0..n) /\ 0..n \subseteq Int
    BY FS_Interval
  <2> QED BY <1>1, <2>1, FS_Subset
<1>5. m \in S /\ \A y \in S : y <= m
  BY <1>4, HasMax
<1>6. m \in 1..n
  <2>1. 1 <= m /\ m \in 0..n
    BY <1>1, <1>5
  <2> HIDE DEF m
  <2> QED BY <2>1
<1>7. LastUpto(a, n, d, m)
  BY <1>2, <1>3, <1>5, <1>6 DEF LastUpto
<1> QED BY <1>7 DEF m, S

LEMMA EndOfDayIs ==
  ASSUME NEW a \in DOMAIN Ledger, NEW n \in Nat, NEW known, NEW d \in Int, NEW m,
         n <= Len(Ledger[a]), IsList(staged.rows), StagesAll(staged.rows, a, n, known), known,
         LastUpto(a, n, d, m)
  PROVE  EndOfDay(a, d) = Books(a, m)
<1> DEFINE rows == staged.rows  N == Len(rows)
           till == {i \in OfAccount(rows, a) : rows[i].date <= d}
           Latest(i) == \A j \in till : \/ rows[j].date < rows[i].date
                                        \/ rows[j].date = rows[i].date /\ rows[j].index <= rows[i].index
           day(i) == Ledger[a][i].date
<1>1. /\ \A i \in 1..n : i \in DOMAIN Ledger[a] /\ day(i) \in Int
      /\ \A i, j \in 1..n : i <= j => day(i) <= day(j)
  BY LedgerIs
<1>2. m \in 1..n /\ day(m) <= d /\ \A i \in 1..n : day(i) <= d => i <= m
  BY DEF LastUpto
<1>3. N \in Nat /\ DOMAIN rows = 1..N
  BY ListDomain
<1>4. LastOfDay(a, m, n)
  <2> SUFFICES ASSUME NEW j \in (m + 1)..n PROVE day(j) # day(m)
    BY DEF LastOfDay
  <2>1. j \in 1..n /\ ~(j <= m)
    BY <1>2
  <2> HIDE DEF day
  <2> QED BY <1>2, <2>1
<1> HIDE DEF day
<1>5. ASSUME NEW j \in till
      PROVE  \E i \in 1..n : StagedRow(a, i, n, known, rows[j]) /\ i <= m
  <2>1. rows[j] \in ToSet(rows) /\ rows[j].accountType = a /\ rows[j].date <= d
    BY DEF OfAccount, ToSet
  <2>2. PICK i \in 1..n : StagedRow(a, i, n, known, rows[j])
    BY <2>1 DEF StagesAll
  <2>3. day(i) <= d
    BY <2>1, <2>2 DEF StagedRow, day
  <2> QED BY <1>2, <2>2, <2>3
<1>6. PICK k \in till : StagedRow(a, m, n, known, rows[k])
  <2>1. PICK x \in ToSet(rows) : StagedRow(a, m, n, known, x)
    BY <1>2 DEF StagesAll
  <2>2. PICK k \in DOMAIN rows : x = rows[k]
    BY DEF ToSet
  <2>3. k \in till
    BY <1>2, <2>1, <2>2 DEF OfAccount, StagedRow, day
  <2> QED BY <2>1, <2>2, <2>3
<1>7. EndOfDay(a, d) = rows[CHOOSE i \in till : Latest(i)].balance
  <2>1. till # {}
    BY <1>6
  <2> QED BY <2>1 DEF EndOfDay
<1>8. rows[k].date = day(m) /\ rows[k].index = m
  BY <1>6 DEF StagedRow, day
<1> HIDE DEF till
<1>9. Latest(k)
  <2> SUFFICES ASSUME NEW j \in till
               PROVE  \/ rows[j].date < rows[k].date
                      \/ rows[j].date = rows[k].date /\ rows[j].index <= rows[k].index
    OBVIOUS
  <2>1. PICK i \in 1..n : StagedRow(a, i, n, known, rows[j]) /\ i <= m
    BY <1>5
  <2>2. rows[j].date = day(i) /\ rows[j].index = i
    BY <2>1 DEF StagedRow, day
  <2>3. day(i) <= day(m) /\ day(i) \in Int /\ day(m) \in Int
    BY <1>1, <1>2, <2>1
  <2> QED BY <1>8, <2>1, <2>2, <2>3
<1>10. ASSUME NEW i \in till, Latest(i) PROVE rows[i].balance = Books(a, m)
  <2>1. PICK h \in 1..n : StagedRow(a, h, n, known, rows[i]) /\ h <= m
    BY <1>5
  <2>2. rows[i].date = day(h) /\ rows[i].index = h
    BY <2>1 DEF StagedRow, day
  <2>3. day(h) <= day(m) /\ day(h) \in Int /\ day(m) \in Int
    BY <1>1, <1>2, <2>1
  <2>4. day(m) < day(h) \/ (day(m) = day(h) /\ m <= h)
    <3>1. \/ rows[k].date < rows[i].date
          \/ rows[k].date = rows[i].date /\ rows[k].index <= rows[i].index
      BY <1>10
    <3> QED BY <1>8, <2>2, <3>1
  <2>5. h = m
    BY <1>2, <2>1, <2>3, <2>4
  <2> QED BY <1>4, <2>1, <2>5 DEF StagedRow
<1> HIDE DEF Latest
<1>11. \E i \in till : Latest(i)
  BY <1>9
<1> QED BY <1>7, <1>10, <1>11

LEMMA BalancesAre == ASSUME PipelineInv PROVE BalancesAreTheBanks
<1> SUFFICES ASSUME staged # NULL, NEW a \in DOMAIN exports, Covered(a) > 0, Anchored(a),
                    NEW d \in DOMAIN DailyMetrics, d >= Ledger[a][1].date
             PROVE  DailyMetrics[d].balance[a] =
                      Books(a, Max({0} \cup {i \in 1..Covered(a) : Ledger[a][i].date <= d}))
  BY DEF BalancesAreTheBanks
<1> DEFINE fs == staged.of[a]  n == Before(fs, Len(fs))
           m == Max({0} \cup {i \in 1..n : Ledger[a][i].date <= d})
<1>1. a \in DOMAIN Ledger /\ Stages(staged)
  BY DEF PipelineInv, Uploads
<1>2. d \in Int /\ DailyMetrics[d].balance[a] = EndOfDay(a, d)
  <2>1. d \in Int /\ DailyMetrics[d].balance = [b \in DOMAIN exports |-> EndOfDay(b, d)]
    BY <1>1, DaysAre
  <2> QED BY <2>1
<1>3. InBooks(a, fs)
  BY <1>1 DEF Stages, Uploads
<1>4. Known(a, fs)
  <2>1. DOMAIN fs = 1..Len(fs)
    BY <1>3, ListDomain DEF InBooks
  <2> QED BY <2>1 DEF Anchored, Known, Stated
<1>5. /\ n \in Nat /\ n <= Len(Ledger[a]) /\ StagesAll(staged.rows, a, n, Known(a, fs))
      /\ IsList(staged.rows)
  BY <1>1 DEF Stages, Reports, Amounted
<1>6. Covered(a) = n /\ n > 0
  BY <1>3, RowsOfIs DEF Covered, InBooks
<1> HIDE DEF fs, n
<1>7. Ledger[a][1].date <= d
  <2>1. 1 \in DOMAIN Ledger[a]
    BY <1>1, <1>5, <1>6, LedgerIs
  <2>2. Ledger[a][1].date \in Int
    BY <1>1, <2>1, LedgerIs
  <2> QED BY <1>2, <2>2
<1>8. LastUpto(a, n, d, m)
  BY <1>2, <1>5, <1>6, <1>7, LastIs
<1> HIDE DEF m
<1>9. EndOfDay(a, d) = Books(a, m)
  <2> DEFINE known == Known(a, fs)
  <2>1. known /\ StagesAll(staged.rows, a, n, known)
    BY <1>4, <1>5
  <2> HIDE DEF known
  <2> QED BY <1>1, <1>2, <1>5, <1>8, <2>1, EndOfDayIs
<1> QED BY <1>2, <1>6, <1>9 DEF m

-----------------------------------------------------------------------------
(* Uploads, maps and runs keep the invariant.                              *)
LEMMA AppendIs ==
  ASSUME NEW s, NEW x, IsList(s)
  PROVE  /\ IsList(Append(s, x)) /\ Len(Append(s, x)) = Len(s) + 1
         /\ \A i \in 1..Len(s) : Append(s, x)[i] = s[i]
         /\ Append(s, x)[Len(s) + 1] = x
<1> DEFINE T == {s[i] : i \in 1..Len(s)} \union {x}
<1>1. s \in Seq(T) /\ x \in T
  <2>1. Len(s) \in Nat /\ s = [i \in 1..Len(s) |-> s[i]] /\ \A i \in 1..Len(s) : s[i] \in T
    BY DEF IsList
  <2>2. x \in T
    OBVIOUS
  <2> HIDE DEF T
  <2> QED BY <2>1, <2>2
<1> HIDE DEF T
<1> DEFINE w == Append(s, x)
<1>2. w \in Seq(T) /\ Len(w) = Len(s) + 1
  BY <1>1
<1>3. (\A i \in 1..Len(s) : w[i] = s[i]) /\ w[Len(s) + 1] = x
  BY <1>1
<1> HIDE DEF w
<1>4. IsList(w)
  BY <1>2 DEF IsList
<1> QED BY <1>2, <1>3, <1>4 DEF w

LEMMA BeforeAppended ==
  ASSUME NEW fs, NEW file, IsList(fs), \A i \in 1..Len(fs) : IsList(fs[i].rows), IsList(file.rows)
  PROVE  LET new == Append(fs, file) IN
         /\ IsList(new) /\ Len(new) = Len(fs) + 1
         /\ \A i \in 1..(Len(fs) + 1) : IsList(new[i].rows)
         /\ \A i \in 0..Len(fs) : Before(new, i) = Before(fs, i)
         /\ Before(new, Len(fs) + 1) = Before(fs, Len(fs)) + Len(file.rows)
<1> DEFINE new == Append(fs, file)  M == Len(fs)
<1>1. M \in Nat /\ DOMAIN fs = 1..M
  BY ListDomain
<1>2. /\ IsList(new) /\ Len(new) = M + 1 /\ (\A i \in 1..M : new[i] = fs[i]) /\ new[M + 1] = file
  BY AppendIs
<1> HIDE DEF new
<1>3. \A i \in 1..(M + 1) : i \in 1..M \/ i = M + 1
  BY <1>1
<1>4. \A i \in 1..(M + 1) : IsList(new[i].rows)
  BY <1>2, <1>3
<1>5. ASSUME NEW i \in 0..M PROVE Before(new, i) = Before(fs, i)
  <2> DEFINE f == Sizes(fs)  h == Sizes(new)  D == 1..i
  <2>1. \A j \in D : j \in 1..M /\ j \in 1..(M + 1)
    BY <1>1
  <2>2. DOMAIN fs = 1..M /\ DOMAIN new = 1..(M + 1)
    BY <1>1, <1>2, ListDomain
  <2>3. \A j \in D : f[j] \in Int /\ h[j] = f[j]
    <3> SUFFICES ASSUME NEW j \in D PROVE f[j] \in Int /\ h[j] = f[j]
      OBVIOUS
    <3>1. j \in DOMAIN fs /\ j \in DOMAIN new /\ new[j] = fs[j] /\ IsList(fs[j].rows)
      BY <1>2, <2>1, <2>2
    <3>2. f[j] = Len(fs[j].rows) /\ h[j] = Len(new[j].rows)
      BY <3>1 DEF Sizes
    <3> QED BY <3>1, <3>2, ListDomain
  <2>4. IsFiniteSet(D)
    BY <1>1, UptoFinite
  <2> HIDE DEF D, f, h
  <2>5. Total(f, D) = Total(h, D)
    BY <2>3, <2>4, TotalSame
  <2> QED BY <2>5 DEF D, f, h, Before
<1>6. Before(new, M + 1) = Before(new, M) + Len(file.rows)
  <2>1. \A j \in 1..Len(new) : IsList(new[j].rows)
    BY <1>2, <1>4
  <2>2. M + 1 <= Len(new) /\ new[M + 1].rows = file.rows /\ IsList(new) /\ M \in Nat
    BY <1>1, <1>2
  <2> QED BY <1>1, <2>1, <2>2, BeforeIs
<1>7. Before(new, M) = Before(fs, M)
  BY <1>1, <1>5
<1> QED BY <1>2, <1>4, <1>5, <1>6, <1>7 DEF new

(* One upload more, of what the bank has in its books next. *)
LEMMA UploadAppended ==
  ASSUME NEW a, NEW fs, NEW file, InBooks(a, fs), IsList(file.rows),
         Part(a, file, Before(fs, Len(fs)), Before(fs, Len(fs)) + Len(file.rows)),
         Before(fs, Len(fs)) + Len(file.rows) <= Len(Ledger[a])
  PROVE  InBooks(a, Append(fs, file))
<1> DEFINE new == Append(fs, file)  M == Len(fs)
<1>1. /\ IsList(fs) /\ M \in Nat
      /\ \A i \in 1..M : /\ IsList(fs[i].rows) /\ Part(a, fs[i], Before(fs, i - 1), Before(fs, i))
                         /\ Before(fs, i) <= Len(Ledger[a])
  BY ListDomain DEF InBooks
<1>2. /\ IsList(new) /\ Len(new) = M + 1 /\ (\A i \in 1..M : new[i] = fs[i]) /\ new[M + 1] = file
  BY <1>1, AppendIs
<1>3. /\ \A i \in 1..(M + 1) : IsList(new[i].rows)
      /\ \A i \in 0..M : Before(new, i) = Before(fs, i)
      /\ Before(new, M + 1) = Before(fs, M) + Len(file.rows)
  BY <1>1, BeforeAppended
<1> HIDE DEF new, M
<1>7. ASSUME NEW i \in 1..(M + 1)
      PROVE  Part(a, new[i], Before(new, i - 1), Before(new, i)) /\ Before(new, i) <= Len(Ledger[a])
  <2>1. CASE i \in 1..M
    <3>1. i \in 0..M /\ i - 1 \in 0..M
      BY <1>1, <2>1
    <3> QED BY <1>1, <1>2, <1>3, <2>1, <3>1
  <2>2. CASE i = M + 1
    <3>1. i - 1 = M /\ M \in 0..M
      BY <1>1, <2>2
    <3>2. Before(new, i - 1) = Before(fs, M) /\ Before(new, i) = Before(fs, M) + Len(file.rows)
      BY <1>3, <2>2, <3>1
    <3>3. new[i] = file
      BY <1>2, <2>2
    <3> QED BY <3>2, <3>3 DEF M
  <2> QED BY <1>1, <2>1, <2>2
<1>8. InBooks(a, new)
  BY <1>2, <1>3, <1>7 DEF InBooks
<1> QED BY <1>8 DEF new

LEMMA BeforeType == ASSUME NEW a, NEW fs, InBooks(a, fs) PROVE Before(fs, Len(fs)) \in Nat
<1> DEFINE N == Len(fs)
<1>1. N \in Nat /\ IsList(fs) /\ \A j \in 1..N : IsList(fs[j].rows)
  BY ListDomain DEF InBooks
<1> HIDE DEF N
<1>2. CASE N = 0
  <2>1. 1..N = {}
    BY <1>2
  <2> QED BY <2>1, TotalOfNothing DEF Before, N
<1>3. CASE N # 0
  <2> DEFINE i == N - 1
  <2>1. i \in Nat /\ i + 1 = N
    BY <1>1, <1>3
  <2> HIDE DEF i
  <2>2. Before(fs, i + 1) \in Nat
    BY <1>1, <2>1, BeforeIs DEF N
  <2> QED BY <2>1, <2>2 DEF N
<1> QED BY <1>2, <1>3

LEMMA NoUploads == ASSUME NEW a PROVE InBooks(a, <<>>) /\ Before(<<>>, Len(<<>>)) = 0
<1>1. IsList(<<>>) /\ Len(<<>>) = 0 /\ 1..0 = {}
  BY NoList
<1> QED BY <1>1, TotalOfNothing DEF InBooks, Before

(* An export of the next n transactions. *)
LEMMA ExportAppended ==
  ASSUME NEW a \in DOMAIN Ledger, NEW fs, InBooks(a, fs), NEW version \in {"v1", "v2"}, NEW d \in Nat,
         Before(fs, Len(fs)) <= d, d <= Len(Ledger[a])
  PROVE  LET file == Export(a, version, Before(fs, Len(fs)) + 1, d) IN
         InBooks(a, Append(fs, file)) /\ Before(Append(fs, file), Len(Append(fs, file))) = d
<1> DEFINE c == Before(fs, Len(fs))  file == Export(a, version, c + 1, d)  new == Append(fs, file)  M == Len(fs)
<1>1. c \in Nat
  BY BeforeType
<1>2. c <= d
  OBVIOUS
<1> HIDE DEF c
<1>3. IsList(file.rows) /\ Len(file.rows) = d - c
  <2>1. Lists(file, a, version, c, d)
    BY <1>1, <1>2, ExportIs
  <2> HIDE DEF file
  <2> QED BY <2>1 DEF Lists
<1>4. Part(a, file, c, d)
  <2>1. version \in DOMAIN RowOrder
    BY Layouts
  <2> HIDE DEF file
  <2>2. c <= d /\ file = Export(a, version, c + 1, d)
    BY <1>2 DEF file
  <2>3. \E v \in DOMAIN RowOrder : c <= d /\ file = Export(a, v, c + 1, d)
    BY <2>1, <2>2
  <2> QED BY <2>3 DEF Part
<1>5. c + Len(file.rows) = d
  BY <1>1, <1>3
<1> HIDE DEF file
<1>6. InBooks(a, new)
  BY <1>3, <1>4, <1>5, UploadAppended DEF c
<1>7. Before(new, M + 1) = d
  <2>1. IsList(fs) /\ \A j \in 1..Len(fs) : IsList(fs[j].rows)
    BY DEF InBooks
  <2>2. Before(new, M + 1) = Before(fs, M) + Len(file.rows)
    BY <1>3, <2>1, BeforeAppended
  <2> QED BY <1>5, <2>2 DEF c
<1>8. Len(new) = M + 1
  BY AppendIs DEF InBooks
<1> QED BY <1>6, <1>7, <1>8 DEF new, file, c

LEMMA ExportedIs == ASSUME NEW a, InBooks(a, exports[a])
                    PROVE  Exported(a) = Before(exports[a], Len(exports[a]))
BY RowsOfIs DEF Exported, InBooks

LEMMA AddedIs ==
  ASSUME PipelineInv, NEW a \in DOMAIN Ledger, NEW file, InBooks(a, Append(exports[a], file)), Add(a, file)
  PROVE  PipelineInv'
<1>1. exports' = [exports EXCEPT ![a] = Append(@, file)] /\ budgetMap' = budgetMap /\ staged' = staged
  BY DEF Add
<1>2. Uploads(exports)
  BY DEF PipelineInv
<1>3. Uploads(exports')
  <2>1. DOMAIN exports' = DOMAIN Ledger
    BY <1>1, <1>2 DEF Uploads
  <2>2. ASSUME NEW b \in DOMAIN Ledger PROVE InBooks(b, exports'[b])
    <3>1. CASE b = a
      <4>1. exports'[b] = Append(exports[a], file)
        BY <1>1, <1>2, <3>1 DEF Uploads
      <4> QED BY <3>1, <4>1
    <3>2. CASE b # a
      <4>1. exports'[b] = exports[b]
        BY <1>1, <1>2, <3>2 DEF Uploads
      <4> QED BY <1>2, <4>1 DEF Uploads
    <3> QED BY <3>1, <3>2
  <2> QED BY <2>1, <2>2 DEF Uploads
<1> QED BY <1>1, <1>3 DEF PipelineInv

(* An old card export that is not quite in order is a part of the books too. *)
LEMMA TurnedIsPart ==
  ASSUME NEW a, NEW c \in Nat, NEW d \in Nat, a = "CreditCard", c < d,
         LET rows == Export(a, "v1", c + 1, d).rows IN
         \A i \in 2..(d - c) : rows[i].date # rows[1].date
  PROVE  Part(a, Turned(a, c, d), c, d)
<1> DEFINE rows == Export(a, "v1", c + 1, d).rows
<1>1. \A k \in 1..(d - c) : rows[k].date = Ledger[a][c + k].date
  <2> DEFINE e == Export(a, "v1", c + 1, d)
  <2>1. c \in Nat /\ d \in Nat /\ c <= d /\ \A k \in 1..(d - c) : At("v1", c, d, k) = c + k
    BY DEF At
  <2>2. Lists(e, a, "v1", c, d)
    BY ONLY <2>1, ExportIs
  <2> HIDE DEF e
  <2>3. \A k \in 1..(d - c) : e.rows[k] = ExportedRow(a, "v1", c + 1, d, c + k)
    BY ONLY <2>1, <2>2 DEF Lists
  <2>4. \A i : ExportedRow(a, "v1", c + 1, d, i).date = Ledger[a][i].date
    BY DEF ExportedRow
  <2> QED BY <2>3, <2>4 DEF e
<1>2. \A i \in 2..(d - c) : rows[i].date # rows[1].date
  OBVIOUS
<1> HIDE DEF rows
<1>3. ASSUME NEW j \in (c + 2)..d PROVE Ledger[a][j].date # Ledger[a][c + 1].date
  <2>1. j - c \in 2..(d - c) /\ j - c \in 1..(d - c) /\ c + (j - c) = j /\ 1 \in 1..(d - c)
    OBVIOUS
  <2>2. rows[j - c].date = Ledger[a][c + (j - c)].date
    BY <1>1, <2>1
  <2>3. rows[1].date = Ledger[a][c + 1].date
    BY <1>1, <2>1
  <2> QED BY <1>2, <2>1, <2>2, <2>3
<1>4. Part(a, Turned(a, c, d), c, d)
  BY <1>3 DEF Part
<1> QED BY <1>4

LEMMA AddExportStep ==
  ASSUME PipelineInv, NEW a \in DOMAIN Ledger, NEW version \in {"v1", "v2"}, NEW n \in 1..3,
         AddExport(a, version, n)
  PROVE  PipelineInv'
<1> DEFINE fs == exports[a]  c == Before(fs, Len(fs))  d == c + n
           file == Export(a, version, c + 1, d)
           other == [file EXCEPT !.rows = Append(Tail(@), Head(@))]
<1>1. InBooks(a, fs)
  BY DEF PipelineInv, Uploads
<1>2. c \in Nat /\ Exported(a) = c
  BY <1>1, BeforeType, ExportedIs
<1>3. /\ d <= Len(Ledger[a])
      /\ \/ Add(a, file)
         \/ /\ version = "v1" /\ a = "CreditCard"
            /\ \A i \in 2..n : file.rows[i].date # file.rows[1].date
            /\ Add(a, other)
  <2> HIDE DEF c
  <2> QED BY <1>2 DEF AddExport
<1>4. d \in Nat /\ c <= d /\ c < d /\ d - c = n
  <2> HIDE DEF c
  <2> QED BY <1>2
<1>5. CASE Add(a, file)
  <2>1. InBooks(a, Append(fs, file))
    <3> HIDE DEF d, fs
    <3> QED BY <1>1, <1>3, <1>4, ExportAppended
  <2> HIDE DEF file
  <2> QED BY <1>5, <2>1, AddedIs
<1>6. CASE /\ version = "v1" /\ a = "CreditCard"
           /\ \A i \in 2..n : file.rows[i].date # file.rows[1].date
           /\ Add(a, other)
  <2>1. other = Turned(a, c, d)
    BY <1>6 DEF Turned
  <2>2. Part(a, other, c, d)
    <3>1. \A i \in 2..(d - c) : file.rows[i].date # file.rows[1].date
      BY <1>4, <1>6
    <3> HIDE DEF c, d, other
    <3>2. Part(a, Turned(a, c, d), c, d)
      BY <1>2, <1>4, <1>6, <3>1, TurnedIsPart
    <3> QED BY <1>6, <2>1, <3>2
  <2>3. IsList(other.rows) /\ Len(other.rows) = d - c
    <3> HIDE DEF c, d, other
    <3> QED BY <1>2, <1>4, <2>1, TurnedIs
  <2>4. c + Len(other.rows) = d
    <3> HIDE DEF c, other
    <3> QED BY <1>2, <1>4, <2>3
  <2> HIDE DEF other, d, fs
  <2>5. InBooks(a, Append(fs, other))
    BY <1>1, <1>3, <2>2, <2>3, <2>4, UploadAppended
  <2> QED BY <1>6, <2>5, AddedIs DEF fs
<1> QED BY <1>3, <1>5, <1>6

LEMMA AddForeignStep ==
  ASSUME PipelineInv, NEW a \in DOMAIN Ledger, AddForeign(a) PROVE PipelineInv'
<1> DEFINE fs == exports[a]  c == Before(fs, Len(fs))  file == [version |-> "other", rows |-> <<>>]
<1>1. InBooks(a, fs)
  BY DEF PipelineInv, Uploads
<1>2. file.rows = <<>> /\ file.version = "other"
  OBVIOUS
<1>3. Add(a, file)
  BY DEF AddForeign
<1> HIDE DEF file, fs
<1>4. c \in Nat
  BY <1>1, BeforeType
<1>5. IsList(file.rows) /\ c + Len(file.rows) = c
  BY <1>2, <1>4, NoList
<1>6. Part(a, file, c, c)
  <2>1. "other" \notin DOMAIN RowOrder
    BY Layouts
  <2> QED BY <1>2, <2>1 DEF Part
<1>7. c <= Len(Ledger[a])
  <2>1. IsList(fs) /\ Len(fs) \in Nat
    BY <1>1, ListDomain DEF InBooks
  <2>2. CASE Len(fs) = 0
    <3>1. 1..0 = {}
      OBVIOUS
    <3> QED BY <2>2, <3>1, LedgerIs, TotalOfNothing DEF Before
  <2>3. CASE Len(fs) # 0
    <3>1. Len(fs) \in 1..Len(fs)
      BY <2>1, <2>3
    <3> QED BY <1>1, <3>1 DEF InBooks
  <2> QED BY <2>2, <2>3
<1>8. InBooks(a, Append(fs, file))
  BY <1>1, <1>5, <1>6, <1>7, UploadAppended
<1> QED BY <1>3, <1>8, AddedIs DEF fs

LEMMA BuildStep == ASSUME PipelineInv, Build PROVE PipelineInv'
<1>1. /\ Uploads(exports) /\ budgetMap \in BudgetMaps /\ (staged = NULL \/ Stages(staged))
      /\ exports' = exports /\ budgetMap' = budgetMap
      /\ staged' = IF Runs(exports, budgetMap) THEN Run(exports, budgetMap) ELSE staged
  BY DEF PipelineInv, Build
<1>2. ASSUME Runs(exports, budgetMap) PROVE Stages(Run(exports, budgetMap))
  <2> DEFINE t == Run(exports, budgetMap)
  <2>1. Reports(t.rows, exports, budgetMap)
    BY <1>1, <1>2, RunReports DEF Uploads
  <2>2. t.of = exports /\ t.by = budgetMap
    BY DEF Run
  <2> HIDE DEF t
  <2>3. Stages(t)
    BY <1>1, <2>1, <2>2 DEF Stages
  <2> QED BY <2>3 DEF t
<1>3. staged' = NULL \/ Stages(staged')
  BY <1>1, <1>2
<1> QED BY <1>1, <1>3 DEF PipelineInv

LEMMA PipelineStep == ASSUME PipelineInv, PipelineNext PROVE PipelineInv'
<1>1. ASSUME NEW a \in DOMAIN Ledger, NEW version \in DOMAIN RowOrder, NEW n \in 1..3,
             AddExport(a, version, n)
      PROVE  PipelineInv'
  <2>1. version \in {"v1", "v2"}
    BY Layouts
  <2> QED BY <1>1, <2>1, AddExportStep
<1>2. ASSUME NEW a \in DOMAIN Ledger, AddForeign(a) PROVE PipelineInv'
  BY <1>2, AddForeignStep
<1>3. ASSUME NEW map \in BudgetMaps, SaveMap(map) PROVE PipelineInv'
  BY <1>3 DEF SaveMap, PipelineInv
<1>4. CASE Build
  BY <1>4, BuildStep
<1> QED BY <1>1, <1>2, <1>3, <1>4 DEF PipelineNext

LEMMA ListsOf == \A x, y : <<x>> = Append(<<>>, x) /\ <<x, y>> = Append(<<x>>, y)
<1> TAKE x, y
<1>1. <<>> \in Seq({x, y}) /\ <<x>> \in Seq({x, y}) /\ x \in {x, y} /\ y \in {x, y}
  OBVIOUS
<1> QED BY <1>1

LEMMA CutIs ==
  ASSUME NEW a \in DOMAIN Ledger
  PROVE  Cut(a, 2) \in Nat /\ Cut(a, 2) <= Len(Ledger[a])
<1> DEFINE n == Len(Ledger[a])  S == {2, n}
<1>1. n \in Nat
  BY LedgerIs
<1> HIDE DEF n
<1>2. S \subseteq 0..(n + 2) /\ n \in S /\ 0..(n + 2) \subseteq Int
  BY <1>1
<1>3. IsFiniteSet(0..(n + 2))
  BY <1>1, FS_Interval
<1> HIDE DEF S
<1>4. Min(S) \in S /\ \A y \in S : Min(S) <= y
  BY <1>2, <1>3, FS_Subset, HasMin
<1>5. Min(S) \in Nat /\ Min(S) <= n
  <2> DEFINE m == Min(S)
  <2>1. m \in 0..(n + 2) /\ m <= n
    BY <1>2, <1>4
  <2> HIDE DEF m
  <2>2. m \in Nat /\ m <= n
    BY <1>1, <2>1
  <2> QED BY <2>2 DEF m
<1> QED BY <1>5 DEF Cut, S, n

LEMMA AllInBooks == Uploads(AllExports(2))
<1>1. DOMAIN AllExports(2) = DOMAIN Ledger
  BY DEF AllExports
<1>2. ASSUME NEW a \in DOMAIN Ledger PROVE InBooks(a, AllExports(2)[a])
  <2> DEFINE c == Cut(a, 2)  n == Len(Ledger[a])
             x == Export(a, "v1", 1, c)  y == Export(a, "v2", c + 1, n)
  <2>1. c \in Nat /\ c <= n /\ n \in Nat
    BY CutIs, LedgerIs
  <2>2. AllExports(2)[a] = <<x, y>>
    BY DEF AllExports
  <2>3. <<x, y>> = Append(Append(<<>>, x), y)
    <3> HIDE DEF x, y
    <3> QED BY ListsOf
  <2> HIDE DEF c
  <2>4. InBooks(a, <<>>) /\ Before(<<>>, Len(<<>>)) = 0
    BY NoUploads
  <2>5. x = Export(a, "v1", Before(<<>>, Len(<<>>)) + 1, c)
    <3>1. 0 + 1 = 1
      OBVIOUS
    <3> QED BY <2>4, <3>1
  <2> DEFINE fs == Append(<<>>, x)
  <2>6. InBooks(a, fs) /\ Before(fs, Len(fs)) = c
    <3> DEFINE none == <<>>  v == "v1"
    <3>1. v \in {"v1", "v2"} /\ InBooks(a, none) /\ Before(none, Len(none)) = 0
      BY <2>4
    <3>2. x = Export(a, v, Before(none, Len(none)) + 1, c)
      BY <2>5
    <3> HIDE DEF x, none, v
    <3>3. InBooks(a, Append(none, x)) /\ Before(Append(none, x), Len(Append(none, x))) = c
      BY <2>1, <3>1, <3>2, ExportAppended
    <3> QED BY <3>3 DEF none
  <2> HIDE DEF x, fs
  <2>7. y = Export(a, "v2", Before(fs, Len(fs)) + 1, n)
    BY <2>6
  <2>8. InBooks(a, Append(fs, y))
    <3> HIDE DEF y, n
    <3>1. Before(fs, Len(fs)) <= n /\ n <= Len(Ledger[a]) /\ n \in Nat
      BY <2>1, <2>6 DEF n
    <3> QED BY <2>6, <2>7, <3>1, ExportAppended
  <2> QED BY <2>2, <2>3, <2>8 DEF fs
<1> QED BY <1>1, <1>2 DEF Uploads

LEMMA PipelineStarts == ASSUME Init PROVE PipelineInv
<1>1. CASE screen = "breakdown"
  <2>1. budgetMap \in BudgetMaps /\ exports = AllExports(2) /\ staged = NULL
    BY <1>1 DEF Init
  <2> QED BY <2>1, AllInBooks DEF PipelineInv
<1>2. CASE screen # "breakdown"
  <2>1. budgetMap \in BudgetMaps /\ exports = [a \in DOMAIN Ledger |-> <<>>] /\ staged = NULL
    BY <1>2 DEF Init, PipelineInit
  <2>2. Uploads(exports)
    BY <2>1, NoUploads DEF Uploads
  <2> QED BY <2>1, <2>2 DEF PipelineInv
<1> QED BY <1>1, <1>2

LEMMA PipelineKeeps == ASSUME PipelineInv, [Next]_vars PROVE PipelineInv'
<1>1. ASSUME UNCHANGED pipelineVars PROVE PipelineInv'
  BY <1>1 DEF pipelineVars, PipelineInv
<1>2. CASE UNCHANGED vars
  BY <1>1, <1>2 DEF vars, pipelineVars
<1>3. CASE screen = "budget-map" /\ BudgetNext /\ UNCHANGED <<rawVars, pipelineVars, reportVars, screen>>
  BY <1>1, <1>3
<1>4. CASE screen = "raw-csvs" /\ RawNext /\ UNCHANGED <<budgetVars, pipelineVars, reportVars, screen>>
  BY <1>1, <1>4
<1>5. CASE screen = "pipeline" /\ PipelineNext /\ UNCHANGED <<budgetVars, rawVars, reportVars, screen>>
  BY <1>5, PipelineStep
<1>6. CASE /\ screen = "breakdown" /\ staged = NULL /\ Build
           /\ UNCHANGED <<budgetVars, rawVars, reportVars, screen>>
  BY <1>6, BuildStep
<1>7. CASE /\ screen = "breakdown" /\ staged # NULL /\ ReportNext(breakdown_rows(staged))
           /\ UNCHANGED <<budgetVars, rawVars, pipelineVars, screen>>
  BY <1>1, <1>7
<1> QED BY <1>2, <1>3, <1>4, <1>5, <1>6, <1>7 DEF Next

LEMMA PipelineInvariant == Spec => []PipelineInv
<1>1. Init => PipelineInv
  BY PipelineStarts
<1>2. PipelineInv /\ [Next]_vars => PipelineInv'
  BY PipelineKeeps
<1> QED BY <1>1, <1>2, PTL DEF Spec

(* However the books were cut into exports, and whatever map a user saved,   *)
(* the breakdown has all the money of the exports, once.                   *)
THEOREM MoneyTies == Spec => []TotalsTie
<1>1. PipelineInv => TotalsTie
  BY TotalsDoTie
<1> QED BY <1>1, PipelineInvariant, PTL

(* Each day of the report closes with the balance in the books of the bank.  *)
THEOREM DaysClose == Spec => []BalancesAreTheBanks
<1>1. PipelineInv => BalancesAreTheBanks
  BY BalancesAre
<1> QED BY <1>1, PipelineInvariant, PTL
=============================================================================
