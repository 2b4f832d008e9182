------------------------- MODULE OverridesTabProofs -------------------------
(* Proofs about OverridesTab: what is stored is what the form said, the     *)
(* server never refuses a form for its ends, and a save takes over no row   *)
(* that the list showed.  What ties them is the save under way: draftProblem*)
(* let its form through, against the list of that moment, and the call is   *)
(* about the row of the form.                                               *)
EXTENDS OverridesTab, TLAPS

(* canonical_pair loses nothing: override_to_ir gives the assertion back. *)
LEMMA RoundTrip ==
  ASSUME NEW sourceTable, NEW sourceColumns, NEW targetTable, NEW targetColumns,
         NEW action, NEW cardinality, NEW p,
         p = [source |-> [entity |-> sourceTable, columns |-> sourceColumns],
              target |-> [entity |-> targetTable, columns |-> targetColumns],
              action |-> action, cardinality |-> cardinality]
  PROVE  override_to_ir(canonical_pair(p)) = p
  BY DEF override_to_ir, canonical_pair

(* The payload of a draft that joins: one end per table, equal lengths. *)
LEMMA Payload ==
  ASSUME NEW d, ~d.suppress
  PROVE  LET a == [entity |-> d.entityA, columns |-> [i \in DOMAIN d.pairs |-> d.pairs[i].a]]
             b == [entity |-> d.entityB, columns |-> [i \in DOMAIN d.pairs |-> d.pairs[i].b]]
         IN draftPayload(d) =
              [source |-> IF d.aReferencesB THEN a ELSE b, target |-> IF d.aReferencesB THEN b ELSE a,
               action |-> "join", cardinality |-> d.cardinality]
  BY DEF draftPayload

(* Which end of a payload is stored first depends on the order of the names, *)
(* and manySide tells the source.                                          *)
LEMMA RowOfPayload ==
  ASSUME NEW p
  PROVE  LET row == canonical_pair(p) IN
         /\ row.action = p.action /\ row.cardinality = p.cardinality
         /\ \/ /\ row.manySide = "a"
               /\ row.a = p.source.entity /\ row.columnsA = p.source.columns
               /\ row.b = p.target.entity /\ row.columnsB = p.target.columns
            \/ /\ row.manySide = "b"
               /\ row.a = p.target.entity /\ row.columnsA = p.target.columns
               /\ row.b = p.source.entity /\ row.columnsB = p.source.columns
  BY DEF canonical_pair

(* Equalities of columns have no direction. *)
LEMMA Swapped ==
  ASSUME NEW S, NEW x, NEW f, NEW y, NEW g
  PROVE  {{<<x, f[i]>>, <<y, g[i]>>} : i \in S} = {{<<y, g[i]>>, <<x, f[i]>>} : i \in S}
<1> DEFINE l(i) == {<<x, f[i]>>, <<y, g[i]>>}  r(i) == {<<y, g[i]>>, <<x, f[i]>>}
<1>1. \A i : l(i) = r(i)
  OBVIOUS
<1> HIDE DEF l, r
<1>2. {l(i) : i \in S} \subseteq {r(i) : i \in S}
  BY <1>1
<1>3. {r(i) : i \in S} \subseteq {l(i) : i \in S}
  BY <1>1
<1>4. {l(i) : i \in S} = {r(i) : i \in S}
  BY <1>2, <1>3
<1> QED BY <1>4 DEF l, r

(* A stored row says what the draft behind it said. *)
LEMMA StoredAsSaid ==
  ASSUME NEW d
  PROVE  /\ RowSays(canonical_pair(draftPayload(d))) = FormSays(d)
         /\ canonical_pair(draftPayload(d)).cardinality = d.cardinality
<1> DEFINE p == draftPayload(d)  row == canonical_pair(p)
<1>1. CASE d.suppress
  <2>1. p.action = "suppress" /\ p.cardinality = d.cardinality
    BY <1>1 DEF draftPayload
  <2>2. {p.source.entity, p.target.entity} = {d.entityA, d.entityB}
    BY <1>1 DEF draftPayload
  <2> HIDE DEF p
  <2>3. /\ row.action = p.action /\ row.cardinality = p.cardinality
        /\ {row.a, row.b} = {p.source.entity, p.target.entity}
    <3>1. \/ row.a = p.source.entity /\ row.b = p.target.entity
          \/ row.a = p.target.entity /\ row.b = p.source.entity
      BY RowOfPayload
    <3>2. row.action = p.action /\ row.cardinality = p.cardinality
      BY RowOfPayload
    <3> HIDE DEF row
    <3> QED BY <3>1, <3>2
  <2> HIDE DEF row
  <2>4. RowSays(row) = [apart |-> {row.a, row.b}]
    BY <2>1, <2>3 DEF RowSays
  <2>5. FormSays(d) = [apart |-> {d.entityA, d.entityB}]
    BY <1>1 DEF FormSays
  <2>6. RowSays(row) = FormSays(d) /\ row.cardinality = d.cardinality
    BY <2>1, <2>2, <2>3, <2>4, <2>5
  <2> QED BY <2>6 DEF p, row
<1>2. CASE ~d.suppress
  <2> DEFINE a == [entity |-> d.entityA, columns |-> [i \in DOMAIN d.pairs |-> d.pairs[i].a]]
             b == [entity |-> d.entityB, columns |-> [i \in DOMAIN d.pairs |-> d.pairs[i].b]]
  <2>1. p = [source |-> IF d.aReferencesB THEN a ELSE b, target |-> IF d.aReferencesB THEN b ELSE a,
             action |-> "join", cardinality |-> d.cardinality]
    BY <1>2, Payload
  <2>2. \/ /\ d.aReferencesB /\ p.source = a /\ p.target = b
        \/ /\ ~d.aReferencesB /\ p.source = b /\ p.target = a
    BY <2>1
  <2>3. p.action = "join" /\ p.cardinality = d.cardinality
    BY <2>1
  <2> HIDE DEF p
  <2>4. /\ row.action = "join" /\ row.cardinality = d.cardinality
        /\ \/ /\ row.manySide = "a"
              /\ row.a = p.source.entity /\ row.columnsA = p.source.columns
              /\ row.b = p.target.entity /\ row.columnsB = p.target.columns
           \/ /\ row.manySide = "b"
              /\ row.a = p.target.entity /\ row.columnsA = p.target.columns
              /\ row.b = p.source.entity /\ row.columnsB = p.source.columns
    BY <2>3, RowOfPayload
  <2> HIDE DEF row
  <2>5. RowSays(row) = [from |-> p.source.entity, equal |->
           {{<<p.source.entity, p.source.columns[i]>>, <<p.target.entity, p.target.columns[i]>>} :
              i \in DOMAIN p.source.columns}]
    <3>1. CASE row.manySide = "a"
      BY <2>4, <3>1 DEF RowSays
    <3>2. CASE row.manySide = "b"
      <4>1. DOMAIN p.target.columns = DOMAIN p.source.columns
        BY <2>2
      <4>2. RowSays(row) = [from |-> p.source.entity, equal |->
              {{<<p.target.entity, p.target.columns[i]>>, <<p.source.entity, p.source.columns[i]>>} :
                 i \in DOMAIN p.target.columns}]
        BY <2>4, <3>2 DEF RowSays
      <4>3. {{<<p.target.entity, p.target.columns[i]>>, <<p.source.entity, p.source.columns[i]>>} :
               i \in DOMAIN p.source.columns}
            = {{<<p.source.entity, p.source.columns[i]>>, <<p.target.entity, p.target.columns[i]>>} :
                 i \in DOMAIN p.source.columns}
        BY Swapped
      <4> QED BY <4>1, <4>2, <4>3
    <3> QED BY <2>4, <3>1, <3>2
  <2>6. RowSays(row) = FormSays(d)
    <3> DEFINE A == d.entityA  B == d.entityB  left == a.columns  right == b.columns
    <3>1. DOMAIN left = DOMAIN d.pairs /\ DOMAIN right = DOMAIN d.pairs
      OBVIOUS
    <3>2. FormSays(d) = [from |-> IF d.aReferencesB THEN A ELSE B, equal |->
             {{<<A, left[i]>>, <<B, right[i]>>} : i \in DOMAIN d.pairs}]
      BY <1>2 DEF FormSays
    <3>3. CASE d.aReferencesB /\ p.source = a /\ p.target = b
      <4>1. RowSays(row) = [from |-> A, equal |-> {{<<A, left[i]>>, <<B, right[i]>>} : i \in DOMAIN left}]
        BY <2>5, <3>3
      <4> HIDE DEF left, right
      <4> QED BY <3>1, <3>2, <3>3, <4>1
    <3>4. CASE ~d.aReferencesB /\ p.source = b /\ p.target = a
      <4>1. RowSays(row) = [from |-> B, equal |-> {{<<B, right[i]>>, <<A, left[i]>>} : i \in DOMAIN right}]
        BY <2>5, <3>4
      <4> HIDE DEF left, right
      <4>2. {{<<B, right[i]>>, <<A, left[i]>>} : i \in DOMAIN d.pairs}
              = {{<<A, left[i]>>, <<B, right[i]>>} : i \in DOMAIN d.pairs}
        BY Swapped
      <4>3. RowSays(row) = [from |-> B, equal |-> {{<<B, right[i]>>, <<A, left[i]>>} : i \in DOMAIN d.pairs}]
        BY <3>1, <4>1
      <4>4. FormSays(d) = [from |-> B, equal |-> {{<<A, left[i]>>, <<B, right[i]>>} : i \in DOMAIN d.pairs}]
        BY <3>2, <3>4
      <4> QED BY <4>2, <4>3, <4>4
    <3> QED BY <2>2, <3>3, <3>4
  <2> QED BY <2>4, <2>6 DEF p, row
<1> QED BY <1>1, <1>2

-----------------------------------------------------------------------------
(* What draftProblem lets through, _require_valid_ends accepts.             *)
IsSequence(f) == \E S : f \in Seq(S)

LEMMA Mapped ==
  ASSUME NEW s, IsSequence(s), NEW f, DOMAIN f = DOMAIN s, f = [i \in DOMAIN s |-> f[i]]
  PROVE  IsSequence(f)
<1>1. PICK S : s \in Seq(S)
  BY DEF IsSequence
<1>2. f \in Seq({f[i] : i \in DOMAIN s})
  BY <1>1
<1> QED BY <1>2 DEF IsSequence

LEMMA Longer == ASSUME NEW s, IsSequence(s), NEW e PROVE IsSequence(Append(s, e))
<1>1. PICK S : s \in Seq(S)
  BY DEF IsSequence
<1>2. s \in Seq(S \cup {e}) /\ e \in S \cup {e}
  BY <1>1
<1>3. Append(s, e) \in Seq(S \cup {e})
  BY <1>2
<1> QED BY <1>3 DEF IsSequence

LEMMA Shorter == ASSUME NEW s, IsSequence(s), NEW i \in DOMAIN s PROVE IsSequence(RemoveAt(s, i))
<1>1. PICK S : s \in Seq(S)
  BY DEF IsSequence
<1>2. RemoveAt(s, i) \in Seq(S)
  BY <1>1 DEF RemoveAt
<1> QED BY <1>2 DEF IsSequence

LEMMA Accepted ==
  ASSUME NEW d, NEW existing, ~draftProblem(d, existing), IsSequence(d.pairs)
  PROVE  ValidEnds(draftPayload(d))
<1> DEFINE p == draftPayload(d)
<1>1. CASE d.suppress
  BY <1>1 DEF draftPayload, ValidEnds, draftProblem
<1>2. CASE ~d.suppress
  <2> DEFINE left == [i \in DOMAIN d.pairs |-> d.pairs[i].a]
             right == [i \in DOMAIN d.pairs |-> d.pairs[i].b]
             a == [entity |-> d.entityA, columns |-> left]
             b == [entity |-> d.entityB, columns |-> right]
  <2>1. p = [source |-> IF d.aReferencesB THEN a ELSE b, target |-> IF d.aReferencesB THEN b ELSE a,
             action |-> "join", cardinality |-> d.cardinality]
    BY <1>2, Payload
  <2>2. PICK n \in Nat : DOMAIN d.pairs = 1..n /\ n # 0
    <3>1. d.pairs # <<>>
      BY <1>2 DEF draftProblem
    <3>2. PICK S : d.pairs \in Seq(S)
      BY DEF IsSequence
    <3>3. Len(d.pairs) \in Nat /\ DOMAIN d.pairs = 1..Len(d.pairs) /\ Len(d.pairs) # 0
      BY <3>1, <3>2
    <3> QED BY <3>3
  <2>3. Len(left) = n /\ Len(right) = n /\ left # <<>> /\ right # <<>>
    BY <2>2
  <2>4. \A i, j \in DOMAIN d.pairs : left[i] # "" /\ right[i] # "" /\
          (Fold[left[i]] = Fold[left[j]] /\ Fold[right[i]] = Fold[right[j]] => i = j)
    BY <1>2 DEF draftProblem, pairKey, IsInjective
  <2>5. d.entityA # d.entityB
    BY DEF draftProblem
  <2>6. DOMAIN left = DOMAIN d.pairs /\ DOMAIN right = DOMAIN d.pairs
    OBVIOUS
  <2> HIDE DEF left, right, p
  <2>7. IsInjective([i \in DOMAIN left |-> <<Fold[left[i]], Fold[right[i]]>>])
        /\ IsInjective([i \in DOMAIN right |-> <<Fold[right[i]], Fold[left[i]]>>])
    BY <2>4, <2>6 DEF IsInjective
  <2>8. p.action = "join" /\ p.source.entity # p.target.entity
        /\ \/ p.source.columns = left /\ p.target.columns = right
           \/ p.source.columns = right /\ p.target.columns = left
    BY <2>1, <2>5
  <2>9. /\ Len(p.source.columns) = Len(p.target.columns) /\ p.source.columns # <<>>
        /\ IsInjective([i \in DOMAIN p.source.columns |->
                          <<Fold[p.source.columns[i]], Fold[p.target.columns[i]]>>])
    BY <2>3, <2>7, <2>8
  <2>10. ValidEnds(p)
    BY <2>8, <2>9 DEF ValidEnds
  <2> QED BY <2>10 DEF p
<1> QED BY <1>1, <1>2

-----------------------------------------------------------------------------
(* The inductive invariant.  Rows, and lists of them, have columns in        *)
(* sequences, and so has the open form; no id is above the last that was     *)
(* given; a save in flight was let through by draftProblem, and is about the *)
(* row of its form.                                                        *)
RowIsSound(row) == IsSequence(row.columnsA) /\ IsSequence(row.columnsB)
ListIsSound(l) == \A id \in DOMAIN l : IsSequence(l[id].says.source.columns)

RowsInv ==
  /\ \A id \in DOMAIN rows : RowIsSound(rows[id])
  /\ serial \in Nat /\ DOMAIN rows \subseteq 1..serial

ListInv == ListIsSound(list) /\ (fetch # Nil /\ fetch.read => ListIsSound(fetch.rows))

DraftFields == {"id", "entityA", "entityB", "pairs", "aReferencesB", "suppress", "cardinality"}
DraftInv == draft # Nil => DOMAIN draft = DraftFields /\ IsSequence(draft.pairs)

CallFields == {"kind", "id", "draft", "shown", "answer"}
CallIsSound(c) ==
  /\ DOMAIN c = CallFields /\ c.kind \in {"save", "delete"}
  /\ c.kind = "save" => /\ c.id = c.draft.id /\ IsSequence(c.draft.pairs)
                        /\ ~draftProblem(c.draft, c.shown)
  /\ c.answer # Nil => c.answer.status # "422"
CallsOf(s, S) == s \in Seq(S) /\ \A c \in S : CallIsSound(c)
CallsInv == \E S : CallsOf(calls, S)

IInv == RowsInv /\ ListInv /\ DraftInv /\ CallsInv

-----------------------------------------------------------------------------
(* One more call, one less, or one with an answer. *)
LEMMA CallSent ==
  ASSUME CallsInv, NEW c, CallIsSound(c), calls' = Append(calls, c)
  PROVE  CallsInv' /\ Len(calls') # Len(calls)
<1>1. PICK S : CallsOf(calls, S)
  BY DEF CallsInv
<1>2. CallsOf(calls', S \cup {c}) /\ Len(calls') # Len(calls)
  BY <1>1 DEF CallsOf
<1> QED BY <1>2 DEF CallsInv

LEMMA CallTaken ==
  ASSUME CallsInv, NEW i \in DOMAIN calls, calls' = RemoveAt(calls, i)
  PROVE  CallsInv' /\ Len(calls') # Len(calls)
<1>1. PICK S : CallsOf(calls, S)
  BY DEF CallsInv
<1>2. calls' \in Seq(S) /\ Len(calls') # Len(calls)
  BY <1>1 DEF CallsOf, RemoveAt
<1> QED BY <1>1, <1>2 DEF CallsInv, CallsOf

LEMMA CallAnswered ==
  ASSUME CallsInv, NEW i \in DOMAIN calls, NEW answer, answer.status # "422",
         calls' = [calls EXCEPT ![i].answer = answer]
  PROVE  /\ CallsInv'
         /\ calls'[i].answer = answer
         /\ \A j \in DOMAIN calls : j # i => calls'[j] = calls[j]
<1>1. PICK S : CallsOf(calls, S)
  BY DEF CallsInv
<1>2. i \in 1 .. Len(calls) /\ CallIsSound(calls[i])
  BY <1>1 DEF CallsOf
<1> DEFINE new == [calls[i] EXCEPT !.answer = answer]
<1>3. CallIsSound(new) /\ new.answer = answer
  BY <1>2 DEF CallFields, CallIsSound
<1>4. calls' = [calls EXCEPT ![i] = new]
  OBVIOUS
<1> HIDE DEF new
<1>5. calls' \in Seq(S \cup {new})
  BY <1>1, <1>2, <1>4 DEF CallsOf
<1>6. CallsOf(calls', S \cup {new})
  BY <1>1, <1>3, <1>5 DEF CallsOf
<1> QED BY <1>1, <1>2, <1>3, <1>4, <1>6 DEF CallsInv, CallsOf

LEMMA CallsAreSound == ASSUME CallsInv, NEW i \in DOMAIN calls PROVE CallIsSound(calls[i])
  BY DEF CallsInv, CallsOf

(* What the calls of the page are, in a step. *)
LEMMA SaveSends ==
  ASSUME IInv, Save PROVE CallsInv' /\ Len(calls') # Len(calls)
<1>1. calls' = Append(calls, Call("save", draft.id)) /\ draft # Nil /\ ~draftProblem(draft, list)
  BY DEF Save
<1>2. CallIsSound(Call("save", draft.id))
  BY <1>1 DEF Call, CallIsSound, CallFields, IInv, DraftInv
<1> QED BY <1>1, <1>2, CallSent DEF IInv

LEMMA DeleteSends ==
  ASSUME IInv, NEW id, DeleteRow(id) PROVE CallsInv' /\ Len(calls') # Len(calls)
<1>1. calls' = Append(calls, Call("delete", id))
  BY DEF DeleteRow
<1>2. CallIsSound(Call("delete", id))
  BY DEF Call, CallIsSound, CallFields
<1> QED BY <1>1, <1>2, CallSent DEF IInv

(* No reply is a 422. *)
LEMMA ReplyIsNo422 == ASSUME NEW call, CallIsSound(call) PROVE Reply(call).status # "422"
<1> DEFINE p == draftPayload(call.draft)
<1>1. CASE call.kind = "delete"
  <2>1. Reply(call) = delete_override(call.id)
    BY <1>1 DEF Reply
  <2>2. delete_override(call.id).status # "422"
    BY DEF delete_override, Refused
  <2> QED BY <2>1, <2>2
<1>2. CASE call.kind = "save"
  <2>1. ValidEnds(p)
    BY <1>2, Accepted DEF CallIsSound
  <2> HIDE DEF p
  <2>2. save_override(p).status = "ok" /\ update_override(call.id, p).status # "422"
    BY DEF save_override, update_override, Refused
  <2>3. Reply(call) = save_override(p) \/ Reply(call) = update_override(call.id, p)
    BY <1>2, <2>1 DEF Reply, p
  <2> QED BY <2>2, <2>3
<1> QED BY <1>1, <1>2 DEF CallIsSound

LEMMA ServeAnswers ==
  ASSUME CallsInv, NEW i \in DOMAIN calls, Serve(i)
  PROVE  /\ CallsInv'
         /\ calls'[i].answer = [status |-> Reply(calls[i]).status, id |-> Reply(calls[i]).id]
         /\ \A j \in DOMAIN calls : j # i => calls'[j] = calls[j]
<1> DEFINE answer == [status |-> Reply(calls[i]).status, id |-> Reply(calls[i]).id]
<1>1. calls' = [calls EXCEPT ![i].answer = answer]
  BY DEF Serve
<1>2. answer.status # "422"
  BY CallsAreSound, ReplyIsNo422
<1> HIDE DEF answer
<1>3. CallsInv' /\ calls'[i].answer = answer /\ \A j \in DOMAIN calls : j # i => calls'[j] = calls[j]
  BY <1>1, <1>2, CallAnswered
<1> QED BY <1>3 DEF answer

LEMMA LoseAnswers ==
  ASSUME CallsInv, NEW i \in DOMAIN calls, Lose(i)
  PROVE  /\ CallsInv'
         /\ calls'[i].answer = [status |-> "lost", id |-> Nil]
         /\ \A j \in DOMAIN calls : j # i => calls'[j] = calls[j]
<1> DEFINE answer == [status |-> "lost", id |-> Nil]
<1>1. calls' = [calls EXCEPT ![i].answer = answer] /\ answer.status # "422"
  BY DEF Lose
<1> HIDE DEF answer
<1>2. CallsInv' /\ calls'[i].answer = answer /\ \A j \in DOMAIN calls : j # i => calls'[j] = calls[j]
  BY <1>1, CallAnswered
<1> QED BY <1>2 DEF answer

-----------------------------------------------------------------------------
(* The rows. *)
LEMMA LastId ==
  ASSUME NEW n \in Nat, NEW D, D \subseteq 1..(n + 1)
  PROVE  Max({n} \union D) \in Nat /\ D \subseteq 1..Max({n} \union D)
<1> DEFINE S == {n} \union D
<1>1. \E x \in S : \A y \in S : x >= y
  <2>1. CASE n + 1 \in D
    BY <2>1
  <2>2. CASE n + 1 \notin D
    <3>1. \A y \in S : n >= y
      BY <2>2
    <3> QED BY <3>1
  <2> QED BY <2>1, <2>2
<1> DEFINE m == Max(S)
<1>2. m \in S /\ \A y \in S : m >= y
  BY <1>1 DEF Max
<1>3. S \subseteq Nat
  OBVIOUS
<1> HIDE DEF m
<1>4. m \in Nat /\ \A y \in D : y \in 1..m
  BY <1>2, <1>3
<1> QED BY <1>4 DEF m

RowsAreSound(now) ==
  /\ DOMAIN now \subseteq DOMAIN rows \union {serial + 1}
  /\ \A id \in DOMAIN now : RowIsSound(now[id])

LEMMA RowsStored == ASSUME RowsInv, NEW now, RowsAreSound(now), Store(now) PROVE RowsInv'
<1>1. DOMAIN now \subseteq 1..(serial + 1)
  BY DEF RowsInv, RowsAreSound
<1>2. serial' \in Nat /\ DOMAIN now \subseteq 1..serial'
  BY <1>1, LastId DEF Store, RowsInv
<1> QED BY <1>2 DEF Store, RowsInv, RowsAreSound

LEMMA SavedRows ==
  ASSUME RowsInv, NEW p, IsSequence(p.source.columns), IsSequence(p.target.columns)
  PROVE  /\ RowsAreSound(save_override(p).rows)
         /\ \A id : RowsAreSound(update_override(id, p).rows)
<1> DEFINE row == canonical_pair(p)
<1>1. RowIsSound(row)
  BY DEF canonical_pair, RowIsSound
<1> HIDE DEF row
<1>2. RowsAreSound(save_override(p).rows)
  <2> DEFINE taken == {id \in DOMAIN rows : PairOf(override_to_ir(rows[id])) = PairOf(p)}
             new == IF taken = {} THEN serial + 1 ELSE CHOOSE t \in taken : TRUE
  <2>1. new \in DOMAIN rows \union {serial + 1}
    OBVIOUS
  <2>2. save_override(p).rows = [n \in DOMAIN rows \union {new} |-> IF n = new THEN row ELSE rows[n]]
    BY DEF save_override, row
  <2> HIDE DEF new
  <2> QED BY <1>1, <2>1, <2>2 DEF RowsAreSound, RowsInv
<1>3. ASSUME NEW id PROVE RowsAreSound(update_override(id, p).rows)
  <2> DEFINE taken == \E n \in DOMAIN rows \ {id} : PairOf(override_to_ir(rows[n])) = PairOf(p)
  <2>1. \/ update_override(id, p).rows = rows
        \/ id \in DOMAIN rows /\ update_override(id, p).rows = [rows EXCEPT ![id] = row]
    <3>1. CASE id \notin DOMAIN rows
      BY <3>1 DEF update_override, Refused
    <3>2. CASE id \in DOMAIN rows /\ taken
      BY <3>2 DEF update_override, Refused
    <3>3. CASE id \in DOMAIN rows /\ ~taken
      BY <3>3 DEF update_override, row
    <3> QED BY <3>1, <3>2, <3>3
  <2> QED BY <1>1, <2>1 DEF RowsAreSound, RowsInv
<1> QED BY <1>2, <1>3

LEMMA DeletedRows == ASSUME RowsInv, NEW id PROVE RowsAreSound(delete_override(id).rows)
  BY DEF delete_override, Refused, RowsAreSound, RowsInv

LEMMA PayloadColumns ==
  ASSUME NEW d, IsSequence(d.pairs)
  PROVE  IsSequence(draftPayload(d).source.columns) /\ IsSequence(draftPayload(d).target.columns)
<1>1. CASE d.suppress
  <2>1. IsSequence(<<>>)
    BY DEF IsSequence
  <2> QED BY <1>1, <2>1 DEF draftPayload
<1>2. CASE ~d.suppress
  <2> DEFINE left == [i \in DOMAIN d.pairs |-> d.pairs[i].a]
             right == [i \in DOMAIN d.pairs |-> d.pairs[i].b]
  <2>1. IsSequence(left) /\ IsSequence(right)
    BY Mapped
  <2> HIDE DEF left, right
  <2>2. LET a == [entity |-> d.entityA, columns |-> left]
            b == [entity |-> d.entityB, columns |-> right]
        IN draftPayload(d) =
             [source |-> IF d.aReferencesB THEN a ELSE b, target |-> IF d.aReferencesB THEN b ELSE a,
              action |-> "join", cardinality |-> d.cardinality]
    BY <1>2, Payload DEF left, right
  <2> QED BY <2>1, <2>2
<1> QED BY <1>1, <1>2

LEMMA RepliedRows == ASSUME RowsInv, NEW call, CallIsSound(call) PROVE RowsAreSound(Reply(call).rows)
<1> DEFINE p == draftPayload(call.draft)
<1>1. CASE call.kind = "delete"
  <2>1. Reply(call) = delete_override(call.id)
    BY <1>1 DEF Reply
  <2> QED BY <2>1, DeletedRows
<1>2. CASE call.kind = "save"
  <2>1. IsSequence(p.source.columns) /\ IsSequence(p.target.columns)
    BY <1>2, PayloadColumns DEF CallIsSound
  <2> HIDE DEF p
  <2>2. RowsAreSound(save_override(p).rows) /\ RowsAreSound(update_override(call.id, p).rows)
        /\ RowsAreSound(Refused("422").rows)
    BY <2>1, SavedRows DEF Refused, RowsAreSound, RowsInv
  <2>3. Reply(call) \in {Refused("422"), save_override(p), update_override(call.id, p)}
    BY <1>2 DEF Reply, p
  <2> QED BY <2>2, <2>3
<1> QED BY <1>1, <1>2 DEF CallIsSound

-----------------------------------------------------------------------------
(* The steps. *)
LEMMA ListIsRead == ASSUME RowsInv PROVE ListIsSound(list_overrides)
  BY DEF ListIsSound, list_overrides, RowsInv, RowIsSound, override_to_ir

LEMMA InitHolds == ASSUME Init PROVE IInv
<1>1. RowsInv
  <2>1. PICK last \in {0} \union DOMAIN rows : DOMAIN rows \subseteq 1..last
    BY StoredAreRows DEF Init
  <2>2. last \in Nat
    BY <2>1
  <2>3. \E x \in {0} \union DOMAIN rows : \A y \in {0} \union DOMAIN rows : x >= y
    BY <2>1, <2>2
  <2>4. serial \in {0} \union DOMAIN rows /\ \A y \in {0} \union DOMAIN rows : serial >= y
    BY <2>3 DEF Init, Max
  <2>5. \A id \in DOMAIN rows : RowIsSound(rows[id])
    BY StoredAreRows DEF Init, RowIsSound, IsSequence
  <2> QED BY <2>1, <2>2, <2>4, <2>5 DEF RowsInv
<1>2. ListInv /\ DraftInv
  BY <1>1, ListIsRead DEF Init, ListInv, DraftInv
<1>3. CallsOf(calls, {})
  BY DEF Init, CallsOf
<1> QED BY <1>1, <1>2, <1>3 DEF IInv, CallsInv

(* A control hands on a draft of the same shape. *)
LEMMA FieldChanged ==
  ASSUME DraftInv, draft # Nil, NEW d,
         \/ \E table : d = [draft EXCEPT !.entityA = table, !.pairs = [i \in DOMAIN @ |-> [@[i] EXCEPT !.a = ""]]]
         \/ \E table : d = [draft EXCEPT !.entityB = table, !.pairs = [i \in DOMAIN @ |-> [@[i] EXCEPT !.b = ""]]]
         \/ d = [draft EXCEPT !.suppress = ~@] \/ d = [draft EXCEPT !.aReferencesB = ~@]
         \/ \E i \in DOMAIN draft.pairs : \E c : d = [draft EXCEPT !.pairs[i].a = c] \/ d = [draft EXCEPT !.pairs[i].b = c]
         \/ d = [draft EXCEPT !.pairs = Append(@, emptyPair)]
         \/ \E i \in DOMAIN draft.pairs : d = [draft EXCEPT !.pairs = RemoveAt(@, i)]
  PROVE  DOMAIN d = DraftFields /\ IsSequence(d.pairs)
<1> USE DEF DraftInv, DraftFields
<1>1. ASSUME NEW table, d = [draft EXCEPT !.entityA = table, !.pairs = [i \in DOMAIN @ |-> [@[i] EXCEPT !.a = ""]]]
      PROVE  DOMAIN d = DraftFields /\ IsSequence(d.pairs)
  BY <1>1, Mapped
<1>2. ASSUME NEW table, d = [draft EXCEPT !.entityB = table, !.pairs = [i \in DOMAIN @ |-> [@[i] EXCEPT !.b = ""]]]
      PROVE  DOMAIN d = DraftFields /\ IsSequence(d.pairs)
  BY <1>2, Mapped
<1>3. CASE d = [draft EXCEPT !.suppress = ~@] \/ d = [draft EXCEPT !.aReferencesB = ~@]
  BY <1>3
<1>4. ASSUME NEW i \in DOMAIN draft.pairs, NEW c,
             d = [draft EXCEPT !.pairs[i].a = c] \/ d = [draft EXCEPT !.pairs[i].b = c]
      PROVE  DOMAIN d = DraftFields /\ IsSequence(d.pairs)
  <2>1. DOMAIN d = DraftFields /\ DOMAIN d.pairs = DOMAIN draft.pairs
        /\ d.pairs = [j \in DOMAIN draft.pairs |-> d.pairs[j]]
    <3>1. CASE d = [draft EXCEPT !.pairs[i].a = c]
      BY <3>1
    <3>2. CASE d = [draft EXCEPT !.pairs[i].b = c]
      BY <3>2
    <3> QED BY <1>4, <3>1, <3>2
  <2> QED BY <2>1, Mapped
<1>5. CASE d = [draft EXCEPT !.pairs = Append(@, emptyPair)]
  BY <1>5, Longer
<1>6. ASSUME NEW i \in DOMAIN draft.pairs, d = [draft EXCEPT !.pairs = RemoveAt(@, i)]
      PROVE  DOMAIN d = DraftFields /\ IsSequence(d.pairs)
  BY <1>6, Shorter
<1> QED BY <1>1, <1>2, <1>3, <1>4, <1>5, <1>6

LEMMA DraftOpened ==
  ASSUME ListIsSound(list)
  PROVE  /\ DOMAIN newDraft = DraftFields /\ IsSequence(newDraft.pairs)
         /\ \A id \in DOMAIN list : LET d == draftFrom(id, list[id].says)
                                    IN DOMAIN d = DraftFields /\ IsSequence(d.pairs)
<1>1. IsSequence(<<emptyPair>>)
  <2>1. <<emptyPair>> \in Seq({emptyPair})
    OBVIOUS
  <2> QED BY <2>1 DEF IsSequence
<1>2. DOMAIN newDraft = DraftFields /\ IsSequence(newDraft.pairs)
  BY <1>1 DEF newDraft, DraftFields
<1>3. ASSUME NEW id \in DOMAIN list
      PROVE  LET d == draftFrom(id, list[id].says) IN DOMAIN d = DraftFields /\ IsSequence(d.pairs)
  <2> DEFINE p == list[id].says
             picked == [i \in DOMAIN p.source.columns |-> [a |-> p.source.columns[i], b |-> p.target.columns[i]]]
  <2>1. IsSequence(picked)
    BY Mapped DEF ListIsSound
  <2> HIDE DEF picked
  <2>2. draftFrom(id, p).pairs = IF p.source.columns = <<>> THEN <<emptyPair>> ELSE picked
    BY DEF draftFrom, picked
  <2> QED BY <1>1, <2>1, <2>2 DEF draftFrom, DraftFields
<1> QED BY <1>2, <1>3

LEMMA FormStep ==
  ASSUME IInv,
         \/ NewOverride \/ Cancel \/ (draft # Nil /\ Edits)
         \/ \E id \in DOMAIN list : EditRow(id)
  PROVE  IInv'
<1>1. UNCHANGED <<rows, serial, list, fetch, calls>>
  BY DEF NewOverride, openDraft, Cancel, Edits, chooseA, chooseB, ToggleSuppress, SetDirection,
         AddPair, ReplacePair, RemovePair, Change, EditRow, writes
<1>2. RowsInv' /\ ListInv' /\ CallsInv'
  BY <1>1 DEF IInv, RowsInv, ListInv, CallsInv
<1>3. DraftInv'
  <2>1. CASE NewOverride \/ Cancel \/ \E id \in DOMAIN list : EditRow(id)
    BY <2>1, DraftOpened DEF NewOverride, Cancel, EditRow, openDraft, DraftInv, IInv, ListInv
  <2>2. CASE draft # Nil /\ Edits
    <3> DEFINE d == draft'
    <3>1. \/ \E table : d = [draft EXCEPT !.entityA = table, !.pairs = [i \in DOMAIN @ |-> [@[i] EXCEPT !.a = ""]]]
          \/ \E table : d = [draft EXCEPT !.entityB = table, !.pairs = [i \in DOMAIN @ |-> [@[i] EXCEPT !.b = ""]]]
          \/ d = [draft EXCEPT !.suppress = ~@] \/ d = [draft EXCEPT !.aReferencesB = ~@]
          \/ \E i \in DOMAIN draft.pairs : \E c : d = [draft EXCEPT !.pairs[i].a = c] \/ d = [draft EXCEPT !.pairs[i].b = c]
          \/ d = [draft EXCEPT !.pairs = Append(@, emptyPair)]
          \/ \E i \in DOMAIN draft.pairs : d = [draft EXCEPT !.pairs = RemoveAt(@, i)]
      BY <2>2 DEF Edits, chooseA, chooseB, ToggleSuppress, SetDirection, AddPair, ReplacePair, RemovePair, Change
    <3>2. DOMAIN d = DraftFields /\ IsSequence(d.pairs)
      <4> HIDE DEF d
      <4> QED BY <2>2, <3>1, FieldChanged DEF IInv
    <3> QED BY <3>2 DEF DraftInv
  <2> QED BY <2>1, <2>2
<1> QED BY <1>2, <1>3 DEF IInv

(* A save that is accepted stores the row of its draft. *)
LEMMA SaveStores ==
  ASSUME NEW call, call.kind = "save", Reply(call).status = "ok"
  PROVE  Reply(call).rows[Reply(call).id] = canonical_pair(draftPayload(call.draft))
<1> DEFINE p == draftPayload(call.draft)
<1>1. Refused("404").status # "ok" /\ Refused("409").status # "ok" /\ Refused("422").status # "ok"
  BY DEF Refused
<1>2. CASE Reply(call) = save_override(p)
  BY <1>2 DEF save_override
<1>3. CASE Reply(call) = update_override(call.id, p)
  BY <1>1, <1>3 DEF update_override
<1>4. Reply(call) \in {Refused("422"), save_override(p), update_override(call.id, p)}
  BY DEF Reply
<1> QED BY <1>1, <1>2, <1>3, <1>4

(* What a step does to the calls: an answered one was served, or lost. *)
LEMMA CallsStep ==
  ASSUME IInv, [Next]_vars
  PROVE  /\ CallsInv'
         /\ \A i \in DOMAIN calls : Answered(i) =>
              \/ Lose(i) /\ calls'[i].answer.status = "lost"
              \/ Serve(i) /\ calls'[i].answer = [status |-> Reply(calls[i]).status, id |-> Reply(calls[i]).id]
<1> DEFINE Good == /\ CallsInv'
                   /\ \A i \in DOMAIN calls : Answered(i) =>
                        \/ Lose(i) /\ calls'[i].answer.status = "lost"
                        \/ /\ Serve(i)
                           /\ calls'[i].answer = [status |-> Reply(calls[i]).status, id |-> Reply(calls[i]).id]
<1>1. CASE UNCHANGED calls
  BY <1>1 DEF Answered, IInv, CallsInv
<1>2. CASE Save
  BY <1>2, SaveSends DEF Answered
<1>3. ASSUME NEW id, DeleteRow(id) PROVE Good
  BY <1>3, DeleteSends DEF Answered
<1>4. ASSUME NEW j \in DOMAIN calls, TakeSave(j) \/ TakeDelete(j) PROVE Good
  BY <1>4, CallTaken DEF TakeSave, TakeDelete, Answered, IInv
<1>5. ASSUME NEW j \in DOMAIN calls, Lose(j) PROVE Good
  <2>1. /\ CallsInv' /\ calls'[j].answer = [status |-> "lost", id |-> Nil]
        /\ \A i \in DOMAIN calls : i # j => calls'[i] = calls[i]
    BY <1>5, LoseAnswers DEF IInv
  <2> QED BY <1>5, <2>1 DEF Answered
<1>6. ASSUME NEW j \in DOMAIN calls, Serve(j) PROVE Good
  <2>1. /\ CallsInv'
        /\ calls'[j].answer = [status |-> Reply(calls[j]).status, id |-> Reply(calls[j]).id]
        /\ \A i \in DOMAIN calls : i # j => calls'[i] = calls[i]
    BY <1>6, ServeAnswers DEF IInv
  <2> QED BY <1>6, <2>1 DEF Answered
<1>7. Next => \/ UNCHANGED calls \/ Save
              \/ \E id : DeleteRow(id)
              \/ \E j \in DOMAIN calls : TakeSave(j) \/ TakeDelete(j) \/ Serve(j) \/ Lose(j)
  BY DEF Next, Edits, NewOverride, openDraft, Cancel, chooseA, chooseB, ToggleSuppress, SetDirection,
         AddPair, ReplacePair, RemovePair, Change, EditRow, Arm, Disarm, ServeList, TakeList, ListFails,
         TakeGraph, Rebuild, OtherWrites, writes
<1> QED BY <1>1, <1>2, <1>3, <1>4, <1>5, <1>6, <1>7 DEF vars, writes

(* A step that writes rows, or reads the list. *)
LEMMA RowsStep == ASSUME IInv, [Next]_vars PROVE RowsInv'
<1>1. CASE UNCHANGED <<rows, serial>>
  BY <1>1 DEF IInv, RowsInv
<1>2. ASSUME NEW i \in DOMAIN calls, Serve(i) PROVE RowsInv'
  BY <1>2, CallsAreSound, RepliedRows, RowsStored DEF Serve, IInv
<1>3. ASSUME NEW id, OtherWrites(delete_override(id).rows) PROVE RowsInv'
  BY <1>3, DeletedRows, RowsStored DEF OtherWrites, IInv
<1>4. ASSUME NEW other \in Stored, NEW id \in DOMAIN other,
             OtherWrites(save_override(override_to_ir(other[id])).rows)
      PROVE  RowsInv'
  <2> DEFINE p == override_to_ir(other[id])
  <2>1. RowIsSound(other[id])
    BY StoredAreRows DEF RowIsSound, IsSequence
  <2>2. IsSequence(p.source.columns) /\ IsSequence(p.target.columns)
    BY <2>1 DEF override_to_ir, RowIsSound
  <2> HIDE DEF p
  <2>3. RowsAreSound(save_override(p).rows)
    BY <2>2, SavedRows DEF IInv
  <2> QED BY <1>4, <2>3, RowsStored DEF OtherWrites, IInv, p
<1>5. Next => \/ UNCHANGED <<rows, serial>>
              \/ \E i \in DOMAIN calls : Serve(i)
              \/ \E id : OtherWrites(delete_override(id).rows)
              \/ \E other \in Stored : \E id \in DOMAIN other :
                   OtherWrites(save_override(override_to_ir(other[id])).rows)
  BY DEF Next, Edits, NewOverride, openDraft, Cancel, chooseA, chooseB, ToggleSuppress, SetDirection,
         AddPair, ReplacePair, RemovePair, Change, EditRow, Arm, Disarm, ServeList, TakeList, ListFails,
         TakeGraph, Rebuild, writes, Save, DeleteRow, Lose, TakeSave, TakeDelete
<1> QED BY <1>1, <1>2, <1>3, <1>4, <1>5 DEF vars, writes

LEMMA ListStep == ASSUME IInv, [Next]_vars PROVE ListInv'
<1>1. CASE UNCHANGED <<list, fetch>>
  BY <1>1 DEF IInv, ListInv
<1>2. CASE ServeList
  BY <1>2, ListIsRead DEF ServeList, IInv, ListInv
<1>3. CASE TakeList \/ ListFails
  BY <1>3 DEF TakeList, ListFails, IInv, ListInv
<1>4. ASSUME list' = list, fetch' = fetch \/ afterWrite PROVE ListInv'
  BY <1>4 DEF afterWrite, IInv, ListInv
<1>5. Next => \/ UNCHANGED <<list, fetch>> \/ ServeList \/ TakeList \/ ListFails
              \/ list' = list /\ (fetch' = fetch \/ afterWrite)
  BY DEF Next, Edits, NewOverride, openDraft, Cancel, chooseA, chooseB, ToggleSuppress, SetDirection,
         AddPair, ReplacePair, RemovePair, Change, EditRow, Arm, Disarm, TakeGraph, Rebuild, Save,
         DeleteRow, Serve, Lose, TakeSave, TakeDelete, OtherWrites
<1> QED BY <1>1, <1>2, <1>3, <1>4, <1>5 DEF vars

LEMMA DraftStep == ASSUME IInv, [Next]_vars PROVE DraftInv'
<1>1. CASE draft' = draft \/ draft' = Nil
  BY <1>1 DEF IInv, DraftInv
<1>2. CASE NewOverride \/ (draft # Nil /\ Edits) \/ \E id \in DOMAIN list : EditRow(id)
  <2>1. IInv'
    BY <1>2, FormStep
  <2> QED BY <2>1 DEF IInv
<1>3. Next => \/ draft' = draft \/ draft' = Nil
              \/ NewOverride \/ (draft # Nil /\ Edits) \/ \E id \in DOMAIN list : EditRow(id)
  BY DEF Next, Cancel, Arm, Disarm, TakeGraph, Rebuild, Save, DeleteRow, Serve, Lose, TakeSave, TakeDelete,
         OtherWrites, ServeList, TakeList, ListFails, form
<1> QED BY <1>1, <1>2, <1>3 DEF vars, form

LEMMA Invariant == Spec => []IInv
<1>1. IInv /\ [Next]_vars => IInv'
  BY CallsStep, RowsStep, ListStep, DraftStep DEF IInv
<1> QED BY <1>1, InitHolds, PTL DEF Spec

-----------------------------------------------------------------------------
(* The step of SavedAsStated. *)
LEMMA StatedStep ==
  ASSUME IInv, [Next]_vars, NEW i \in DOMAIN calls,
         Answered(i), calls[i].kind = "save", calls'[i].answer.status = "ok"
  PROVE  LET row == rows'[calls'[i].answer.id]
         IN RowSays(row) = FormSays(calls[i].draft) /\ row.cardinality = calls[i].draft.cardinality
<1>1. Serve(i) /\ calls'[i].answer = [status |-> Reply(calls[i]).status, id |-> Reply(calls[i]).id]
  BY CallsStep
<1>2. rows' = Reply(calls[i]).rows
  BY <1>1 DEF Serve, Store
<1>3. rows'[calls'[i].answer.id] = canonical_pair(draftPayload(calls[i].draft))
  BY <1>1, <1>2, SaveStores
<1> QED BY <1>3, StoredAsSaid

(* A save that was accepted has stored what the form said, for every        *)
(* catalog, whichever way the pair is stored and however calls overlap.    *)
THEOREM StoredAsStated == Spec => SavedAsStated
<1>1. IInv /\ [Next]_vars =>
        [\A i \in DOMAIN calls :
           (Answered(i) /\ calls[i].kind = "save" /\ calls'[i].answer.status = "ok") =>
             LET row == rows'[calls'[i].answer.id]
             IN /\ RowSays(row) = FormSays(calls[i].draft)
                /\ row.cardinality = calls[i].draft.cardinality]_vars
  BY StatedStep
<1> QED BY <1>1, Invariant, PTL DEF Spec, SavedAsStated

(* The 422s of the server are out of the form's reach, for every catalog    *)
(* and spelling of its names: no save is answered with one.                *)
THEOREM NeverRefused == Spec => []FormIsNeverRefused
<1>1. IInv => FormIsNeverRefused
  BY CallsAreSound DEF IInv, FormIsNeverRefused, CallIsSound
<1> QED BY <1>1, Invariant, PTL

(* The step of ShownRowsAreKept. *)
LEMMA KeptStep ==
  ASSUME IInv, [Next]_vars, NEW i \in DOMAIN calls, Answered(i), calls[i].kind = "save",
         NEW id \in (DOMAIN rows \intersect DOMAIN calls[i].shown) \ {calls[i].id},
         PairOf(calls[i].shown[id].says) = PairOf(override_to_ir(rows[id]))
  PROVE  id \in DOMAIN rows' /\ rows'[id] = rows[id]
<1> DEFINE d == calls[i].draft
           p == draftPayload(d)
           now == Reply(calls[i]).rows
<1>1. CASE Lose(i)
  BY <1>1 DEF Lose
<1>2. CASE Serve(i)
  <2>1. rows' = now
    BY <1>2 DEF Serve, Store
  <2>2. calls[i].id = d.id /\ ~draftProblem(d, calls[i].shown)
    BY CallsAreSound DEF IInv, CallIsSound
  <2>3. PairOf(override_to_ir(rows[id])) # {d.entityA, d.entityB}
    BY <2>2 DEF draftProblem, coversSamePair
  <2>4. PairOf(p) = {d.entityA, d.entityB}
    BY DEF PairOf, draftPayload
  <2> HIDE DEF p
  <2>5. id # serial + 1
    BY DEF IInv, RowsInv
  <2>6. CASE now = rows
    BY <2>1, <2>6
  <2>7. CASE now = save_override(p).rows
    <3> DEFINE taken == {n \in DOMAIN rows : PairOf(override_to_ir(rows[n])) = PairOf(p)}
               new == IF taken = {} THEN serial + 1 ELSE CHOOSE t \in taken : TRUE
    <3>1. new # id
      BY <2>3, <2>4, <2>5
    <3>2. now = [n \in DOMAIN rows \union {new} |-> IF n = new THEN canonical_pair(p) ELSE rows[n]]
      BY <2>7 DEF save_override
    <3> HIDE DEF new, now
    <3> QED BY <2>1, <3>1, <3>2
  <2>8. CASE now = [rows EXCEPT ![calls[i].id] = canonical_pair(p)]
    BY <2>1, <2>8
  <2>9. \/ now = rows \/ now = save_override(p).rows
        \/ now = [rows EXCEPT ![calls[i].id] = canonical_pair(p)]
    BY DEF Reply, update_override, Refused, p
  <2> QED BY <2>6, <2>7, <2>8, <2>9
<1> QED BY <1>1, <1>2, CallsStep

(* A save leaves the rows alone that the list showed for its pair, for any   *)
(* number of admins and calls: update_or_create takes over no row but one   *)
(* that was written since.                                                 *)
THEOREM ShownAreKept == Spec => ShownRowsAreKept
<1>1. IInv /\ [Next]_vars =>
        [\A i \in DOMAIN calls :
           (Answered(i) /\ calls[i].kind = "save") =>
             \A id \in (DOMAIN rows \intersect DOMAIN calls[i].shown) \ {calls[i].id} :
               PairOf(calls[i].shown[id].says) = PairOf(override_to_ir(rows[id]))
                 => id \in DOMAIN rows' /\ rows'[id] = rows[id]]_vars
  BY KeptStep
<1> QED BY <1>1, Invariant, PTL DEF Spec, ShownRowsAreKept
=============================================================================
