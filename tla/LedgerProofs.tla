---------------------------- MODULE LedgerProofs ----------------------------
(***************************************************************************)
(* The accounts of the checkout when requests do not overlap, for any      *)
(* number of ticket types, orders, keys and faults and any limits of event *)
(* and plan: stock, orders and types agree, what is dead stays dead, and   *)
(* the checkout implements the ticket ledger.                              *)
(*                                                                         *)
(* quantity_sold is compared with a sum over the live orders, so the first *)
(* part proves what SumFunctionOnSet does.  The second states what a       *)
(* request holds: with no other in between, its copies are still the rows  *)
(* of the tables, or those rows with the change it is about to save.       *)
(***************************************************************************)
EXTENDS SerialCheckout, CheckoutProofs, FiniteSetTheorems, WellFoundedInduction

(***************************************************************************)
(* Sums over finite sets                                                   *)
(***************************************************************************)
\* A set of finite sets has one that includes no other.
LEMMA SmallestSet ==
    ASSUME NEW S, IsFiniteSet(S), NEW B \in SUBSET (SUBSET S), B # {}
    PROVE  \E T \in B : \A R \in B : R \subseteq T => R = T
<1>1. IsWellFoundedOn(StrictSubsetOrdering(S), SUBSET S)
  BY FS_StrictSubsetOrderingWellFounded, FS_FiniteSubsetsOfFinite
<1>2. PICK T \in B : \A R \in B : ~ (<<R, T>> \in StrictSubsetOrdering(S))
  BY <1>1, WFMin
<1>3. ASSUME NEW R \in B, R \subseteq T, R # T
      PROVE  FALSE
  <2>1. R \in SUBSET S /\ T \in SUBSET S
    OBVIOUS
  <2>2. <<R, T>> \in StrictSubsetOrdering(S)
    BY <1>3, <2>1 DEF StrictSubsetOrdering
  <2>3. QED
    BY <1>2, <2>2, <1>3
<1>4. QED
  BY <1>3

\* The element a fold takes next.
Chosen(s) == CHOOSE x \in s : TRUE

\* g holds the sum of f over every subset of S, as the fold computes it.
Sums(f, S, g) == g = [s \in SUBSET S |-> IF s = {} THEN 0 ELSE f[Chosen(s)] + g[s \ {Chosen(s)}]]

\* The element taken is one of the set.
LEMMA PickIn == ASSUME NEW s, s # {} PROVE Chosen(s) \in s
  BY DEF Chosen

\* SumFunctionOnSet is that table, looked up at the whole set.
LEMMA SumIsChosen ==
    ASSUME NEW f, NEW S
    PROVE  SumFunctionOnSet(f, S) = (CHOOSE g : Sums(f, S, g))[S]
BY DEF SumFunctionOnSet, FoldFunctionOnSet, MapThenFoldSet, Sums, Chosen

\* What such a table has at one subset.
SumsAt(f, g, s) == g[s] = IF s = {} THEN 0 ELSE f[Chosen(s)] + g[s \ {Chosen(s)}]

\* Two tables agree on the subsets of T.
SameOn(g, h, T) == \A s \in SUBSET T : g[s] = h[s]

\* A table of sums at one subset.
LEMMA SumsHold ==
    ASSUME NEW f, NEW S, NEW g, Sums(f, S, g), NEW s \in SUBSET S
    PROVE  SumsAt(f, g, s)
<1> DEFINE F(h) == [r \in SUBSET S |-> IF r = {} THEN 0 ELSE f[Chosen(r)] + h[r \ {Chosen(r)}]]
<1>1. g = F(g)
  BY DEF Sums
<1>2. F(g)[s] = IF s = {} THEN 0 ELSE f[Chosen(s)] + g[s \ {Chosen(s)}]
  OBVIOUS
<1>3. QED
  BY <1>1, <1>2 DEF SumsAt

\* Two partial sums of one function agree wherever both are defined.
LEMMA SumsAgree ==
    ASSUME NEW f, NEW S, IsFiniteSet(S), NEW T \in SUBSET S,
           NEW g, Sums(f, S, g), NEW h, Sums(f, T, h)
    PROVE  SameOn(g, h, T)
<1> DEFINE B == {s \in SUBSET T : g[s] # h[s]}
<1>1. SUFFICES ASSUME B # {} PROVE FALSE
  BY DEF SameOn
<1>2. IsFiniteSet(T)
  BY FS_Subset
<1>3. PICK s \in B : \A r \in B : r \subseteq s => r = s
  <2>1. B \in SUBSET (SUBSET T)
    OBVIOUS
  <2> HIDE DEF B
  <2>2. QED
    BY <1>1, <1>2, <2>1, SmallestSet
<1>4. s \in SUBSET T /\ s \in SUBSET S
  OBVIOUS
<1>5. SumsAt(f, g, s) /\ SumsAt(f, h, s)
  <2>1. SumsAt(f, g, s)
    BY <1>4, SumsHold
  <2>2. SumsAt(f, h, s)
    BY <1>4, SumsHold
  <2>3. QED
    BY <2>1, <2>2
<1>6. s # {}
  BY <1>5 DEF SumsAt
<1>7. g[s \ {Chosen(s)}] = h[s \ {Chosen(s)}]
  <2>1. Chosen(s) \in s
    BY <1>6, PickIn
  <2>2. QED
    BY <1>3, <1>4, <2>1
<1>8. g[s] = h[s]
  BY <1>5, <1>6, <1>7 DEF SumsAt
<1>9. QED
  BY <1>8, <1>3

\* What SumFunctionOnSet does to a set, given that its smaller sets have sums.
LEMMA SumStepIf ==
    ASSUME NEW f, NEW S, IsFiniteSet(S), NEW g, Sums(f, S, g)
    PROVE  SumFunctionOnSet(f, S) = g[S]
<1> DEFINE h == CHOOSE x : Sums(f, S, x)
<1>1. Sums(f, S, h)
  OBVIOUS
<1>2. g[S] = h[S]
  <2> HIDE DEF h
  <2>1. S \in SUBSET S
    OBVIOUS
  <2>2. SameOn(g, h, S)
    BY <1>1, <2>1, SumsAgree
  <2>3. QED
    BY <2>1, <2>2 DEF SameOn
<1>3. QED
  BY <1>2, SumIsChosen

\* Every finite set has its sum.
LEMMA SumsExist ==
    ASSUME NEW f, NEW S, IsFiniteSet(S)
    PROVE  \E g : Sums(f, S, g)
<1> DEFINE B == {T \in SUBSET S : ~ \E g : Sums(f, T, g)}
<1>1. SUFFICES ASSUME B # {} PROVE FALSE
  OBVIOUS
<1>2. PICK T \in B : \A R \in B : R \subseteq T => R = T
  <2>1. B \in SUBSET (SUBSET S)
    OBVIOUS
  <2> HIDE DEF B
  <2>2. QED
    BY <1>1, <2>1, SmallestSet
<1>3. T \in SUBSET S /\ ~ \E g : Sums(f, T, g)
  OBVIOUS
<1> DEFINE V(s) == SumFunctionOnSet(f, s)
<1>4. ASSUME NEW s \in SUBSET T, s # T
      PROVE  V(s) = IF s = {} THEN 0 ELSE f[Chosen(s)] + V(s \ {Chosen(s)})
  <2>1. IsFiniteSet(s) /\ IsFiniteSet(s \ {Chosen(s)})
    BY <1>3, FS_Subset
  <2>2. PICK g : Sums(f, s, g)
    BY <1>2, <1>4
  <2>3. V(s) = g[s]
    BY <2>1, <2>2, SumStepIf
  <2>4. g[s] = IF s = {} THEN 0 ELSE f[Chosen(s)] + g[s \ {Chosen(s)}]
    <3>1. s \in SUBSET s
      OBVIOUS
    <3>2. SumsAt(f, g, s)
      BY <2>2, <3>1, SumsHold
    <3>3. QED
      BY <3>2 DEF SumsAt
  <2>5. CASE s = {}
    BY <2>3, <2>4, <2>5
  <2>6. CASE s # {}
    <3>1. Chosen(s) \in s
      BY <2>6, PickIn
    <3>2. PICK h : Sums(f, s \ {Chosen(s)}, h)
      BY <1>2, <1>4, <3>1
    <3>3. V(s \ {Chosen(s)}) = h[s \ {Chosen(s)}]
      BY <2>1, <3>2, SumStepIf
    <3>4. g[s \ {Chosen(s)}] = h[s \ {Chosen(s)}]
      <4>1. s \ {Chosen(s)} \in SUBSET s
        OBVIOUS
      <4>2. SameOn(g, h, s \ {Chosen(s)})
        BY <2>1, <2>2, <3>2, <4>1, SumsAgree
      <4>3. QED
        BY <4>2 DEF SameOn
    <3>5. QED
      BY <2>3, <2>4, <2>6, <3>3, <3>4
  <2>7. QED
    BY <2>5, <2>6
<1> DEFINE W == IF T = {} THEN 0 ELSE f[Chosen(T)] + V(T \ {Chosen(T)})
           G == [s \in SUBSET T |-> IF s = T THEN W ELSE V(s)]
<1>5. Sums(f, T, G)
  <2>1. ASSUME NEW s \in SUBSET T
        PROVE  G[s] = IF s = {} THEN 0 ELSE f[Chosen(s)] + G[s \ {Chosen(s)}]
    <3>1. CASE s = T
      <4>1. s # {} => T \ {Chosen(T)} # T
        BY <3>1, PickIn
      <4>2. s # {} => G[T \ {Chosen(T)}] = V(T \ {Chosen(T)})
        BY <4>1
      <4>3. G[T] = W
        OBVIOUS
      <4> HIDE DEF G, V
      <4>4. QED
        BY <3>1, <4>2, <4>3
    <3>2. CASE s # T
      <4>1. s \ {Chosen(s)} # T
        BY <3>2
      <4>2. G[s \ {Chosen(s)}] = V(s \ {Chosen(s)})
        BY <4>1
      <4>3. G[s] = V(s)
        BY <3>2
      <4> HIDE DEF G, V
      <4>4. QED
        BY <1>4, <3>2, <4>2, <4>3
    <3>3. QED
      BY <3>1, <3>2
  <2>2. G = [s \in SUBSET T |-> G[s]]
    OBVIOUS
  <2> HIDE DEF G
  <2>3. QED
    BY <2>1, <2>2 DEF Sums
<1>6. QED
  BY <1>3, <1>5

\* The empty sum is zero.
LEMMA SumEmpty == \A f : SumFunctionOnSet(f, {}) = 0
<1>1. TAKE f
<1>2. IsFiniteSet({})
  BY FS_EmptySet
<1>3. PICK g : Sums(f, {}, g)
  BY <1>2, SumsExist
<1>4. g[{}] = 0
  <2>1. {} \in SUBSET {}
    OBVIOUS
  <2>2. SumsAt(f, g, {})
    BY <1>3, <2>1, SumsHold
  <2>3. QED
    BY <2>2 DEF SumsAt
<1>5. QED
  BY <1>2, <1>3, <1>4, SumStepIf

\* A sum is the term taken first and the sum of the others.
LEMMA SumStep ==
    ASSUME NEW f, NEW S, IsFiniteSet(S), S # {}
    PROVE  SumFunctionOnSet(f, S) = f[Chosen(S)] + SumFunctionOnSet(f, S \ {Chosen(S)})
<1>1. PICK g : Sums(f, S, g)
  BY SumsExist
<1>2. IsFiniteSet(S \ {Chosen(S)})
  BY FS_RemoveElement
<1>3. PICK h : Sums(f, S \ {Chosen(S)}, h)
  BY <1>2, SumsExist
<1>4. g[S \ {Chosen(S)}] = h[S \ {Chosen(S)}]
  <2> DEFINE R == S \ {Chosen(S)}
  <2>1. R \in SUBSET S /\ Sums(f, R, h)
    BY <1>3
  <2> HIDE DEF R
  <2>2. SameOn(g, h, R)
    BY <1>1, <2>1, SumsAgree
  <2>3. g[R] = h[R]
    BY <2>2 DEF SameOn
  <2>4. QED
    BY <2>3 DEF R
<1>5. g[S] = f[Chosen(S)] + g[S \ {Chosen(S)}]
  <2>1. S \in SUBSET S
    OBVIOUS
  <2>2. g[S] = IF S = {} THEN 0 ELSE f[Chosen(S)] + g[S \ {Chosen(S)}]
    <3>1. SumsAt(f, g, S)
      BY <1>1, <2>1, SumsHold
    <3>2. QED
      BY <3>1 DEF SumsAt
  <2>3. QED
    BY <2>2
<1>6. QED
  BY <1>1, <1>2, <1>3, <1>4, <1>5, SumStepIf

\* A sum of naturals is a natural.
LEMMA SumNat ==
    ASSUME NEW f, NEW S, IsFiniteSet(S), \A x \in S : f[x] \in Nat
    PROVE  SumFunctionOnSet(f, S) \in Nat
<1> DEFINE B == {T \in SUBSET S : SumFunctionOnSet(f, T) \notin Nat}
<1>1. SUFFICES ASSUME B # {} PROVE FALSE
  OBVIOUS
<1>2. PICK T \in B : \A R \in B : R \subseteq T => R = T
  <2>1. B \in SUBSET (SUBSET S)
    OBVIOUS
  <2> HIDE DEF B
  <2>2. QED
    BY <1>1, <2>1, SmallestSet
<1>3. T \in SUBSET S /\ IsFiniteSet(T)
  BY FS_Subset
<1>4. T # {}
  BY SumEmpty
<1>5. Chosen(T) \in T
  BY <1>4, PickIn
<1>6. SumFunctionOnSet(f, T) = f[Chosen(T)] + SumFunctionOnSet(f, T \ {Chosen(T)})
  BY <1>3, <1>4, SumStep
<1>7. SumFunctionOnSet(f, T \ {Chosen(T)}) \in Nat
  BY <1>2, <1>3, <1>5
<1>8. SumFunctionOnSet(f, T) \in Nat
  BY <1>3, <1>5, <1>6, <1>7
<1>9. QED
  BY <1>8, <1>2

\* One term can be taken out of a sum, whichever it is.
LEMMA SumRemove ==
    ASSUME NEW f, NEW S, IsFiniteSet(S), \A x \in S : f[x] \in Nat, NEW x \in S
    PROVE  /\ SumFunctionOnSet(f, S) = f[x] + SumFunctionOnSet(f, S \ {x})
           /\ SumFunctionOnSet(f, S \ {x}) \in Nat
<1> DEFINE Sum(T) == SumFunctionOnSet(f, T)
           B == {T \in SUBSET S : \E y \in T : Sum(T) # f[y] + Sum(T \ {y})}
<1>1. ASSUME NEW T \in SUBSET S
      PROVE  Sum(T) \in Nat
  BY FS_Subset, SumNat
<1>2. SUFFICES ASSUME B # {} PROVE FALSE
  <2>1. S \in SUBSET S /\ S \ {x} \in SUBSET S
    OBVIOUS
  <2>2. QED
    BY <1>1, <2>1
<1>3. PICK T \in B : \A R \in B : R \subseteq T => R = T
  <2>1. B \in SUBSET (SUBSET S)
    OBVIOUS
  <2> HIDE DEF B
  <2>2. QED
    BY <1>2, <2>1, SmallestSet
<1>4. T \in SUBSET S /\ IsFiniteSet(T)
  BY FS_Subset
<1>5. PICK y \in T : Sum(T) # f[y] + Sum(T \ {y})
  OBVIOUS
<1> DEFINE c == Chosen(T)
<1>6. c \in T
  BY <1>5, PickIn
<1>7. Sum(T) = f[c] + Sum(T \ {c})
  BY <1>4, <1>5, SumStep
<1> HIDE DEF c
<1>8. y # c
  BY <1>5, <1>7
<1>9. Sum(T \ {c}) = f[y] + Sum(T \ {c, y})
  <2>1. T \ {c} \notin B
    BY <1>3, <1>6
  <2>2. T \ {c} \in SUBSET S /\ y \in T \ {c} /\ (T \ {c}) \ {y} = T \ {c, y}
    BY <1>4, <1>8
  <2>3. QED
    BY <2>1, <2>2
<1>10. Sum(T \ {y}) = f[c] + Sum(T \ {c, y})
  <2>1. T \ {y} \notin B
    BY <1>3
  <2>2. T \ {y} \in SUBSET S /\ c \in T \ {y} /\ (T \ {y}) \ {c} = T \ {c, y}
    BY <1>4, <1>6, <1>8
  <2>3. QED
    BY <2>1, <2>2
<1>11. f[c] \in Nat /\ f[y] \in Nat /\ Sum(T \ {c, y}) \in Nat
  <2>1. T \ {c, y} \in SUBSET S
    BY <1>4
  <2>2. QED
    BY <1>1, <1>4, <1>6, <2>1
<1> HIDE DEF Sum
<1>12. QED
  BY <1>5, <1>7, <1>9, <1>10, <1>11

\* A sum looks at its terms only.
LEMMA SumSame ==
    ASSUME NEW f, NEW h, NEW S, IsFiniteSet(S), \A x \in S : f[x] = h[x]
    PROVE  SumFunctionOnSet(f, S) = SumFunctionOnSet(h, S)
<1> DEFINE B == {T \in SUBSET S : SumFunctionOnSet(f, T) # SumFunctionOnSet(h, T)}
<1>1. SUFFICES ASSUME B # {} PROVE FALSE
  OBVIOUS
<1>2. PICK T \in B : \A R \in B : R \subseteq T => R = T
  <2>1. B \in SUBSET (SUBSET S)
    OBVIOUS
  <2> HIDE DEF B
  <2>2. QED
    BY <1>1, <2>1, SmallestSet
<1>3. T \in SUBSET S /\ IsFiniteSet(T)
  BY FS_Subset
<1>4. T # {}
  BY SumEmpty
<1>5. Chosen(T) \in T
  BY <1>4, PickIn
<1>6. SumFunctionOnSet(f, T \ {Chosen(T)}) = SumFunctionOnSet(h, T \ {Chosen(T)})
  BY <1>2, <1>3, <1>5
<1>7. SumFunctionOnSet(f, T) = SumFunctionOnSet(h, T)
  <2>1. SumFunctionOnSet(f, T) = f[Chosen(T)] + SumFunctionOnSet(f, T \ {Chosen(T)})
    BY <1>3, <1>4, SumStep
  <2>2. SumFunctionOnSet(h, T) = h[Chosen(T)] + SumFunctionOnSet(h, T \ {Chosen(T)})
    BY <1>3, <1>4, SumStep
  <2>3. QED
    BY <1>3, <1>5, <1>6, <2>1, <2>2
<1>8. QED
  BY <1>7, <1>2
\* A sum of naturals, and two such sums that differ in one place only.
Summable(f, A) == IsFiniteSet(A) /\ \A a \in A : f[a] \in Nat

\* Two sums have the same terms but for x.
AgreeBut(f, A, h, B, x) == A \ {x} = B \ {x} /\ \A a \in A \ {x} : f[a] = h[a]

\* Two sums differ by what x contributes.
SumsDiffer(f, A, h, B, x) ==
    \E r \in Nat :
        /\ r = SumFunctionOnSet(f, A \ {x})
        /\ SumFunctionOnSet(f, A) = r + (IF x \in A THEN f[x] ELSE 0)
        /\ SumFunctionOnSet(h, B) = r + (IF x \in B THEN h[x] ELSE 0)

\* Sums with the same terms but for x differ by what x contributes.
LEMMA SumMove ==
    ASSUME NEW f, NEW h, NEW A, NEW B, NEW x,
           Summable(f, A), Summable(h, B), AgreeBut(f, A, h, B, x)
    PROVE  SumsDiffer(f, A, h, B, x)
<1>0. /\ IsFiniteSet(A) /\ \A a \in A : f[a] \in Nat
      /\ IsFiniteSet(B) /\ \A b \in B : h[b] \in Nat
      /\ A \ {x} = B \ {x} /\ \A a \in A \ {x} : f[a] = h[a]
  BY DEF Summable, AgreeBut
<1>1. IsFiniteSet(A \ {x}) /\ \A a \in A \ {x} : f[a] \in Nat
  BY <1>0, FS_RemoveElement
<1>2. SumFunctionOnSet(f, A \ {x}) \in Nat
  BY <1>1, SumNat
<1>3. SumFunctionOnSet(f, A) = SumFunctionOnSet(f, A \ {x}) + (IF x \in A THEN f[x] ELSE 0)
  <2>1. CASE x \in A
    <3>1. SumFunctionOnSet(f, A) = f[x] + SumFunctionOnSet(f, A \ {x})
      BY <1>0, <2>1, SumRemove
    <3>2. f[x] \in Nat
      BY <1>0, <2>1
    <3>3. QED
      BY <1>2, <2>1, <3>1, <3>2
  <2>2. CASE x \notin A
    <3>1. A \ {x} = A
      BY <2>2
    <3>2. QED
      BY <1>2, <2>2, <3>1
  <2>3. QED
    BY <2>1, <2>2
<1>4. SumFunctionOnSet(f, A \ {x}) = SumFunctionOnSet(h, A \ {x})
  BY <1>0, <1>1, SumSame
<1>5. SumFunctionOnSet(h, B) = SumFunctionOnSet(h, B \ {x}) + (IF x \in B THEN h[x] ELSE 0)
  <2>1. CASE x \in B
    <3>1. SumFunctionOnSet(h, B) = h[x] + SumFunctionOnSet(h, B \ {x})
          /\ SumFunctionOnSet(h, B \ {x}) \in Nat
      BY <1>0, <2>1, SumRemove
    <3>2. h[x] \in Nat
      BY <1>0, <2>1
    <3>3. QED
      BY <2>1, <3>1, <3>2
  <2>2. CASE x \notin B
    <3>1. B \ {x} = B
      BY <2>2
    <3>2. SumFunctionOnSet(h, B) \in Nat
      BY <1>0, SumNat
    <3>3. QED
      BY <2>2, <3>1, <3>2
  <2>3. QED
    BY <2>1, <2>2
<1>6. QED
  BY <1>0, <1>2, <1>3, <1>4, <1>5 DEF SumsDiffer

(***************************************************************************)
(* The invariant                                                           *)
(***************************************************************************)
\* Orders that hold units, and the units each holds of type t.
Holders == {o \in OrderIds : orders[o].status \in Live}

Holds(t) == [o \in OrderIds |-> IF orders[o].ty = t THEN orders[o].qty ELSE 0]

\* quantity_sold is what the live orders hold (CreateOrder, CancelOrder, the
\* sweeper).
Exact == \A t \in Types : types[t].sold = SumFunctionOnSet(Holds(t), Holders)

\* Nothing is sold of a type that is deleted or was never created (DeleteType).
GoneIsUnsold == \A t \in Types : ~GetTypeByID(t) => types[t].sold = 0

\* A live order names a type of the event, for a quantity within the limit.
HoldersAreSound ==
    \A o \in Holders : orders[o].ty \in Types /\ orders[o].qty \in 1..MaxPerOrder

\* Types offer what an organiser entered.
OfferedTotals == \A t \in Types : types[t].total \in Totals \cup {0}

\* The tables between two steps, with one request at a time.
Accounts ==
    /\ Exact
    /\ GoneIsUnsold
    /\ HoldersAreSound
    /\ OfferedTotals

\* A handler that edits a type still knows its quantity_sold, and one that
\* deletes it that nothing was sold.
EditsCurrent ==
    \A w \in Workers, t \in Types : typeCopy[w][t] # NoType =>
        /\ op[w] \in {"saveType", "deleteType"}
        /\ typeCopy[w][t].sold = types[t].sold
        /\ typeCopy[w][t].total \in Totals \cup {0}
        /\ op[w] = "saveType" => typeCopy[w][t].status # "NONE" /\ ~typeCopy[w][t].deleted
        /\ op[w] = "deleteType" => types[t].sold = 0

\* An order under construction is live and names a type.
Draft(row) == row.ty \in Types /\ row.status \in Live

\* A copy that is the row of a live order.
Current(o, row) == orders[o].status \in Live /\ row = orders[o]

\* A copy that differs from the row by the checkout session.
Linked(o, row) ==
    /\ orders[o].status \in Live
    /\ row = [orders[o] EXCEPT !.session = TRUE]

\* A copy that differs from the row of a pending order by its payment.
Paying(o, row) ==
    /\ orders[o].status = "PENDING_PAYMENT"
    /\ row = [orders[o] EXCEPT !.status = "CONFIRMED", !.session = TRUE, !.paid = TRUE]

\* What handler name may hold of order o.
InHand(name, o, row) ==
    \/ name = "createOrder" /\ Draft(row)
    \/ name \in {"cancelOrder", "sweep", "checkout"} /\ Current(o, row)
    \/ name = "linkSession" /\ Linked(o, row)
    \/ name = "markPaid" /\ Paying(o, row)

\* Orders in hand are current; only the sweeper holds several.
OrdersCurrent ==
    \A w \in Workers :
        /\ \A o \in Loaded(w) : InHand(op[w], o, orderCopy[w][o])
        /\ op[w] # "sweep" => \A o1, o2 \in Loaded(w) : o1 = o2

\* The invariant of the checkout when requests do not overlap.
SerialInv == Accounts /\ EditsCurrent /\ OrdersCurrent

(***************************************************************************)
(* Copies stay current                                                     *)
(***************************************************************************)
\* Requests do not overlap: one goroutine serves them.
OneRequest == \A v, w \in Workers : v = w

\* What has to be shown of the copies after a step of request w.
LEMMA EditsFollow ==
    ASSUME OneRequest, NEW w \in Workers, \A t \in Types : typeCopy'[w][t] = NoType
    PROVE  EditsCurrent'
  BY DEF OneRequest, EditsCurrent

\* The same for orders.
LEMMA WorkFollows ==
    ASSUME OneRequest, NEW w \in Workers, \A o \in OrderIds : orderCopy'[w][o] = NoOrder
    PROVE  OrdersCurrent'
  BY DEF OneRequest, OrdersCurrent, Loaded

\* A request holds ticket types or orders, and an idle one nothing.
LEMMA OneKind ==
    ASSUME EditsCurrent, OrdersCurrent, NEW w \in Workers
    PROVE  /\ op[w] \notin {"saveType", "deleteType"} => \A t \in Types : typeCopy[w][t] = NoType
           /\ op[w] \in {"idle", "saveType", "deleteType"} =>
                \A o \in OrderIds : orderCopy[w][o] = NoOrder
  BY DEF EditsCurrent, OrdersCurrent, InHand, Loaded

\* A handler that drops its copies holds none.
LEMMA Dropped ==
    ASSUME TypeOK, NEW w \in Workers
    PROVE  /\ DropTypes(w) => \A t \in Types : typeCopy'[w][t] = NoType
           /\ DropOrders(w) => \A o \in OrderIds : orderCopy'[w][o] = NoOrder
  BY DEF TypeOK, DropTypes, DropOrders

\* A handler that loads a type.
LEMMA HoldTypeCurrent ==
    ASSUME TypeOK, OneRequest, EditsCurrent, OrdersCurrent,
           NEW w \in Workers, NEW t \in Types, NEW row, NEW name,
           HoldType(w, t, row, name),
           orderCopy' = orderCopy,
           row.sold = types[t].sold, row.total \in Totals \cup {0},
           \/ /\ name = "saveType"
              /\ row.status # "NONE" /\ ~row.deleted
           \/ name = "deleteType" /\ types[t].sold = 0
    PROVE  EditsCurrent' /\ OrdersCurrent'
<1>1. op[w] = "idle" /\ types' = types /\ op'[w] = name
  BY DEF HoldType, Idle, TypeOK
<1>2. \A o \in OrderIds : orderCopy'[w][o] = NoOrder
  BY <1>1, OneKind
<1>3. OrdersCurrent'
  BY <1>2, WorkFollows
<1>4. \A s \in Types : typeCopy[w][s] = NoType
  BY <1>1, OneKind
<1>5. \A s \in Types : typeCopy'[w][s] = IF s = t THEN row ELSE NoType
  BY <1>4 DEF HoldType, TypeOK
<1>6. ASSUME NEW v \in Workers, NEW s \in Types, typeCopy'[v][s] # NoType
      PROVE  v = w /\ s = t /\ typeCopy'[v][s] = row
  BY <1>5, <1>6 DEF OneRequest
<1>7. EditsCurrent'
  BY <1>1, <1>6 DEF EditsCurrent
<1>8. QED
  BY <1>3, <1>7

\* An organiser's handler keeps the copies current.
LEMMA TicketingCurrent ==
    ASSUME TypeOK, OneRequest, SerialInv, TicketingNext, UNCHANGED orderVars
    PROVE  EditsCurrent' /\ OrdersCurrent'
<1>1. orderCopy' = orderCopy /\ EditsCurrent /\ OrdersCurrent
  BY DEF orderVars, SerialInv
<1>2. ASSUME NEW t \in Types
      PROVE  /\ types[t] \in TypeRow
             /\ types[t].total \in Totals \cup {0}
             /\ GetTypeByID(t) => types[t].status # "NONE" /\ ~types[t].deleted
             /\ types[t] = NoType => types[t].sold = 0
  BY DEF TypeOK, SerialInv, Accounts, OfferedTotals, GetTypeByID, NoType
<1>3. ASSUME NEW w \in Workers, NEW t \in Types, NEW qty \in Totals, NEW free \in Prices,
             CreateType(w, t, qty, free)
      PROVE  EditsCurrent' /\ OrdersCurrent'
  <2> DEFINE row == [NoType EXCEPT !.status = "DRAFT", !.total = qty, !.free = free]
  <2>1. /\ row.status = "DRAFT" /\ row.total = qty /\ row.sold = 0 /\ row.deleted = FALSE
    BY DEF NoType
  <2>2. HoldType(w, t, row, "saveType")
    BY <1>3 DEF CreateType
  <2>3. types[t].sold = 0
    BY <1>3, <1>2 DEF CreateType
  <2> HIDE DEF row
  <2>4. QED
    BY <1>1, <2>1, <2>2, <2>3, HoldTypeCurrent
<1>4. ASSUME NEW w \in Workers, NEW t \in Types, NEW qty \in Totals, NEW free \in Prices,
             UpdateType(w, t, qty, free)
      PROVE  EditsCurrent' /\ OrdersCurrent'
  <2> DEFINE row == [types[t] EXCEPT !.total = qty, !.free = free]
  <2>1. types[t].status # "NONE" /\ ~types[t].deleted
    BY <1>4, <1>2 DEF UpdateType, GetTypeByID
  <2>2. /\ row.status = types[t].status /\ row.total = qty
        /\ row.sold = types[t].sold /\ row.deleted = types[t].deleted
    BY <1>2 DEF TypeRow
  <2>3. HoldType(w, t, row, "saveType")
    BY <1>4 DEF UpdateType
  <2> HIDE DEF row
  <2>4. QED
    BY <1>1, <2>1, <2>2, <2>3, HoldTypeCurrent
<1>5. ASSUME NEW w \in Workers, NEW t \in Types, Activate(w, t) \/ Pause(w, t)
      PROVE  EditsCurrent' /\ OrdersCurrent'
  <2>1. PICK to \in {"ACTIVE", "PAUSED"} :
          /\ HoldType(w, t, [types[t] EXCEPT !.status = to], "saveType")
          /\ GetTypeByID(t)
    BY <1>5 DEF Activate, Pause, SetStatus
  <2> DEFINE row == [types[t] EXCEPT !.status = to]
  <2>2. types[t].status # "NONE" /\ ~types[t].deleted
    BY <2>1, <1>2
  <2>3. /\ row.status = to /\ row.total = types[t].total
        /\ row.sold = types[t].sold /\ row.deleted = types[t].deleted
    BY <1>2 DEF TypeRow
  <2>4. HoldType(w, t, row, "saveType") /\ types[t].total \in Totals \cup {0}
    BY <1>2, <2>1
  <2> HIDE DEF row
  <2>5. QED
    BY <1>1, <2>2, <2>3, <2>4, HoldTypeCurrent
<1>6. ASSUME NEW w \in Workers, NEW t \in Types, DeleteType(w, t)
      PROVE  EditsCurrent' /\ OrdersCurrent'
  <2>1. HoldType(w, t, types[t], "deleteType") /\ types[t].sold = 0
    BY <1>6 DEF DeleteType
  <2>2. QED
    BY <1>1, <1>2, <2>1, HoldTypeCurrent
<1>7. ASSUME NEW w \in Workers, SaveType(w) \/ CommitDelete(w)
      PROVE  EditsCurrent' /\ OrdersCurrent'
  <2>1. DropTypes(w) /\ op[w] \in {"saveType", "deleteType"}
    BY <1>7 DEF SaveType, CommitDelete
  <2>2. \A o \in OrderIds : orderCopy'[w][o] = NoOrder
    BY <1>1, <2>1, OneKind
  <2>3. QED
    BY <2>1, <2>2, Dropped, EditsFollow, WorkFollows
<1>8. QED
  BY <1>3, <1>4, <1>5, <1>6, <1>7 DEF TicketingNext

\* Orders decide what a request may have in hand.
LEMMA HandStays ==
    ASSUME orders' = orders, NEW name, NEW o, NEW row, InHand(name, o, row)
    PROVE  InHand(name, o, row)'
  BY DEF InHand, Draft, Current, Linked, Paying

\* Quantities are natural numbers.
LEMMA CopyTyped ==
    ASSUME TypeOK, NEW w \in Workers, NEW o \in OrderIds
    PROVE  orderCopy[w][o].qty \in Nat /\ orders[o].qty \in Nat
  BY DEF TypeOK, OrderRow

\* A handler that loads orders.
LEMMA HoldOrdersCurrent ==
    ASSUME TypeOK, OneRequest, EditsCurrent, OrdersCurrent,
           NEW w \in Workers, NEW rows, NEW name, HoldOrders(w, rows, name),
           typeCopy' = typeCopy, orders' = orders,
           \A o \in OrderIds : rows[o] = NoOrder \/ InHand(name, o, rows[o]),
           \/ name = "sweep"
           \/ \A o1, o2 \in OrderIds : rows[o1] # NoOrder /\ rows[o2] # NoOrder => o1 = o2
    PROVE  EditsCurrent' /\ OrdersCurrent'
<1>1. op[w] = "idle" /\ op'[w] = name
  BY DEF HoldOrders, Idle, TypeOK
<1>2. \A t \in Types : typeCopy'[w][t] = NoType
  BY <1>1, OneKind
<1>3. \A o \in OrderIds : orderCopy'[w][o] = rows[o]
  BY DEF HoldOrders, TypeOK
<1>4. ASSUME NEW v \in Workers, NEW o \in OrderIds, orderCopy'[v][o] # NoOrder
      PROVE  InHand(op[v], o, orderCopy[v][o])'
  <2>1. v = w
    BY DEF OneRequest
  <2>2. PICK row : row = rows[o]
    OBVIOUS
  <2>3. InHand(name, o, row)
    BY <1>3, <1>4, <2>1, <2>2
  <2>4. InHand(name, o, row)'
    BY <2>3, HandStays
  <2>5. orderCopy'[v][o] = row /\ op'[v] = name
    BY <1>1, <1>3, <2>1, <2>2
  <2>6. QED
    BY <2>4, <2>5 DEF InHand, Draft, Current, Linked, Paying
<1>5. ASSUME NEW v \in Workers, op'[v] # "sweep",
             NEW o1 \in OrderIds, NEW o2 \in OrderIds,
             orderCopy'[v][o1] # NoOrder, orderCopy'[v][o2] # NoOrder
      PROVE  o1 = o2
  BY <1>1, <1>3, <1>5 DEF OneRequest
<1>6. OrdersCurrent'
  BY <1>4, <1>5 DEF OrdersCurrent, Loaded
<1>7. QED
  BY <1>2, <1>6, EditsFollow

\* The same for a handler that loads one order.
LEMMA HoldOrderCurrent ==
    ASSUME TypeOK, OneRequest, EditsCurrent, OrdersCurrent,
           NEW w \in Workers, NEW i \in OrderIds, NEW row, NEW name, HoldOrder(w, i, row, name),
           typeCopy' = typeCopy, orders' = orders, InHand(name, i, row)
    PROVE  EditsCurrent' /\ OrdersCurrent'
<1> DEFINE rows == [[o \in OrderIds |-> NoOrder] EXCEPT ![i] = row]
<1>1. \A o \in OrderIds : rows[o] = IF o = i THEN row ELSE NoOrder
  OBVIOUS
<1>2. HoldOrders(w, rows, name)
  BY DEF HoldOrder
<1> HIDE DEF rows
<1>3. \A o \in OrderIds : rows[o] = NoOrder \/ InHand(name, o, rows[o])
  BY <1>1
<1>4. \A o1, o2 \in OrderIds : rows[o1] # NoOrder /\ rows[o2] # NoOrder => o1 = o2
  BY <1>1
<1>5. QED
  BY <1>2, <1>3, <1>4, HoldOrdersCurrent

\* A request that ends, with or without effect.
LEMMA EndCurrent ==
    ASSUME TypeOK, OneRequest, EditsCurrent, OrdersCurrent, NEW w \in Workers,
           op[w] \notin {"saveType", "deleteType"}, DropOrders(w), typeCopy' = typeCopy
    PROVE  EditsCurrent' /\ OrdersCurrent'
<1>1. \A t \in Types : typeCopy'[w][t] = NoType
  BY OneKind
<1>2. QED
  BY <1>1, Dropped, EditsFollow, WorkFollows

\* The sweeper moves on to its next order.
LEMMA NextCurrent ==
    ASSUME TypeOK, OneRequest, EditsCurrent, OrdersCurrent, NEW w \in Workers,
           NEW i \in OrderIds, op[w] = "sweep", NextOfBatch(w, i), typeCopy' = typeCopy,
           \A o \in OrderIds \ {i} : orders'[o] = orders[o]
    PROVE  EditsCurrent' /\ OrdersCurrent'
<1>1. \A t \in Types : typeCopy'[w][t] = NoType
  BY OneKind
<1>2. \A o \in OrderIds : orderCopy'[w][o] = IF o = i THEN NoOrder ELSE orderCopy[w][o]
  BY DEF NextOfBatch, TypeOK
<1>3. ASSUME NEW v \in Workers, NEW o \in OrderIds, orderCopy'[v][o] # NoOrder
      PROVE  InHand(op[v], o, orderCopy[v][o])'
  <2>1. v = w /\ o # i /\ orderCopy'[v][o] = orderCopy[w][o]
    BY <1>2, <1>3 DEF OneRequest
  <2>2. o \in Loaded(w)
    BY <1>3, <2>1 DEF Loaded
  <2>3. Current(o, orderCopy[w][o])
    BY <2>2 DEF OrdersCurrent, InHand
  <2>4. op'[v] = "sweep"
    BY <2>1, <2>2 DEF NextOfBatch, TypeOK
  <2>5. QED
    BY <2>1, <2>3, <2>4 DEF InHand, Current
<1>4. ASSUME NEW v \in Workers, op'[v] # "sweep",
             NEW o1 \in OrderIds, NEW o2 \in OrderIds,
             orderCopy'[v][o1] # NoOrder, orderCopy'[v][o2] # NoOrder
      PROVE  o1 = o2
  <2>1. v = w
    BY DEF OneRequest
  <2>2. Loaded(w) = {i}
    BY <1>4, <2>1 DEF NextOfBatch, TypeOK
  <2>3. QED
    BY <1>2, <1>4, <2>1, <2>2 DEF Loaded
<1>5. OrdersCurrent'
  BY <1>3, <1>4 DEF OrdersCurrent, Loaded
<1>6. QED
  BY <1>1, <1>5, EditsFollow

\* What happens beside the requests.
LEMMA AsideCurrent ==
    ASSUME TypeOK, EditsCurrent, OrdersCurrent,
           UNCHANGED <<types, typeCopy, op, orders, orderCopy>>
    PROVE  EditsCurrent' /\ OrdersCurrent'
<1>1. EditsCurrent'
  BY DEF EditsCurrent
<1>2. ASSUME NEW w \in Workers, NEW o \in OrderIds, orderCopy'[w][o] # NoOrder
      PROVE  InHand(op[w], o, orderCopy[w][o])'
  <2>1. PICK row : row = orderCopy[w][o]
    OBVIOUS
  <2>2. PICK name : name = op[w]
    OBVIOUS
  <2>3. InHand(name, o, row)
    BY <1>2, <2>1, <2>2 DEF OrdersCurrent, Loaded
  <2>4. InHand(name, o, row)'
    BY <2>3, HandStays
  <2>5. QED
    BY <2>1, <2>2, <2>4 DEF InHand, Draft, Current, Linked, Paying
<1>3. QED
  BY <1>1, <1>2 DEF OrdersCurrent, Loaded

\* A handler of the order domain keeps the copies current.
LEMMA OrdersStayCurrent ==
    ASSUME TypeOK, OneRequest, SerialInv, OrdersNext
    PROVE  EditsCurrent' /\ OrdersCurrent'
<1>1. EditsCurrent /\ OrdersCurrent
  BY DEF SerialInv
<1>2. ASSUME NEW w \in Workers, NEW o \in OrderIds, NEW t \in Types,
             NEW qty \in 1..MaxPerOrder, NEW k \in Keys \cup {NoKey},
             CreateOrder(w, o, t, qty, k)
      PROVE  EditsCurrent' /\ OrdersCurrent'
  <2> DEFINE row == [status |-> IF types[t].free THEN "CONFIRMED" ELSE "PENDING_PAYMENT",
                     ty |-> t, qty |-> qty, free |-> types[t].free, key |-> k,
                     session |-> FALSE, paid |-> FALSE]
  <2>1. row.ty = t /\ row.status \in Live
    BY DEF Live
  <2>2. HoldOrder(w, o, row, "createOrder") /\ typeCopy' = typeCopy /\ orders' = orders
    BY <1>2 DEF CreateOrder
  <2> HIDE DEF row
  <2>3. InHand("createOrder", o, row)
    BY <2>1, <2>2 DEF InHand, Draft
  <2>4. QED
    BY <1>1, <2>1, <2>2, <2>3, HoldOrderCurrent
<1>3. ASSUME NEW w \in Workers, CommitOrder(w) \/ RollbackOrder(w)
                                \/ CommitCancel(w) \/ RollbackCancel(w)
      PROVE  EditsCurrent' /\ OrdersCurrent'
  <2>1. DropOrders(w) /\ op[w] \in {"createOrder", "cancelOrder"} /\ typeCopy' = typeCopy
    BY <1>3 DEF CommitOrder, RollbackOrder, CommitCancel, RollbackCancel
  <2>2. QED
    BY <1>1, <2>1, EndCurrent
<1>4. ASSUME NEW w \in Workers, NEW o \in OrderIds, CancelOrder(w, o)
      PROVE  EditsCurrent' /\ OrdersCurrent'
  <2>1. HoldOrder(w, o, orders[o], "cancelOrder") /\ orders[o].status \in Live
        /\ typeCopy' = typeCopy /\ orders' = orders
    BY <1>4 DEF CancelOrder
  <2>2. InHand("cancelOrder", o, orders[o])
    BY <2>1 DEF InHand, Current
  <2>3. QED
    BY <1>1, <2>1, <2>2, HoldOrderCurrent
<1>5. ASSUME NEW w \in Workers, SweepExpired(w)
      PROVE  EditsCurrent' /\ OrdersCurrent'
  <2>1. PICK batch \in SUBSET ExpiredPending :
          HoldOrders(w, [o \in OrderIds |-> IF o \in batch THEN orders[o] ELSE NoOrder], "sweep")
    BY <1>5 DEF SweepExpired
  <2> DEFINE rows == [o \in OrderIds |-> IF o \in batch THEN orders[o] ELSE NoOrder]
  <2>2. \A o \in OrderIds : rows[o] = IF o \in batch THEN orders[o] ELSE NoOrder
    OBVIOUS
  <2>3. HoldOrders(w, rows, "sweep")
    BY <2>1
  <2> HIDE DEF rows
  <2>4. \A o \in OrderIds : \/ rows[o] = NoOrder
                            \/ InHand("sweep", o, rows[o])
    BY <2>2 DEF ExpiredPending, InHand, Current, Live
  <2>5. typeCopy' = typeCopy /\ orders' = orders
    BY <1>5 DEF SweepExpired
  <2>6. QED
    BY <1>1, <2>3, <2>4, <2>5, HoldOrdersCurrent
<1>6. ASSUME NEW w \in Workers, NEW o \in OrderIds, ExpireOne(w, o) \/ SkipOne(w, o)
      PROVE  EditsCurrent' /\ OrdersCurrent'
  <2>1. op[w] = "sweep" /\ NextOfBatch(w, o) /\ typeCopy' = typeCopy
    BY <1>6 DEF ExpireOne, SkipOne
  <2>2. \A i \in OrderIds \ {o} : orders'[i] = orders[i]
    BY <1>6 DEF ExpireOne, SkipOne, UpdateOrder, TypeOK
  <2>3. QED
    BY <1>1, <2>1, <2>2, NextCurrent
<1>7. ASSUME NEW o \in OrderIds, HoldLapses(o)
      PROVE  EditsCurrent' /\ OrdersCurrent'
  <2>1. UNCHANGED <<types, typeCopy, op, orders, orderCopy>>
    BY <1>7 DEF HoldLapses, ticketingVars
  <2>2. QED
    BY <1>1, <2>1, AsideCurrent
<1>8. ASSUME NEW o \in OrderIds, NEW u \in Units, CancelMine(o, u)
      PROVE  EditsCurrent' /\ OrdersCurrent'
  <2>1. UNCHANGED <<types, typeCopy, op, orders, orderCopy>>
    BY <1>8 DEF CancelMine, ticketingVars
  <2>2. QED
    BY <1>1, <2>1, AsideCurrent
<1>9. QED
  BY <1>2, <1>3, <1>4, <1>5, <1>6, <1>7, <1>8 DEF OrdersNext

\* The payment domain keeps the copies current.
LEMMA PaymentsStayCurrent ==
    ASSUME TypeOK, OneRequest, SerialInv, PaymentsNext
    PROVE  EditsCurrent' /\ OrdersCurrent'
<1>1. EditsCurrent /\ OrdersCurrent
  BY DEF SerialInv
<1>2. ASSUME NEW w \in Workers, NEW o \in OrderIds, CreateCheckout(w, o)
      PROVE  EditsCurrent' /\ OrdersCurrent'
  <2>1. HoldOrder(w, o, orders[o], "checkout") /\ orders[o].status \in Live
        /\ typeCopy' = typeCopy /\ orders' = orders
    BY <1>2 DEF CreateCheckout, Live
  <2>2. InHand("checkout", o, orders[o])
    BY <2>1 DEF InHand, Current
  <2>3. QED
    BY <1>1, <2>1, <2>2, HoldOrderCurrent
<1>3. ASSUME NEW w \in Workers, NEW o \in OrderIds, MarkPaid(w, o)
      PROVE  EditsCurrent' /\ OrdersCurrent'
  <2> DEFINE row == [orders[o] EXCEPT !.status = "CONFIRMED",
                                      !.session = TRUE, !.paid = TRUE]
  <2>1. HoldOrder(w, o, row, "markPaid") /\ orders[o].status = "PENDING_PAYMENT"
        /\ typeCopy' = typeCopy /\ orders' = orders
    BY <1>3 DEF MarkPaid
  <2>2. InHand("markPaid", o, row)
    BY <2>1 DEF InHand, Paying
  <2> HIDE DEF row
  <2>3. QED
    BY <1>1, <2>1, <2>2, HoldOrderCurrent
<1>4. ASSUME NEW o \in OrderIds, BuyerPays(o) \/ \E w \in Workers : IgnorePaid(w, o)
      PROVE  EditsCurrent' /\ OrdersCurrent'
  <2>1. UNCHANGED <<types, typeCopy, op, orders, orderCopy>>
    BY <1>4 DEF IgnorePaid, BuyerPays, ticketingVars, orderVars
  <2>2. QED
    BY <1>1, <2>1, AsideCurrent
<1>5. ASSUME NEW w \in Workers, RejectSession(w) \/ CommitSession(w)
                                \/ CommitPaid(w) \/ FailPaid(w)
      PROVE  EditsCurrent' /\ OrdersCurrent'
  <2>1. /\ DropOrders(w) /\ op[w] \in {"checkout", "linkSession", "markPaid"}
        /\ typeCopy' = typeCopy
    BY <1>5 DEF RejectSession, CommitSession, CommitPaid, FailPaid
  <2>2. QED
    BY <1>1, <2>1, EndCurrent
<1>6. ASSUME NEW w \in Workers, Crash(w)
      PROVE  EditsCurrent' /\ OrdersCurrent'
  BY <1>6, Dropped, EditsFollow, WorkFollows DEF Crash
<1>7. ASSUME NEW w \in Workers, SetStripeSession(w)
      PROVE  EditsCurrent' /\ OrdersCurrent'
  <2>1. op[w] = "checkout" /\ typeCopy' = typeCopy /\ orders' = orders
    BY <1>7 DEF SetStripeSession
  <2>2. \A t \in Types : typeCopy'[w][t] = NoType
    BY <1>1, <2>1, OneKind
  <2>3. PICK i \in Loaded(w) :
          /\ orders[i].status \in Live
          /\ orderCopy' = [orderCopy EXCEPT ![w][i] = [orders[i] EXCEPT !.session = TRUE]]
    BY <1>7 DEF SetStripeSession
  <2>4. PICK row : row = [orders[i] EXCEPT !.session = TRUE]
    OBVIOUS
  <2>5. i \in OrderIds /\ \A o \in OrderIds :
          orderCopy'[w][o] = IF o = i THEN row ELSE orderCopy[w][o]
    BY <2>3, <2>4 DEF TypeOK, Loaded
  <2>6. \A o \in OrderIds \ {i} : orderCopy[w][o] = NoOrder
    BY <1>1, <2>1, <2>3 DEF OrdersCurrent, Loaded
  <2>7. ASSUME NEW v \in Workers, NEW o \in OrderIds, orderCopy'[v][o] # NoOrder
        PROVE  InHand(op[v], o, orderCopy[v][o])'
    <3>1. v = w /\ o = i /\ orderCopy'[v][o] = row
      BY <2>5, <2>6, <2>7 DEF OneRequest
    <3>2. op'[v] = "linkSession"
      BY <1>7, <3>1 DEF SetStripeSession, TypeOK
    <3>3. QED
      BY <2>1, <2>3, <2>4, <3>1, <3>2 DEF InHand, Linked
  <2>8. OrdersCurrent'
    <3>1. ASSUME NEW v \in Workers, NEW o1 \in OrderIds, NEW o2 \in OrderIds,
                 orderCopy'[v][o1] # NoOrder, orderCopy'[v][o2] # NoOrder
          PROVE  o1 = o2
      BY <2>5, <2>6, <3>1 DEF OneRequest
    <3>2. QED
      BY <2>7, <3>1 DEF OrdersCurrent, Loaded
  <2>9. QED
    BY <2>2, <2>8, EditsFollow
<1>8. QED
  BY <1>2, <1>3, <1>4, <1>5, <1>6, <1>7 DEF PaymentsNext

(***************************************************************************)
(* What a step can do to types and orders                                  *)
(***************************************************************************)
Exists(row) == row.status # "NONE" /\ ~row.deleted

\* A step that writes no type and no order.
QuietStep == types' = types /\ orders' = orders

\* A step that writes the row of a type: its sales stay within its total, and
\* a type that goes has none.
EditStep(t, row) ==
    /\ types' = [types EXCEPT ![t] = row]
    /\ row.sold = types[t].sold
    /\ row.total \in Totals \cup {0}
    /\ row.sold <= row.total
    /\ ~Exists(row) => row.sold = 0
    /\ orders' = orders

\* A step that inserts a live order and reserves its units.
TakeStep(o, row) ==
    /\ orders[o] = NoOrder
    /\ row.status \in Live /\ row.ty \in Types /\ row.qty \in 1..MaxPerOrder
    /\ ReserveTx(row.ty, row.qty)
    /\ orders' = [orders EXCEPT ![o] = row]

\* A step that ends a live order and releases its units.
GiveStep(o, row) ==
    /\ orders[o].status \in Live
    /\ row.status \in {"CANCELLED", "EXPIRED"}
    /\ Claim(row) = Claim(orders[o]) /\ row.paid = orders[o].paid
    /\ ReleaseTx(orders[o].ty, orders[o].qty)
    /\ orders' = [orders EXCEPT ![o] = row]

\* A step that writes a live order and keeps it live.
MarkStep(o, row) ==
    /\ \/ orders[o].status \in Live /\ row.status = orders[o].status
       \/ orders[o].status = "PENDING_PAYMENT" /\ row.status = "CONFIRMED"
    /\ Claim(row) = Claim(orders[o]) /\ (orders[o].paid => row.paid)
    /\ types' = types
    /\ orders' = [orders EXCEPT ![o] = row]

\* The kinds of steps.
StepOfAKind ==
    \/ QuietStep
    \/ \E t \in Types, row \in TypeRow : EditStep(t, row)
    \/ \E o \in OrderIds, row \in OrderRow :
        TakeStep(o, row) \/ GiveStep(o, row) \/ MarkStep(o, row)

\* An organiser's step is an edit, or quiet.
LEMMA TicketingKind ==
    ASSUME TypeOK, CheckoutInv, SerialInv, TicketingNext, UNCHANGED orderVars
    PROVE  StepOfAKind
<1>1. orders' = orders
  BY DEF orderVars
<1>2. ASSUME types' = types PROVE StepOfAKind
  BY <1>1, <1>2 DEF StepOfAKind, QuietStep
<1>3. ASSUME NEW w \in Workers, SaveType(w) PROVE StepOfAKind
  <2>1. PICK t \in Types : typeCopy[w][t] # NoType /\ types' = [types EXCEPT ![t] = typeCopy[w][t]]
    BY <1>3 DEF SaveType
  <2>2. PICK row : row = typeCopy[w][t]
    OBVIOUS
  <2>3. op[w] = "saveType" /\ row \in TypeRow
    BY <1>3, <2>2 DEF SaveType, TypeOK
  <2>4. /\ row.sold = types[t].sold /\ row.total \in Totals \cup {0}
        /\ row.status # "NONE" /\ ~row.deleted
    BY <2>1, <2>2, <2>3 DEF SerialInv, EditsCurrent
  <2>5. row.sold <= row.total
    BY <2>2, <2>3 DEF CheckoutInv, StockInv, CopiesInStock, TypeRow
  <2>6. EditStep(t, row)
    BY <1>1, <2>1, <2>2, <2>4, <2>5 DEF EditStep, Exists
  <2>7. QED
    BY <2>3, <2>6 DEF StepOfAKind
<1>4. ASSUME NEW w \in Workers, CommitDelete(w) PROVE StepOfAKind
  <2>1. PICK t \in Types : typeCopy[w][t] # NoType /\ types' = [types EXCEPT ![t].deleted = TRUE]
    BY <1>4 DEF CommitDelete
  <2>2. PICK row : row = [types[t] EXCEPT !.deleted = TRUE]
    OBVIOUS
  <2>3. types[t] \in TypeRow
    BY DEF TypeOK
  <2>4. /\ row \in TypeRow /\ row.deleted = TRUE
        /\ row.sold = types[t].sold /\ row.total = types[t].total
    BY <2>2, <2>3 DEF TypeRow
  <2>5. types' = [types EXCEPT ![t] = row]
    BY <2>1, <2>2
  <2>6. types[t].sold = 0
    BY <1>4, <2>1 DEF SerialInv, EditsCurrent, CommitDelete
  <2>7. types[t].total \in Totals \cup {0} /\ types[t].total \in Nat
    BY <2>3 DEF SerialInv, Accounts, OfferedTotals, TypeRow
  <2>8. EditStep(t, row)
    BY <1>1, <2>4, <2>5, <2>6, <2>7 DEF EditStep, Exists
  <2>9. QED
    BY <2>4, <2>8 DEF StepOfAKind
<1>5. types' = types \/ \E w \in Workers : SaveType(w) \/ CommitDelete(w)
  <2>1. \A w \in Workers, t \in Types : Activate(w, t) \/ Pause(w, t) => types' = types
    BY DEF Activate, Pause, SetStatus, HoldType
  <2>2. \A w \in Workers, t \in Types, qty \in Totals, free \in Prices :
            CreateType(w, t, qty, free) \/ UpdateType(w, t, qty, free) => types' = types
    BY DEF CreateType, UpdateType, HoldType
  <2>3. \A w \in Workers, t \in Types : DeleteType(w, t) => types' = types
    BY DEF DeleteType, HoldType
  <2>4. QED
    BY <2>1, <2>2, <2>3 DEF TicketingNext
<1>6. QED
  BY <1>2, <1>3, <1>4, <1>5

\* A step of the order domain takes units, gives them back, or is quiet.
LEMMA OrdersKind ==
    ASSUME TypeOK, CheckoutInv, SerialInv, OrdersNext
    PROVE  StepOfAKind
<1>1. ASSUME types' = types, orders' = orders PROVE StepOfAKind
  BY <1>1 DEF StepOfAKind, QuietStep
<1>2. ASSUME NEW w \in Workers, CommitOrder(w) PROVE StepOfAKind
  <2>1. PICK o \in Loaded(w) :
          /\ ReserveTx(orderCopy[w][o].ty, orderCopy[w][o].qty)
          /\ UpdateOrder(o, orderCopy[w][o])
    BY <1>2 DEF CommitOrder
  <2>2. o \in OrderIds /\ op[w] = "createOrder"
    BY <1>2 DEF CommitOrder, Loaded
  <2>3. PICK row : row = orderCopy[w][o]
    OBVIOUS
  <2>4. row \in OrderRow
    BY <2>2, <2>3 DEF TypeOK
  <2>5. orders[o] = NoOrder /\ row.qty \in 1..MaxPerOrder
    BY <2>1, <2>2, <2>3 DEF CheckoutInv, ClaimInv, DraftsAreFresh
  <2>6. row.ty \in Types /\ row.status \in Live
    BY <2>1, <2>2, <2>3 DEF SerialInv, OrdersCurrent, InHand, Draft
  <2>7. TakeStep(o, row)
    BY <2>1, <2>3, <2>5, <2>6 DEF TakeStep, UpdateOrder
  <2>8. QED
    BY <2>2, <2>4, <2>7 DEF StepOfAKind
<1>3. ASSUME NEW w \in Workers, NEW o \in Loaded(w), NEW status \in {"CANCELLED", "EXPIRED"},
             op[w] \in {"cancelOrder", "sweep"},
             ReleaseTx(orderCopy[w][o].ty, orderCopy[w][o].qty),
             UpdateOrder(o, [orderCopy[w][o] EXCEPT !.status = status])
      PROVE  StepOfAKind
  <2>1. o \in OrderIds
    BY DEF Loaded
  <2>2. orderCopy[w][o] = orders[o] /\ orders[o].status \in Live
    BY <1>3 DEF SerialInv, OrdersCurrent, InHand, Current
  <2>3. PICK row : row = [orders[o] EXCEPT !.status = status]
    OBVIOUS
  <2>4. orders[o] \in OrderRow
    BY <2>1 DEF TypeOK
  <2>5. /\ row \in OrderRow /\ row.status = status /\ row.paid = orders[o].paid
        /\ row.ty = orders[o].ty /\ row.qty = orders[o].qty
        /\ row.free = orders[o].free /\ row.key = orders[o].key
    BY <2>3, <2>4 DEF OrderRow, OrderStatus
  <2>6. GiveStep(o, row)
    BY <1>3, <2>2, <2>3, <2>5 DEF GiveStep, UpdateOrder, Claim
  <2>7. QED
    BY <2>1, <2>5, <2>6 DEF StepOfAKind
<1>4. ASSUME NEW w \in Workers, CommitCancel(w) PROVE StepOfAKind
  BY <1>3, <1>4 DEF CommitCancel
<1>5. ASSUME NEW w \in Workers, NEW o \in OrderIds, ExpireOne(w, o) PROVE StepOfAKind
  BY <1>3, <1>5 DEF ExpireOne
<1>6. ASSUME NEW o \in OrderIds, NEW u \in Units, CancelMine(o, u) PROVE StepOfAKind
  <2>1. types' = types /\ orders' = orders
    BY <1>6 DEF CancelMine, ticketingVars
  <2>2. QED
    BY <1>1, <2>1
<1>7. ASSUME NEW w \in Workers, NEW o \in OrderIds, SkipOne(w, o) \/ CancelOrder(w, o)
      PROVE  StepOfAKind
  BY <1>1, <1>7 DEF SkipOne, CancelOrder
<1>8. ASSUME NEW w \in Workers, RollbackOrder(w) \/ RollbackCancel(w) \/ SweepExpired(w)
      PROVE  StepOfAKind
  BY <1>1, <1>8 DEF RollbackOrder, RollbackCancel, SweepExpired
<1>9. ASSUME NEW o \in OrderIds, HoldLapses(o) PROVE StepOfAKind
  BY <1>1, <1>9 DEF HoldLapses, ticketingVars
<1>10. ASSUME NEW w \in Workers, NEW o \in OrderIds, NEW t \in Types,
              NEW qty \in 1..MaxPerOrder, NEW k \in Keys \cup {NoKey},
              CreateOrder(w, o, t, qty, k)
       PROVE  StepOfAKind
  BY <1>1, <1>10 DEF CreateOrder
<1>11. QED
  BY <1>2, <1>4, <1>5, <1>6, <1>7, <1>8, <1>9, <1>10 DEF OrdersNext

\* A step of the payment domain marks an order, or is quiet.
LEMMA PaymentsKind ==
    ASSUME TypeOK, CheckoutInv, SerialInv, PaymentsNext
    PROVE  StepOfAKind
<1>1. ASSUME types' = types, orders' = orders PROVE StepOfAKind
  BY <1>1 DEF StepOfAKind, QuietStep
<1>2. ASSUME NEW w \in Workers, CommitSession(w) \/ CommitPaid(w) PROVE StepOfAKind
  <2>1. PICK o \in Loaded(w) : UpdateOrder(o, orderCopy[w][o])
    BY <1>2 DEF CommitSession, CommitPaid
  <2>2. types' = types /\ op[w] \in {"linkSession", "markPaid"}
    BY <1>2 DEF CommitSession, CommitPaid
  <2>3. o \in OrderIds
    BY DEF Loaded
  <2>4. PICK row : row = orderCopy[w][o]
    OBVIOUS
  <2>5. orders[o] \in OrderRow /\ row \in OrderRow
    BY <2>3, <2>4 DEF TypeOK
  <2>6. Linked(o, row) \/ Paying(o, row)
    BY <2>2, <2>4 DEF SerialInv, OrdersCurrent, InHand
  <2>7. MarkStep(o, row)
    <3>1. CASE Linked(o, row)
      <4>1. /\ row.status = orders[o].status /\ row.paid = orders[o].paid
            /\ row.ty = orders[o].ty /\ row.qty = orders[o].qty
            /\ row.free = orders[o].free /\ row.key = orders[o].key
        BY <2>5, <3>1 DEF OrderRow, Linked
      <4>2. QED
        BY <2>1, <2>2, <2>4, <3>1, <4>1 DEF MarkStep, Linked, Claim, UpdateOrder
    <3>2. CASE Paying(o, row)
      <4>1. /\ row.status = "CONFIRMED" /\ row.paid = TRUE
            /\ row.ty = orders[o].ty /\ row.qty = orders[o].qty
            /\ row.free = orders[o].free /\ row.key = orders[o].key
        BY <2>5, <3>2 DEF OrderRow, Paying
      <4>2. QED
        BY <2>1, <2>2, <2>4, <3>2, <4>1 DEF MarkStep, Paying, Claim, UpdateOrder
    <3>3. QED
      BY <2>6, <3>1, <3>2
  <2>8. QED
    BY <2>3, <2>5, <2>7 DEF StepOfAKind
<1>3. ASSUME NEW w \in Workers, NEW o \in OrderIds,
             CreateCheckout(w, o) \/ MarkPaid(w, o) \/ IgnorePaid(w, o)
      PROVE  StepOfAKind
  BY <1>1, <1>3 DEF CreateCheckout, MarkPaid, IgnorePaid, ticketingVars, orderVars
<1>4. ASSUME NEW w \in Workers, SetStripeSession(w) \/ RejectSession(w) \/ Crash(w) \/ FailPaid(w)
      PROVE  StepOfAKind
  BY <1>1, <1>4 DEF SetStripeSession, RejectSession, Crash, FailPaid
<1>5. ASSUME NEW o \in OrderIds, BuyerPays(o) PROVE StepOfAKind
  BY <1>1, <1>5 DEF BuyerPays, ticketingVars, orderVars
<1>6. QED
  BY <1>2, <1>3, <1>4, <1>5 DEF PaymentsNext

\* Every step of the checkout is of one of these kinds.
LEMMA StepKinds ==
    ASSUME TypeOK, CheckoutInv, SerialInv, [Next]_vars
    PROVE  StepOfAKind
<1>1. CASE UNCHANGED vars
  BY <1>1 DEF vars, ticketingVars, orderVars, StepOfAKind, QuietStep
<1>2. QED
  BY <1>1, TicketingKind, OrdersKind, PaymentsKind DEF Next

(***************************************************************************)
(* The accounts after a step                                               *)
(***************************************************************************)
\* The units an order row holds of a type.
UnitsOf(row, t) == IF row.status \in Live /\ row.ty = t THEN row.qty ELSE 0

\* Holders are finite and hold natural quantities.
LEMMA HoldsTyped ==
    ASSUME TypeOK, NEW t \in Types
    PROVE  /\ IsFiniteSet(Holders) /\ Holders \subseteq OrderIds
           /\ \A o \in OrderIds : Holds(t)[o] = IF orders[o].ty = t THEN orders[o].qty ELSE 0
           /\ \A o \in OrderIds : Holds(t)[o] \in Nat
<1>1. Holders \in SUBSET OrderIds
  BY DEF Holders
<1>2. IsFiniteSet(Holders)
  BY <1>1, FS_Subset, OrdersAssumption
<1>3. \A o \in OrderIds : orders[o].qty \in Nat
  BY DEF TypeOK, OrderRow
<1>4. QED
  BY <1>1, <1>2, <1>3 DEF Holds

\* Writing one order moves the sum of its types by what the row holds.
LEMMA OrderWritten ==
    ASSUME TypeOK, TypeOK', NEW o \in OrderIds, NEW row \in OrderRow,
           orders' = [orders EXCEPT ![o] = row], NEW t \in Types
    PROVE  \E r \in Nat :
              /\ SumFunctionOnSet(Holds(t), Holders) = r + UnitsOf(orders[o], t)
              /\ SumFunctionOnSet(Holds(t), Holders)' = r + UnitsOf(row, t)
<1>1. PICK f : f = Holds(t)
  OBVIOUS
<1>2. PICK A : A = Holders
  OBVIOUS
<1>3. PICK h : h = Holds(t)'
  OBVIOUS
<1>4. PICK B : B = Holders'
  OBVIOUS
<1>5. \A i \in OrderIds : orders'[i] = IF i = o THEN row ELSE orders[i]
  BY DEF TypeOK
<1>6. /\ IsFiniteSet(A) /\ A \subseteq OrderIds
      /\ \A i \in OrderIds : f[i] \in Nat
      /\ \A i \in OrderIds : f[i] = IF orders[i].ty = t THEN orders[i].qty ELSE 0
  BY <1>1, <1>2, HoldsTyped
<1>7. B \in SUBSET OrderIds /\ IsFiniteSet(B)
  <2>1. B \in SUBSET OrderIds
    BY <1>4 DEF Holders
  <2>2. QED
    BY <2>1, FS_Subset, OrdersAssumption
<1>8. \A i \in OrderIds : h[i] = IF orders'[i].ty = t THEN orders'[i].qty ELSE 0
  BY <1>3 DEF Holds
<1>9. \A i \in OrderIds : h[i] \in Nat
  <2>1. \A i \in OrderIds : orders'[i].qty \in Nat
    BY DEF TypeOK, OrderRow
  <2>2. QED
    BY <1>8, <2>1
<1>10. A \ {o} = B \ {o}
  BY <1>2, <1>4, <1>5 DEF Holders
<1>11. \A i \in A \ {o} : f[i] = h[i]
  BY <1>5, <1>6, <1>8
<1>12. PICK r \in Nat :
          /\ SumFunctionOnSet(f, A) = r + (IF o \in A THEN f[o] ELSE 0)
          /\ SumFunctionOnSet(h, B) = r + (IF o \in B THEN h[o] ELSE 0)
  <2>1. Summable(f, A) /\ Summable(h, B)
    BY <1>6, <1>7, <1>9 DEF Summable
  <2>2. AgreeBut(f, A, h, B, o)
    BY <1>10, <1>11 DEF AgreeBut
  <2>3. SumsDiffer(f, A, h, B, o)
    BY <2>1, <2>2, SumMove
  <2>4. QED
    BY <2>3 DEF SumsDiffer
<1>13. (IF o \in A THEN f[o] ELSE 0) = UnitsOf(orders[o], t)
  BY <1>2, <1>6 DEF UnitsOf, Holders
<1>14. (IF o \in B THEN h[o] ELSE 0) = UnitsOf(row, t)
  BY <1>4, <1>5, <1>8 DEF UnitsOf, Holders
<1>15. QED
  BY <1>1, <1>2, <1>3, <1>4, <1>12, <1>13, <1>14

\* Selling and releasing touch quantity_sold only.
LEMMA SoldMoves ==
    ASSUME TypeOK, NEW i \in Types, NEW n \in Int, AddSold(i, n)
    PROVE  \A t \in Types :
              /\ types'[t].sold = types[t].sold + (IF t = i THEN n ELSE 0)
              /\ types'[t].total = types[t].total
              /\ GetTypeByID(t)' <=> GetTypeByID(t)
<1>1. ASSUME NEW t \in Types
      PROVE  /\ types'[t].sold = types[t].sold + (IF t = i THEN n ELSE 0)
             /\ types'[t].total = types[t].total
             /\ types'[t].status = types[t].status /\ types'[t].deleted = types[t].deleted
  <2>1. types[t] \in TypeRow /\ types[t].sold \in Nat
    BY DEF TypeOK, TypeRow
  <2>2. types'[t] = IF t = i THEN [types[t] EXCEPT !.sold = @ + n] ELSE types[t]
    BY DEF AddSold, TypeOK
  <2>3. CASE t = i
    BY <2>1, <2>2, <2>3 DEF TypeRow
  <2>4. CASE t # i
    BY <2>1, <2>2, <2>4
  <2>5. QED
    BY <2>3, <2>4
<1>2. QED
  BY <1>1 DEF GetTypeByID

\* Nothing happens to types and orders.
LEMMA QuietAccounts ==
    ASSUME Accounts, QuietStep
    PROVE  Accounts'
<1>1. types' = types /\ orders' = orders
  BY DEF QuietStep
<1>2. Exact'
  BY <1>1 DEF Accounts, Exact, Holds, Holders
<1>3. GoneIsUnsold' /\ OfferedTotals'
  BY <1>1 DEF Accounts, GoneIsUnsold, OfferedTotals, GetTypeByID
<1>4. HoldersAreSound'
  BY <1>1 DEF Accounts, HoldersAreSound, Holders
<1>5. QED
  BY <1>2, <1>3, <1>4 DEF Accounts

\* One row of the types is written.
LEMMA EditAccounts ==
    ASSUME TypeOK, TypeOK', Accounts, NEW t \in Types, NEW row \in TypeRow, EditStep(t, row)
    PROVE  Accounts'
<1>1. \A s \in Types : types'[s] = IF s = t THEN row ELSE types[s]
  BY DEF EditStep, TypeOK
<1>2. orders' = orders /\ row.sold = types[t].sold
  BY DEF EditStep
<1>3. Exact'
  <2>1. \A s \in Types : types'[s].sold = types[s].sold
    BY <1>1, <1>2
  <2>2. QED
    BY <1>2, <2>1 DEF Accounts, Exact, Holds, Holders
<1>4. GoneIsUnsold'
  BY <1>1, <1>2 DEF Accounts, GoneIsUnsold, EditStep, Exists, GetTypeByID
<1>5. OfferedTotals'
  BY <1>1 DEF Accounts, OfferedTotals, EditStep
<1>6. HoldersAreSound'
  BY <1>2 DEF Accounts, HoldersAreSound, Holders
<1>7. QED
  BY <1>3, <1>4, <1>5, <1>6 DEF Accounts

\* An order is written and quantity_sold moves with it.
LEMMA WriteAccounts ==
    ASSUME TypeOK, TypeOK', Accounts, NEW o \in OrderIds, NEW row \in OrderRow,
           orders' = [orders EXCEPT ![o] = row],
           row.status \in Live => row.ty \in Types /\ row.qty \in 1..MaxPerOrder,
           \A t \in Types :
              /\ types'[t].sold + UnitsOf(orders[o], t) = types[t].sold + UnitsOf(row, t)
              /\ types'[t].total = types[t].total
              /\ GetTypeByID(t)' <=> GetTypeByID(t)
              /\ ~GetTypeByID(t) => types'[t].sold = types[t].sold
    PROVE  Accounts'
<1>1. ASSUME NEW t \in Types
      PROVE  types'[t].sold = SumFunctionOnSet(Holds(t), Holders)'
  <2>1. PICK r \in Nat :
          /\ SumFunctionOnSet(Holds(t), Holders) = r + UnitsOf(orders[o], t)
          /\ SumFunctionOnSet(Holds(t), Holders)' = r + UnitsOf(row, t)
    BY OrderWritten
  <2>2. types[t].sold = r + UnitsOf(orders[o], t)
    BY <2>1 DEF Accounts, Exact
  <2>3. UnitsOf(orders[o], t) \in Nat /\ UnitsOf(row, t) \in Nat
    <3>1. orders[o].qty \in Nat /\ row.qty \in Nat
      BY DEF TypeOK, OrderRow
    <3>2. QED
      BY <3>1 DEF UnitsOf
  <2>4. types'[t].sold \in Nat
    BY DEF TypeOK, TypeRow
  <2>5. types'[t].sold + UnitsOf(orders[o], t) = types[t].sold + UnitsOf(row, t)
    OBVIOUS
  <2>6. types'[t].sold = r + UnitsOf(row, t)
    BY <2>2, <2>3, <2>4, <2>5
  <2>7. QED
    BY <2>1, <2>6
<1>2. Exact'
  BY <1>1 DEF Exact
<1>3. GoneIsUnsold'
  BY DEF Accounts, GoneIsUnsold
<1>4. HoldersAreSound'
  <2>1. \A i \in OrderIds : orders'[i] = IF i = o THEN row ELSE orders[i]
    BY DEF TypeOK
  <2>2. QED
    BY <2>1 DEF Accounts, HoldersAreSound, Holders
<1>5. OfferedTotals'
  BY DEF Accounts, OfferedTotals
<1>6. QED
  BY <1>2, <1>3, <1>4, <1>5 DEF Accounts

\* Inserting an order keeps the accounts.
LEMMA TakeAccounts ==
    ASSUME TypeOK, TypeOK', Accounts, NEW o \in OrderIds, NEW row \in OrderRow,
           TakeStep(o, row)
    PROVE  Accounts'
<1>1. /\ row.status \in Live /\ row.ty \in Types /\ row.qty \in 1..MaxPerOrder
      /\ orders[o].status = "NONE"
      /\ GetTypeByID(row.ty) /\ AddSold(row.ty, row.qty)
      /\ orders' = [orders EXCEPT ![o] = row]
  BY DEF TakeStep, ReserveTx, CanReserve, NoOrder
<1>2. row.qty \in Int
  BY <1>1, TicketingAssumption
<1>3. \A t \in Types :
        /\ types'[t].sold = types[t].sold + (IF t = row.ty THEN row.qty ELSE 0)
        /\ types'[t].total = types[t].total
        /\ GetTypeByID(t)' <=> GetTypeByID(t)
  BY <1>1, <1>2, SoldMoves
<1>4. \A t \in Types : types[t].sold \in Nat
  BY DEF TypeOK, TypeRow
<1>5. \A t \in Types : UnitsOf(orders[o], t) = 0
  BY <1>1 DEF UnitsOf, Live
<1>6. \A t \in Types : UnitsOf(row, t) = IF t = row.ty THEN row.qty ELSE 0
  BY <1>1 DEF UnitsOf
<1>7. ASSUME NEW t \in Types
      PROVE  /\ types'[t].sold + UnitsOf(orders[o], t) = types[t].sold + UnitsOf(row, t)
             /\ types'[t].total = types[t].total
             /\ GetTypeByID(t)' <=> GetTypeByID(t)
             /\ ~GetTypeByID(t) => types'[t].sold = types[t].sold
  BY <1>1, <1>2, <1>3, <1>4, <1>5, <1>6
<1>8. row.status \in Live => row.ty \in Types /\ row.qty \in 1..MaxPerOrder
  BY <1>1
<1>9. orders' = [orders EXCEPT ![o] = row]
  BY <1>1
<1>10. QED
  BY <1>7, <1>8, <1>9, WriteAccounts

\* Cancelling or expiring an order keeps the accounts.
LEMMA GiveAccounts ==
    ASSUME TypeOK, TypeOK', Accounts, NEW o \in OrderIds, NEW row \in OrderRow,
           GiveStep(o, row)
    PROVE  Accounts'
<1> DEFINE i == orders[o].ty
           n == orders[o].qty
<1>1. /\ row.status \notin Live /\ orders[o].status \in Live
      /\ GetTypeByID(i) /\ AddSold(i, -n)
      /\ orders' = [orders EXCEPT ![o] = row]
  BY DEF GiveStep, ReleaseTx, CanRelease, Live
<1>2. i \in Types /\ n \in Nat
  BY <1>1, CopyTyped DEF Accounts, HoldersAreSound, Holders, TypeOK, OrderRow
<1> HIDE DEF i, n
<1>3. \A t \in Types :
        /\ types'[t].sold = types[t].sold + (IF t = i THEN -n ELSE 0)
        /\ types'[t].total = types[t].total
        /\ GetTypeByID(t)' <=> GetTypeByID(t)
  BY <1>1, <1>2, SoldMoves
<1>4. \A t \in Types : types[t].sold \in Nat
  BY DEF TypeOK, TypeRow
<1>5. \A t \in Types : UnitsOf(orders[o], t) = IF t = i THEN n ELSE 0
  BY <1>1 DEF UnitsOf, i, n
<1>6. \A t \in Types : UnitsOf(row, t) = 0
  BY <1>1 DEF UnitsOf
<1>7. ASSUME NEW t \in Types
      PROVE  /\ types'[t].sold + UnitsOf(orders[o], t) = types[t].sold + UnitsOf(row, t)
             /\ types'[t].total = types[t].total
             /\ GetTypeByID(t)' <=> GetTypeByID(t)
             /\ ~GetTypeByID(t) => types'[t].sold = types[t].sold
  BY <1>1, <1>2, <1>3, <1>4, <1>5, <1>6
<1>8. row.status \in Live => row.ty \in Types /\ row.qty \in 1..MaxPerOrder
  BY <1>1
<1>9. orders' = [orders EXCEPT ![o] = row]
  BY <1>1
<1>10. QED
  BY <1>7, <1>8, <1>9, WriteAccounts

\* Linking a session or recording a payment keeps the accounts.
LEMMA MarkAccounts ==
    ASSUME TypeOK, TypeOK', Accounts, NEW o \in OrderIds, NEW row \in OrderRow,
           MarkStep(o, row)
    PROVE  Accounts'
<1>1. /\ row.status \in Live /\ orders[o].status \in Live
      /\ types' = types
      /\ orders' = [orders EXCEPT ![o] = row]
  BY DEF MarkStep, Live
<1>2. row.ty = orders[o].ty /\ row.qty = orders[o].qty
  BY DEF MarkStep, Claim
<1>3. row.ty \in Types /\ row.qty \in 1..MaxPerOrder
  BY <1>1, <1>2 DEF Accounts, HoldersAreSound, Holders
<1>4. \A t \in Types : UnitsOf(row, t) = UnitsOf(orders[o], t)
  BY <1>1, <1>2 DEF UnitsOf
<1>5. \A t \in Types :
        /\ types'[t].sold + UnitsOf(orders[o], t) = types[t].sold + UnitsOf(row, t)
        /\ types'[t].total = types[t].total
        /\ GetTypeByID(t)' <=> GetTypeByID(t)
        /\ ~GetTypeByID(t) => types'[t].sold = types[t].sold
  BY <1>1, <1>4 DEF GetTypeByID
<1>6. QED
  BY <1>1, <1>3, <1>5, WriteAccounts

(***************************************************************************)
(* The theorems                                                            *)
(***************************************************************************)
\* Nothing is sold, held or offered initially.
LEMMA InitSerial == Init => SerialInv
<1> SUFFICES ASSUME Init PROVE SerialInv
  OBVIOUS
<1>1. /\ types = [t \in Types |-> NoType] /\ orders = [o \in OrderIds |-> NoOrder]
      /\ typeCopy = [w \in Workers |-> [t \in Types |-> NoType]]
      /\ orderCopy = [w \in Workers |-> [o \in OrderIds |-> NoOrder]]
  BY DEF Init, TicketingInit, OrdersInit
<1>2. Holders = {}
  BY <1>1 DEF Holders, NoOrder, Live
<1>3. Exact
  BY <1>1, <1>2, SumEmpty DEF Exact, NoType
<1>4. GoneIsUnsold /\ OfferedTotals /\ HoldersAreSound
  BY <1>1, <1>2 DEF GoneIsUnsold, OfferedTotals, HoldersAreSound, NoType
<1>5. EditsCurrent /\ OrdersCurrent
  BY <1>1 DEF EditsCurrent, OrdersCurrent, Loaded
<1>6. QED
  BY <1>3, <1>4, <1>5 DEF SerialInv, Accounts

\* Every step keeps the accounts and the copies current.
LEMMA NextSerial ==
    ASSUME OneRequest, TypeOK, CheckoutInv, SerialInv, [Next]_vars
    PROVE  SerialInv'
<1>1. TypeOK'
  BY NextTyped
<1>2. Accounts
  BY DEF SerialInv
<1>3. Accounts'
  <2>1. CASE QuietStep
    BY <1>2, <2>1, QuietAccounts
  <2>2. ASSUME NEW t \in Types, NEW row \in TypeRow, EditStep(t, row)
        PROVE  Accounts'
    BY <1>1, <1>2, <2>2, EditAccounts
  <2>3. ASSUME NEW o \in OrderIds, NEW row \in OrderRow,
               TakeStep(o, row) \/ GiveStep(o, row) \/ MarkStep(o, row)
        PROVE  Accounts'
    BY <1>1, <1>2, <2>3, TakeAccounts, GiveAccounts, MarkAccounts
  <2>4. QED
    BY <2>1, <2>2, <2>3, StepKinds DEF StepOfAKind
<1>4. EditsCurrent' /\ OrdersCurrent'
  <2>1. CASE UNCHANGED vars
    <3>1. UNCHANGED <<types, typeCopy, op, orders, orderCopy>>
      BY <2>1 DEF vars, ticketingVars, orderVars
    <3>2. QED
      BY <3>1, AsideCurrent DEF SerialInv
  <2>2. QED
    BY <2>1, TicketingCurrent, OrdersStayCurrent, PaymentsStayCurrent DEF Next
<1>5. QED
  BY <1>3, <1>4 DEF SerialInv

\* With one request at a time the accounts hold and copies are current.
THEOREM AccountsHold == OneRequest => (Spec => []SerialInv)
<1> SUFFICES ASSUME OneRequest PROVE Spec => []SerialInv
  OBVIOUS
<1>1. TypeOK /\ CheckoutInv /\ SerialInv /\ [Next]_vars => SerialInv'
  BY NextSerial
<1>2. QED
  BY <1>1, InitSerial, TypeCorrect, CheckoutIsSound, PTL DEF Spec

\* The ledger sums as the checkout does.
LEMMA SumsMeet ==
    ASSUME NEW f, NEW S
    PROVE  Ledger!SumFunctionOnSet(f, S) = SumFunctionOnSet(f, S)
  BY DEF SumFunctionOnSet, FoldFunctionOnSet, MapThenFoldSet,
         Ledger!SumFunctionOnSet, Ledger!FoldFunctionOnSet, Ledger!MapThenFoldSet

\* The ledger's states as the code's statuses.
StateOf(o) ==
    CASE orders[o].status = "NONE"            -> "none"
      [] orders[o].status = "PENDING_PAYMENT" -> "held"
      [] orders[o].status = "CONFIRMED"       -> "sold"
      [] OTHER                                -> "released"

\* The states of the ledger, status by status.
LEMMA StatesMap ==
    ASSUME NEW o
    PROVE  /\ orders[o].status = "NONE" => StateOf(o) = "none"
           /\ orders[o].status = "PENDING_PAYMENT" => StateOf(o) = "held"
           /\ orders[o].status = "CONFIRMED" => StateOf(o) = "sold"
           /\ orders[o].status \notin {"NONE", "PENDING_PAYMENT", "CONFIRMED"}
                => StateOf(o) = "released"
  BY DEF StateOf

\* The active units of the ledger are what the live orders hold.
LEMMA ActiveUnitsAre ==
    ASSUME NEW t \in Types
    PROVE  Ledger!ActiveUnits(t) = SumFunctionOnSet(Holds(t), Holders)
<1>1. {o \in OrderIds : [i \in OrderIds |-> StateOf(i)][o] \in Ledger!Active} = Holders
  BY StatesMap DEF Holders, Live, Ledger!Active
<1>2. [o \in OrderIds |->
         [i \in OrderIds |-> [s \in Types |-> IF orders[i].ty = s THEN orders[i].qty ELSE 0]][o][t]]
      = Holds(t)
  BY DEF Holds
<1>3. QED
  BY <1>1, <1>2, SumsMeet DEF Ledger!ActiveUnits, StateOf

\* A live order keeps its ticket type, because it holds units of it.
LEMMA HoldersHaveTypes ==
    ASSUME TypeOK, Accounts, NEW o \in OrderIds, orders[o].status \in Live
    PROVE  GetTypeByID(orders[o].ty)
<1> DEFINE t == orders[o].ty
<1>1. t \in Types /\ orders[o].qty \in 1..MaxPerOrder /\ o \in Holders
  BY DEF Accounts, HoldersAreSound, Holders
<1> HIDE DEF t
<1>2. IsFiniteSet(Holders) /\ \A i \in Holders : Holds(t)[i] \in Nat
  BY <1>1, HoldsTyped
<1>3. Holds(t)[o] = orders[o].qty
  BY <1>1, HoldsTyped DEF t
<1>4. /\ SumFunctionOnSet(Holds(t), Holders)
           = Holds(t)[o] + SumFunctionOnSet(Holds(t), Holders \ {o})
      /\ SumFunctionOnSet(Holds(t), Holders \ {o}) \in Nat
  BY <1>1, <1>2, SumRemove
<1>5. types[t].sold # 0
  BY <1>1, <1>3, <1>4, TicketingAssumption DEF Accounts, Exact
<1>6. QED
  BY <1>1, <1>5 DEF Accounts, GoneIsUnsold, t

\* Capacity as the ledger sees it.
Capacity(t) == IF GetTypeByID(t) THEN types[t].total ELSE 0

\* What is sold of a type fits what it offers.
LEMMA SoldInCapacity ==
    ASSUME TypeOK, SoldWithinTotal, Accounts, NEW t \in Types
    PROVE  types[t].sold <= Capacity(t) /\ types[t].sold \in Nat /\ Capacity(t) \in Nat
<1>1. types[t].sold \in Nat /\ types[t].total \in Nat
  BY DEF TypeOK, TypeRow
<1>2. types[t].sold <= types[t].total
  BY <1>1 DEF SoldWithinTotal
<1>3. ~GetTypeByID(t) => types[t].sold = 0
  BY DEF Accounts, GoneIsUnsold
<1>4. QED
  BY <1>1, <1>2, <1>3 DEF Capacity

\* The invariant implies the property.
LEMMA AccountsAgree ==
    ASSUME TypeOK, CheckoutInv, SerialInv
    PROVE  StockAccounted
<1>1. Accounts /\ SoldWithinTotal
  BY DEF SerialInv, CheckoutInv, StockInv
<1>2. ASSUME NEW t \in Types
      PROVE  /\ [s \in Types |-> types[s].sold][t] = Ledger!ActiveUnits(t)
             /\ [s \in Types |-> types[s].sold][t]
                  <= [s \in Types |-> IF GetTypeByID(s) THEN types[s].total ELSE 0][t]
  BY <1>1, ActiveUnitsAre, SoldInCapacity DEF Accounts, Exact, Capacity
<1>3. ExactStock
  BY <1>2 DEF ExactStock, Ledger!ExactAndNeverOversold
<1>4. LiveOrderHasType
  BY <1>1, HoldersHaveTypes DEF LiveOrderHasType
<1>5. QED
  BY <1>3, <1>4 DEF StockAccounted

\* With one request at a time, quantity_sold is exactly what the live orders
\* hold and never above the total, and a live order keeps its type
\* (CreateOrder, CancelOrder, SweepExpired, UpdateType, DeleteType), whatever
\* the sizes and whatever capacity and plan limit each check meets.
THEOREM StockIsAccounted == OneRequest => (Spec => []StockAccounted)
<1> SUFFICES ASSUME OneRequest PROVE Spec => []StockAccounted
  OBVIOUS
<1>1. TypeOK /\ CheckoutInv /\ SerialInv => StockAccounted
  BY AccountsAgree
<1>2. QED
  BY <1>1, AccountsHold, TypeCorrect, CheckoutIsSound, PTL

\* No kind of step writes a dead order or takes a payment back.
LEMMA DeadStep ==
    ASSUME TypeOK, StepOfAKind, NEW i \in OrderIds
    PROVE  /\ orders[i].status \in {"CANCELLED", "EXPIRED"} => orders'[i] = orders[i]
           /\ orders[i].paid => orders'[i].paid
<1>1. CASE orders' = orders
  BY <1>1
<1>2. ASSUME NEW o \in OrderIds, NEW row \in OrderRow,
             TakeStep(o, row) \/ GiveStep(o, row) \/ MarkStep(o, row)
      PROVE  /\ orders[i].status \in {"CANCELLED", "EXPIRED"} => orders'[i] = orders[i]
             /\ orders[i].paid => orders'[i].paid
  <2>1. orders' = [orders EXCEPT ![o] = row]
    BY <1>2 DEF TakeStep, GiveStep, MarkStep
  <2>2. orders'[i] = IF i = o THEN row ELSE orders[i]
    BY <2>1 DEF TypeOK
  <2>3. CASE i = o
    <3>1. orders[o].status \notin {"CANCELLED", "EXPIRED"}
      BY <1>2 DEF TakeStep, GiveStep, MarkStep, NoOrder, Live
    <3>2. orders[o].paid => row.paid
      <4>1. TakeStep(o, row) => orders[o].paid = FALSE
        BY DEF TakeStep, NoOrder
      <4>2. GiveStep(o, row) => row.paid = orders[o].paid
        BY DEF GiveStep
      <4>3. MarkStep(o, row) => (orders[o].paid => row.paid)
        BY DEF MarkStep
      <4>4. QED
        BY <1>2, <4>1, <4>2, <4>3
    <3>3. QED
      BY <2>2, <2>3, <3>1, <3>2
  <2>4. CASE i # o
    BY <2>2, <2>4
  <2>5. QED
    BY <2>3, <2>4
<1>3. QED
  BY <1>1, <1>2 DEF StepOfAKind, QuietStep, EditStep

\* With one request at a time, CANCELLED and EXPIRED are final and a recorded
\* payment stays recorded: no Save writes over them.
THEOREM TheDeadStayDead == OneRequest => (Spec => DeadStaysDead)
<1> SUFFICES ASSUME OneRequest PROVE Spec => DeadStaysDead
  OBVIOUS
<1>1. ASSUME TypeOK, CheckoutInv, SerialInv, [Next]_vars
      PROVE  [\A o \in OrderIds :
                /\ orders[o].status \in {"CANCELLED", "EXPIRED"} => orders'[o] = orders[o]
                /\ orders[o].paid => orders'[o].paid]_vars
  BY <1>1, StepKinds, DeadStep
<1>2. QED
  BY <1>1, AccountsHold, TypeCorrect, CheckoutIsSound, PTL DEF Spec, DeadStaysDead

(***************************************************************************)
(* The checkout implements the ledger                                      *)
(***************************************************************************)
\* The state of the ledger, written with the tables.
LedgerCapacity == [t \in Types |-> Capacity(t)]

\* Units taken of each type.
LedgerSold == [t \in Types |-> types[t].sold]

\* The state of each claim.
LedgerState == [o \in OrderIds |-> StateOf(o)]

\* The units each claim took.
LedgerUnits ==
    [o \in OrderIds |-> [t \in Types |-> IF orders[o].ty = t THEN orders[o].qty ELSE 0]]

\* The checkout starts as the ledger does.
LEMMA LedgerInits == Init => Ledger!Init
<1> SUFFICES ASSUME Init PROVE Ledger!Init
  OBVIOUS
<1>1. types = [t \in Types |-> NoType] /\ orders = [o \in OrderIds |-> NoOrder]
  BY DEF Init, TicketingInit, OrdersInit
<1>2. \A o \in OrderIds : orders[o].ty \notin Types /\ StateOf(o) = "none"
  BY <1>1, OrdersAssumption, StatesMap DEF NoOrder
<1>3. LedgerCapacity = [t \in Types |-> 0] /\ LedgerSold = [t \in Types |-> 0]
  BY <1>1 DEF LedgerCapacity, LedgerSold, Capacity, GetTypeByID, NoType
<1>4. LedgerState = [o \in OrderIds |-> "none"]
  BY <1>2 DEF LedgerState
<1>5. LedgerUnits = [o \in OrderIds |-> [t \in Types |-> 0]]
  BY <1>2 DEF LedgerUnits
<1>6. QED
  BY <1>3, <1>4, <1>5
  DEF Ledger!Init, LedgerCapacity, LedgerSold, LedgerState, LedgerUnits, Capacity, StateOf

\* The actions of the ledger, in terms of the tables.
LEMMA OfferIs ==
    ASSUME NEW t, NEW n, n >= LedgerSold[t], LedgerCapacity' = [LedgerCapacity EXCEPT ![t] = n],
           UNCHANGED <<LedgerSold, LedgerState, LedgerUnits>>
    PROVE  Ledger!Offer(t, n)
  BY DEF Ledger!Offer, LedgerCapacity, LedgerSold, LedgerState, LedgerUnits, Capacity, StateOf

\* Taking units, in terms of the tables.
LEMMA TakeIs ==
    ASSUME NEW o, NEW t, NEW n, NEW as, LedgerState[o] = "none",
           LedgerSold[t] + n <= LedgerCapacity[t],
           LedgerSold' = [LedgerSold EXCEPT ![t] = @ + n],
           LedgerState' = [LedgerState EXCEPT ![o] = as],
           LedgerUnits' = [LedgerUnits EXCEPT ![o][t] = n],
           UNCHANGED LedgerCapacity
    PROVE  Ledger!TakeUnits(o, t, n, as)
  BY DEF Ledger!TakeUnits, LedgerCapacity, LedgerSold, LedgerState, LedgerUnits, Capacity, StateOf

\* Confirming, in terms of the tables.
LEMMA ConfirmIs ==
    ASSUME NEW o, LedgerState[o] = "held", LedgerState' = [LedgerState EXCEPT ![o] = "sold"],
           UNCHANGED <<LedgerCapacity, LedgerSold, LedgerUnits>>
    PROVE  Ledger!Confirm(o)
  BY DEF Ledger!Confirm, LedgerCapacity, LedgerSold, LedgerState, LedgerUnits, Capacity, StateOf

\* A step that leaves these four alone is no step of the ledger.
LEMMA StutterIs ==
    ASSUME UNCHANGED <<LedgerCapacity, LedgerSold, LedgerState, LedgerUnits>>
    PROVE  UNCHANGED Ledger!ledgerVars
  BY DEF Ledger!ledgerVars, LedgerCapacity, LedgerSold, LedgerState, LedgerUnits, Capacity, StateOf

\* A state of the ledger that did not change, seen from the tables.
LEMMA SameLedgerTypes ==
    ASSUME \A t \in Types : types'[t].sold = types[t].sold /\ Capacity(t)' = Capacity(t)
    PROVE  LedgerCapacity' = LedgerCapacity /\ LedgerSold' = LedgerSold
  BY DEF LedgerCapacity, LedgerSold

\* A quiet step leaves the ledger alone.
LEMMA QuietLedger ==
    ASSUME QuietStep
    PROVE  [Ledger!Next]_Ledger!ledgerVars
<1>1. types' = types /\ orders' = orders
  BY DEF QuietStep
<1>2. UNCHANGED <<LedgerCapacity, LedgerSold, LedgerState, LedgerUnits>>
  BY <1>1 DEF LedgerCapacity, LedgerSold, LedgerState, LedgerUnits, Capacity, StateOf, GetTypeByID
<1>3. QED
  BY <1>2, StutterIs

\* An edit of a type changes what the ledger offers.
LEMMA EditLedger ==
    ASSUME TypeOK, Accounts, NEW t \in Types, NEW row \in TypeRow, EditStep(t, row)
    PROVE  [Ledger!Next]_Ledger!ledgerVars
<1> DEFINE n == IF Exists(row) THEN row.total ELSE 0
<1>1. \A s \in Types : types'[s] = IF s = t THEN row ELSE types[s]
  BY DEF EditStep, TypeOK
<1>2. orders' = orders /\ row.sold = types[t].sold
  BY DEF EditStep
<1>3. LedgerState' = LedgerState /\ LedgerUnits' = LedgerUnits
  BY <1>2 DEF LedgerState, LedgerUnits, StateOf
<1>4. LedgerSold' = LedgerSold
  BY <1>1, <1>2 DEF LedgerSold
<1>5. \A s \in Types : Capacity(s)' = IF s = t THEN n ELSE Capacity(s)
  BY <1>1 DEF Capacity, Exists, GetTypeByID
<1>6. n \in Totals \cup {0} /\ n >= types[t].sold
  <2>1. row.total \in Totals \cup {0} /\ row.sold <= row.total
        /\ (~Exists(row) => row.sold = 0)
    BY DEF EditStep
  <2>2. row.total \in Nat /\ row.sold \in Nat
    BY DEF TypeRow
  <2>3. QED
    BY <1>2, <2>1, <2>2
<1> HIDE DEF n
<1>7. LedgerCapacity' = [LedgerCapacity EXCEPT ![t] = n]
  BY <1>5 DEF LedgerCapacity
<1>8. n >= LedgerSold[t]
  BY <1>6 DEF LedgerSold
<1>9. Ledger!Offer(t, n)
  BY <1>3, <1>4, <1>7, <1>8, OfferIs
<1>10. QED
  BY <1>6, <1>9 DEF Ledger!Next

\* Inserting an order takes its units.
LEMMA TakeLedger ==
    ASSUME TypeOK, NEW o \in OrderIds, NEW row \in OrderRow, TakeStep(o, row)
    PROVE  [Ledger!Next]_Ledger!ledgerVars
<1> DEFINE t == row.ty
           n == row.qty
           as == IF row.status = "CONFIRMED" THEN "sold" ELSE "held"
<1>1. /\ orders[o].status = "NONE" /\ orders[o].ty = NoTypeId /\ row.status \in Live
      /\ GetTypeByID(t) /\ AddSold(t, n) /\ types[t].sold + n <= types[t].total
      /\ orders' = [orders EXCEPT ![o] = row]
      /\ t \in Types /\ n \in 1..MaxPerOrder
  BY DEF TakeStep, ReserveTx, CanReserve, NoOrder
<1>2. n \in Int
  BY <1>1, TicketingAssumption
<1>3. row.status = "CONFIRMED" \/ row.status = "PENDING_PAYMENT"
  BY <1>1 DEF Live
<1>4. \A s \in Types :
        /\ types'[s].sold = types[s].sold + (IF s = t THEN n ELSE 0)
        /\ types'[s].total = types[s].total
        /\ GetTypeByID(s)' <=> GetTypeByID(s)
  BY <1>1, <1>2, SoldMoves
<1>5. \A i \in OrderIds : orders'[i] = IF i = o THEN row ELSE orders[i]
  BY <1>1 DEF TypeOK
<1>6. \A i \in OrderIds : StateOf(i)' = IF i = o THEN as ELSE StateOf(i)
  BY <1>3, <1>5 DEF StateOf
<1>7. \A s \in Types : types[s].sold \in Nat
  BY DEF TypeOK, TypeRow
<1> HIDE DEF t, n, as
<1>8. LedgerState[o] = "none"
  BY <1>1, StatesMap DEF LedgerState
<1>9. LedgerState' = [LedgerState EXCEPT ![o] = as]
  BY <1>6 DEF LedgerState
<1>10. LedgerCapacity' = LedgerCapacity
  BY <1>4 DEF LedgerCapacity, Capacity
<1>11. LedgerSold' = [LedgerSold EXCEPT ![t] = @ + n]
  BY <1>2, <1>4, <1>7 DEF LedgerSold
<1>12. LedgerSold[t] + n <= LedgerCapacity[t]
  BY <1>1 DEF LedgerSold, LedgerCapacity, Capacity
<1>13. LedgerUnits' = [LedgerUnits EXCEPT ![o][t] = n]
  <2>1. \A s \in Types : orders[o].ty # s
    BY <1>1, OrdersAssumption
  <2>2. \A i \in OrderIds, s \in Types :
          (IF orders'[i].ty = s THEN orders'[i].qty ELSE 0)
            = IF i = o THEN (IF s = t THEN n ELSE 0)
              ELSE IF orders[i].ty = s THEN orders[i].qty ELSE 0
    BY <1>5 DEF t, n
  <2>3. LedgerUnits' = [i \in OrderIds |-> [s \in Types |->
            IF i = o THEN (IF s = t THEN n ELSE 0)
            ELSE IF orders[i].ty = s THEN orders[i].qty ELSE 0]]
    BY <2>2 DEF LedgerUnits
  <2>4. LedgerUnits[o] = [s \in Types |-> 0]
    BY <2>1 DEF LedgerUnits
  <2>5. [LedgerUnits[o] EXCEPT ![t] = n] = [s \in Types |-> IF s = t THEN n ELSE 0]
    BY <2>4
  <2>6. [LedgerUnits EXCEPT ![o] = [LedgerUnits[o] EXCEPT ![t] = n]]
          = [i \in OrderIds |-> IF i = o THEN [s \in Types |-> IF s = t THEN n ELSE 0]
                                ELSE LedgerUnits[i]]
    BY <2>5 DEF LedgerUnits
  <2>7. \A i \in OrderIds :
          LedgerUnits[i] = [s \in Types |-> IF orders[i].ty = s THEN orders[i].qty ELSE 0]
    BY DEF LedgerUnits
  <2>8. LedgerUnits' = [i \in OrderIds |-> IF i = o THEN [s \in Types |-> IF s = t THEN n ELSE 0]
                                           ELSE LedgerUnits[i]]
    BY <2>3, <2>7
  <2>9. QED
    BY <2>6, <2>8
<1>14. Ledger!TakeUnits(o, t, n, as)
  BY <1>8, <1>9, <1>10, <1>11, <1>12, <1>13, TakeIs
<1>15. as \in Ledger!Active
  BY DEF as, Ledger!Active
<1>16. QED
  BY <1>1, <1>14, <1>15 DEF Ledger!Next

\* An order whose claim stays keeps its units.
LEMMA UnitsStay ==
    ASSUME TypeOK, NEW o \in OrderIds, NEW row, orders' = [orders EXCEPT ![o] = row],
           Claim(row) = Claim(orders[o])
    PROVE  LedgerUnits' = LedgerUnits
<1>1. \A i \in OrderIds : orders'[i].ty = orders[i].ty /\ orders'[i].qty = orders[i].qty
  BY DEF TypeOK, Claim
<1>2. QED
  BY <1>1 DEF LedgerUnits

\* Ending an order gives its units back.
LEMMA GiveLedger ==
    ASSUME TypeOK, Accounts, NEW o \in OrderIds, NEW row \in OrderRow, GiveStep(o, row)
    PROVE  [Ledger!Next]_Ledger!ledgerVars
<1> DEFINE i == orders[o].ty
           n == orders[o].qty
<1>1. /\ row.status \in {"CANCELLED", "EXPIRED"} /\ orders[o].status \in Live
      /\ GetTypeByID(i) /\ AddSold(i, -n)
      /\ orders' = [orders EXCEPT ![o] = row]
      /\ Claim(row) = Claim(orders[o])
  BY DEF GiveStep, ReleaseTx, CanRelease
<1>2. i \in Types /\ n \in Nat
  BY <1>1, CopyTyped DEF Accounts, HoldersAreSound, Holders, TypeOK, OrderRow
<1>3. LedgerUnits' = LedgerUnits
  BY <1>1, UnitsStay
<1>4. \A s \in Types : LedgerUnits[o][s] = IF s = i THEN n ELSE 0
  BY DEF LedgerUnits
<1> HIDE DEF i, n
<1>5. \A t \in Types :
        /\ types'[t].sold = types[t].sold + (IF t = i THEN -n ELSE 0)
        /\ types'[t].total = types[t].total
        /\ GetTypeByID(t)' <=> GetTypeByID(t)
  BY <1>1, <1>2, SoldMoves
<1>6. \A s \in Types : types[s].sold \in Nat
  BY DEF TypeOK, TypeRow
<1>7. LedgerCapacity' = LedgerCapacity
  BY <1>5 DEF LedgerCapacity, Capacity
<1>8. \A t \in Types : types'[t].sold = types[t].sold - LedgerUnits[o][t]
  BY <1>2, <1>4, <1>5, <1>6
<1>9. \A k \in OrderIds : orders'[k] = IF k = o THEN row ELSE orders[k]
  BY <1>1 DEF TypeOK
<1>10. \A k \in OrderIds : StateOf(k)' = IF k = o THEN "released" ELSE StateOf(k)
  BY <1>1, <1>9 DEF StateOf
<1>11. LedgerState' = [LedgerState EXCEPT ![o] = "released"]
  BY <1>10 DEF LedgerState
<1>12. LedgerState[o] \in {"held", "sold"}
  BY <1>1, StatesMap DEF LedgerState, Live
<1>13. Ledger!GiveBack(o)
  <2>1. UNCHANGED <<LedgerCapacity, LedgerUnits>>
    BY <1>3, <1>7
  <2>2. LedgerSold' = [t \in Types |-> LedgerSold[t] - LedgerUnits[o][t]]
    BY <1>8 DEF LedgerSold
  <2>3. QED
    BY <1>11, <1>12, <2>1, <2>2
    DEF Ledger!GiveBack, Ledger!Active, LedgerCapacity, LedgerSold, LedgerState,
        LedgerUnits, Capacity, StateOf
<1>14. QED
  BY <1>13 DEF Ledger!Next

\* Recording a payment confirms the claim; linking a session is no step.
LEMMA MarkLedger ==
    ASSUME TypeOK, NEW o \in OrderIds, NEW row \in OrderRow, MarkStep(o, row)
    PROVE  [Ledger!Next]_Ledger!ledgerVars
<1>1. types' = types /\ orders' = [orders EXCEPT ![o] = row] /\ Claim(row) = Claim(orders[o])
  BY DEF MarkStep
<1>2. LedgerCapacity' = LedgerCapacity /\ LedgerSold' = LedgerSold
  BY <1>1 DEF LedgerCapacity, LedgerSold, Capacity, GetTypeByID
<1>3. LedgerUnits' = LedgerUnits
  BY <1>1, UnitsStay
<1>4. \A k \in OrderIds : orders'[k] = IF k = o THEN row ELSE orders[k]
  BY <1>1 DEF TypeOK
<1>5. CASE row.status = orders[o].status
  <2>1. \A k \in OrderIds : StateOf(k)' = StateOf(k)
    BY <1>4, <1>5 DEF StateOf
  <2>2. LedgerState' = LedgerState
    BY <2>1 DEF LedgerState
  <2>3. QED
    BY <1>2, <1>3, <2>2, StutterIs
<1>6. CASE orders[o].status = "PENDING_PAYMENT" /\ row.status = "CONFIRMED"
  <2>1. \A k \in OrderIds : StateOf(k)' = IF k = o THEN "sold" ELSE StateOf(k)
    BY <1>4, <1>6 DEF StateOf
  <2>2. LedgerState' = [LedgerState EXCEPT ![o] = "sold"]
    BY <2>1 DEF LedgerState
  <2>3. LedgerState[o] = "held"
    BY <1>6, StatesMap DEF LedgerState
  <2>4. Ledger!Confirm(o)
    BY <1>2, <1>3, <2>2, <2>3, ConfirmIs
  <2>5. QED
    BY <2>4 DEF Ledger!Next
<1>7. QED
  BY <1>5, <1>6 DEF MarkStep

\* Every step of the checkout is a step of the ledger or leaves it alone.
LEMMA LedgerSteps ==
    ASSUME TypeOK, CheckoutInv, SerialInv, [Next]_vars
    PROVE  [Ledger!Next]_Ledger!ledgerVars
<1>1. Accounts
  BY DEF SerialInv
<1>2. QED
  BY <1>1, StepKinds, QuietLedger, EditLedger, TakeLedger, GiveLedger, MarkLedger
  DEF StepOfAKind

\* With one request at a time the checkout implements the ticket ledger: a
\* claim takes its units once and gives them back at most once.
THEOREM TheLedgerIsImplemented == OneRequest => (Spec => ImplementsLedger)
<1> SUFFICES ASSUME OneRequest PROVE Spec => ImplementsLedger
  OBVIOUS
<1>1. TypeOK /\ CheckoutInv /\ SerialInv /\ [Next]_vars => [Ledger!Next]_Ledger!ledgerVars
  BY LedgerSteps
<1>2. QED
  BY <1>1, LedgerInits, AccountsHold, TypeCorrect, CheckoutIsSound, PTL
  DEF Spec, ImplementsLedger, Ledger!Spec

=============================================================================
