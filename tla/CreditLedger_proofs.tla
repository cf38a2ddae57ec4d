------------------------- MODULE CreditLedger_proofs -------------------------
(***************************************************************************)
(* What is proved of CreditLedger for any companies, invoices, credits,     *)
(* processes and limits.                                                    *)
(***************************************************************************)
EXTENDS CreditLedger, FiniteSetTheorems, WellFoundedInduction, TLAPS

-----------------------------------------------------------------------------
(* Sums of functions.  The library says nothing of them, and its induction   *)
(* theorems have a predicate for a parameter; that the natural numbers and   *)
(* the subsets of a finite set are well founded is said of sets, and does    *)
(* as well: what fails fails first somewhere.                                *)

\* A set of natural numbers has a least one.
LEMMA LeastNat ==
  ASSUME NEW T, T \subseteq Nat, T # {}
  PROVE  \E n \in T : \A m \in T : n <= m
<1>1. PICK n \in T : \A m \in T : ~ (<<m, n>> \in OpToRel(<, Nat))
  BY NatLessThanWellFounded, WFMin
<1>2. \A m \in T : m \in Nat /\ n \in Nat /\ ~ (m < n)
  BY <1>1 DEF OpToRel
<1> QED  BY <1>2

\* A set of subsets of a finite set has one with no other below it.
LEMMA SmallestSubset ==
  ASSUME NEW S, IsFiniteSet(S), NEW T, T \subseteq SUBSET S, T # {}
  PROVE  \E s \in T : \A t \in T : t \subseteq s => t = s
<1>1. PICK s \in T : \A t \in T : ~ (<<t, s>> \in StrictSubsetOrdering(S))
  BY FS_StrictSubsetOrderingWellFounded, FS_FiniteSubsetsOfFinite, WFMin
<1> QED  BY <1>1 DEF StrictSubsetOrdering

Pick(s) == CHOOSE x \in s : TRUE

\* g sums f over those sets of D that it is defined for.
Sums(g, f, D) ==
  g = [s \in D |-> IF s = {} THEN 0 ELSE f[Pick(s)] + g[s \ {Pick(s)}]]

LEMMA SumIs ==
  ASSUME NEW f, NEW S
  PROVE  SumFunctionOnSet(f, S) = (CHOOSE g : Sums(g, f, SUBSET S))[S]
BY DEF SumFunctionOnSet, FoldFunctionOnSet, MapThenFoldSet, Pick, Sums

\* The equation that defines a sum has a solution: one on the sets of n
\* elements at most gives one on those of n + 1.
LEMMA SumsExist ==
  ASSUME NEW f, NEW S, IsFiniteSet(S)
  PROVE  \E g : Sums(g, f, SUBSET S)
<1> DEFINE Level(n) == {s \in SUBSET S : Cardinality(s) <= n}
           Bad      == {n \in Nat : ~ \E g : Sums(g, f, Level(n))}
<1>1. \A s \in SUBSET S : IsFiniteSet(s) /\ Cardinality(s) \in Nat
                          /\ Cardinality(s) <= Cardinality(S)
                          /\ (Cardinality(s) = 0 <=> s = {})
  BY FS_Subset, FS_CardinalityType, FS_EmptySet
<1>2. Cardinality(S) \in Nat  BY <1>1
<1>3. ASSUME NEW s \in SUBSET S, s # {}
      PROVE  s \ {Pick(s)} \in SUBSET S
             /\ Cardinality(s \ {Pick(s)}) = Cardinality(s) - 1
  <2>1. Pick(s) \in s  BY <1>3 DEF Pick
  <2> QED  BY <1>1, <2>1, FS_RemoveElement
<1>4. Bad = {}
  <2> SUFFICES ASSUME Bad # {} PROVE FALSE
    OBVIOUS
  <2>1. PICK n \in Bad : \A m \in Bad : n <= m
    <3>1. Bad \subseteq Nat  OBVIOUS
    <3> HIDE DEF Bad
    <3> QED  BY <3>1, LeastNat
  <2>2. n # 0
    <3> SUFFICES ASSUME n = 0 PROVE \E g : Sums(g, f, Level(0))
      BY <2>1
    <3> DEFINE g == [s \in Level(0) |-> 0]
    <3>1. \A s \in Level(0) : s = {}
      BY <1>1
    <3>2. Sums(g, f, Level(0))
      BY <3>1 DEF Sums
    <3> QED  BY <3>2
  <2>3. n - 1 \in Nat /\ n - 1 \notin Bad
    <3>1. n \in Nat  OBVIOUS
    <3> HIDE DEF Bad
    <3> QED  BY <2>1, <2>2, <3>1
  <2>4. PICK h : Sums(h, f, Level(n - 1))
    BY <2>3
  <2> DEFINE g == [s \in Level(n) |->
                     IF s = {} THEN 0 ELSE f[Pick(s)] + h[s \ {Pick(s)}]]
  <2>5. \A s \in Level(n - 1) : s \in Level(n) /\ g[s] = h[s]
    <3> TAKE s \in Level(n - 1)
    <3>1. s \in Level(n)
      BY <1>1, <2>1
    <3>2. h[s] = IF s = {} THEN 0 ELSE f[Pick(s)] + h[s \ {Pick(s)}]
      BY <2>4 DEF Sums
    <3> QED  BY <3>1, <3>2
  <2>6. \A s \in Level(n) : s # {} => s \ {Pick(s)} \in Level(n - 1)
    BY <1>1, <1>3, <2>1
  <2>7. \A s \in Level(n) :
          g[s] = IF s = {} THEN 0 ELSE f[Pick(s)] + g[s \ {Pick(s)}]
    <3> TAKE s \in Level(n)
    <3>1. CASE s = {}  BY <3>1
    <3>2. CASE s # {}
      <4>1. g[s \ {Pick(s)}] = h[s \ {Pick(s)}]
        BY <2>5, <2>6, <3>2
      <4> QED  BY <3>2, <4>1
    <3> QED  BY <3>1, <3>2
  <2>8. Sums(g, f, Level(n))
    <3> HIDE DEF Level
    <3>1. g = [s \in Level(n) |-> g[s]]  OBVIOUS
    <3> HIDE DEF g
    <3> QED  BY <2>7, <3>1 DEF Sums
  <2> QED  BY <2>1, <2>8
<1>5. Level(Cardinality(S)) = SUBSET S
  BY <1>1
<1> QED  BY <1>2, <1>4, <1>5

Iter(f, S) == CHOOSE g : Sums(g, f, SUBSET S)

LEMMA IterSums ==
  ASSUME NEW f, NEW S, IsFiniteSet(S)
  PROVE  /\ \A s \in SUBSET S :
              Iter(f, S)[s] = IF s = {} THEN 0
                              ELSE f[Pick(s)] + Iter(f, S)[s \ {Pick(s)}]
         /\ SumFunctionOnSet(f, S) = Iter(f, S)[S]
<1>1. Sums(Iter(f, S), f, SUBSET S)
  BY SumsExist DEF Iter
<1>2. \A s \in SUBSET S : Iter(f, S)[s] = IF s = {} THEN 0
                              ELSE f[Pick(s)] + Iter(f, S)[s \ {Pick(s)}]
  BY <1>1 DEF Sums
<1> QED  BY <1>2, SumIs DEF Iter

\* The sum over a set and those within it are one function.
LEMMA IterAgree ==
  ASSUME NEW f, NEW g, NEW S, IsFiniteSet(S), NEW T, IsFiniteSet(T),
         NEW U \in SUBSET S, U \in SUBSET T, \A x \in U : f[x] = g[x]
  PROVE  Iter(f, S)[U] = Iter(g, T)[U]
<1> DEFINE Bad == {s \in SUBSET U : Iter(f, S)[s] # Iter(g, T)[s]}
<1> SUFFICES ASSUME Bad # {} PROVE FALSE
  OBVIOUS
<1>1. PICK s \in Bad : \A t \in Bad : t \subseteq s => t = s
  <2>1. Bad \subseteq SUBSET S  OBVIOUS
  <2> HIDE DEF Bad
  <2> QED  BY <2>1, SmallestSubset
<1>2. s \in SUBSET U /\ s \in SUBSET S /\ s \in SUBSET T
      /\ Iter(f, S)[s] # Iter(g, T)[s]
  OBVIOUS
<1>5. Iter(f, S)[s] = IF s = {} THEN 0
                      ELSE f[Pick(s)] + Iter(f, S)[s \ {Pick(s)}]
  <2>1. Sums(Iter(f, S), f, SUBSET S)
    BY SumsExist DEF Iter
  <2> HIDE DEF Bad
  <2> QED  BY <1>2, <2>1 DEF Sums
<1>6. Iter(g, T)[s] = IF s = {} THEN 0
                      ELSE g[Pick(s)] + Iter(g, T)[s \ {Pick(s)}]
  BY <1>2, IterSums
<1>3. CASE s = {}  BY <1>2, <1>3, <1>5, <1>6
<1>4. CASE s # {}
  <2>1. Pick(s) \in s /\ s \ {Pick(s)} \in SUBSET U /\ s \ {Pick(s)} # s
    BY <1>2, <1>4 DEF Pick
  <2>2. f[Pick(s)] = g[Pick(s)]
    BY <2>1
  <2>3. s \ {Pick(s)} \notin Bad
    BY <1>1, <1>2, <2>1
  <2>4. Iter(f, S)[s \ {Pick(s)}] = Iter(g, T)[s \ {Pick(s)}]
    BY <2>1, <2>3
  <2> QED  BY <1>2, <1>4, <1>5, <1>6, <2>2, <2>4
<1> QED  BY <1>3, <1>4

\* A sum depends on the values that are summed only.
LEMMA SumSame ==
  ASSUME NEW f, NEW g, NEW S, IsFiniteSet(S), \A x \in S : f[x] = g[x]
  PROVE  SumFunctionOnSet(f, S) = SumFunctionOnSet(g, S)
BY IterAgree, IterSums

LEMMA SumEmpty ==
  ASSUME NEW f
  PROVE  SumFunctionOnSet(f, {}) = 0
<1>1. IsFiniteSet({})  BY FS_EmptySet
<1> QED  BY <1>1, IterSums

LEMMA SumPick ==
  ASSUME NEW f, NEW S, IsFiniteSet(S), S # {}
  PROVE  /\ Pick(S) \in S
         /\ SumFunctionOnSet(f, S)
               = f[Pick(S)] + SumFunctionOnSet(f, S \ {Pick(S)})
<1> DEFINE T == S \ {Pick(S)}
<1>1. Pick(S) \in S  BY DEF Pick
<1>2. IsFiniteSet(T) /\ T \in SUBSET S /\ T \in SUBSET T
  BY FS_RemoveElement
<1>3. Iter(f, S)[T] = Iter(f, T)[T]
  BY <1>2, IterAgree
<1>4. SumFunctionOnSet(f, S) = Iter(f, S)[S] /\ SumFunctionOnSet(f, T) = Iter(f, T)[T]
  BY <1>2, IterSums
<1>5. Iter(f, S)[S] = f[Pick(S)] + Iter(f, S)[T]
  BY IterSums
<1> QED  BY <1>1, <1>3, <1>4, <1>5

\* Sums of integers are integers.
LEMMA SumInt ==
  ASSUME NEW f, NEW S, IsFiniteSet(S), \A x \in S : f[x] \in Int
  PROVE  SumFunctionOnSet(f, S) \in Int
<1> DEFINE Bad == {s \in SUBSET S : SumFunctionOnSet(f, s) \notin Int}
<1> SUFFICES ASSUME Bad # {} PROVE FALSE
  OBVIOUS
<1>1. PICK s \in Bad : \A t \in Bad : t \subseteq s => t = s
  <2>1. Bad \subseteq SUBSET S  OBVIOUS
  <2> HIDE DEF Bad
  <2> QED  BY <2>1, SmallestSubset
<1>2. s # {}  BY SumEmpty
<1>3. IsFiniteSet(s)  BY FS_Subset
<1>4. /\ Pick(s) \in s
      /\ SumFunctionOnSet(f, s) = f[Pick(s)] + SumFunctionOnSet(f, s \ {Pick(s)})
  BY <1>2, <1>3, SumPick
<1>5. SumFunctionOnSet(f, s \ {Pick(s)}) \in Int
  <2>1. s \ {Pick(s)} \in SUBSET S /\ s \ {Pick(s)} # s
    BY <1>4
  <2> QED  BY <1>1, <2>1
<1> QED  BY <1>4, <1>5

\* Whichever element is taken out, the rest and it are the sum.
LEMMA SumTake ==
  ASSUME NEW f, NEW S, IsFiniteSet(S), \A e \in S : f[e] \in Int, NEW x \in S
  PROVE  SumFunctionOnSet(f, S) = f[x] + SumFunctionOnSet(f, S \ {x})
<1> DEFINE Split(s, e) ==
             SumFunctionOnSet(f, s) = f[e] + SumFunctionOnSet(f, s \ {e})
           Bad == {s \in SUBSET S : \E e \in s : ~Split(s, e)}
<1> SUFFICES ASSUME Bad # {} PROVE FALSE
  OBVIOUS
<1>1. PICK s \in Bad : \A t \in Bad : t \subseteq s => t = s
  <2>1. Bad \subseteq SUBSET S  OBVIOUS
  <2> HIDE DEF Bad
  <2> QED  BY <2>1, SmallestSubset
<1>2. PICK y \in s : ~Split(s, y)
  OBVIOUS
<1> DEFINE p == Pick(s)
<1>3. s \in SUBSET S /\ IsFiniteSet(s) /\ s # {}
  BY <1>2, FS_Subset
<1>4. p \in s /\ Split(s, p)
  BY <1>3, SumPick
<1>5. p # y
  BY <1>2, <1>4
<1>6. ASSUME NEW e \in s, NEW d \in s, d # e
      PROVE  Split(s \ {d}, e)
  <2>1. s \ {d} \in SUBSET S /\ s \ {d} # s /\ e \in s \ {d}
    BY <1>3, <1>6
  <2>2. s \ {d} \notin Bad
    BY <1>1, <2>1
  <2> QED  BY <2>1, <2>2
<1> DEFINE rest == SumFunctionOnSet(f, (s \ {p}) \ {y})
<1>7. SumFunctionOnSet(f, s \ {p}) = f[y] + rest
  BY <1>2, <1>4, <1>5, <1>6
<1>8. SumFunctionOnSet(f, s \ {y}) = f[p] + rest
  <2>1. (s \ {y}) \ {p} = (s \ {p}) \ {y}
    OBVIOUS
  <2> QED  BY <1>2, <1>4, <1>5, <1>6, <2>1
<1>9. f[y] \in Int /\ f[p] \in Int /\ rest \in Int
  <2>1. IsFiniteSet((s \ {p}) \ {y}) /\ \A e \in (s \ {p}) \ {y} : f[e] \in Int
    BY <1>3, FS_RemoveElement
  <2> QED  BY <1>2, <1>3, <1>4, <2>1, SumInt
<1> HIDE DEF rest, p
<1>10. SumFunctionOnSet(f, s) = f[y] + SumFunctionOnSet(f, s \ {y})
  BY <1>4, <1>7, <1>8, <1>9 DEF Split
<1> QED  BY <1>2, <1>10

\* What changes at one place only.
LEMMA SumAt ==
  ASSUME NEW f, NEW g, NEW S, IsFiniteSet(S), NEW x \in S,
         \A e \in S : f[e] \in Int /\ g[e] \in Int,
         \A e \in S \ {x} : g[e] = f[e]
  PROVE  SumFunctionOnSet(g, S) = SumFunctionOnSet(f, S) - f[x] + g[x]
<1>1. IsFiniteSet(S \ {x})
  BY FS_RemoveElement
<1>2. SumFunctionOnSet(f, S \ {x}) = SumFunctionOnSet(g, S \ {x})
      /\ SumFunctionOnSet(f, S \ {x}) \in Int
  BY <1>1, SumSame, SumInt
<1>3. SumFunctionOnSet(f, S) = f[x] + SumFunctionOnSet(f, S \ {x})
  BY SumTake
<1>4. SumFunctionOnSet(g, S) = g[x] + SumFunctionOnSet(g, S \ {x})
  BY SumTake
<1> QED  BY <1>2, <1>3, <1>4

\* One term more.
LEMMA SumJoin ==
  ASSUME NEW f, NEW S, NEW x, IsFiniteSet(S), x \notin S,
         \A e \in S \cup {x} : f[e] \in Int
  PROVE  SumFunctionOnSet(f, S \cup {x}) = f[x] + SumFunctionOnSet(f, S)
<1> DEFINE T == S \cup {x}
<1>1. IsFiniteSet(T) /\ x \in T /\ T \ {x} = S /\ \A e \in T : f[e] \in Int
  BY FS_AddElement
<1> QED  BY <1>1, SumTake

\* The sum of the differences is the difference of the sums.
LEMMA SumMinus ==
  ASSUME NEW f, NEW g, NEW h, NEW S, IsFiniteSet(S),
         \A e \in S : f[e] \in Int /\ g[e] \in Int /\ h[e] = f[e] - g[e]
  PROVE  SumFunctionOnSet(h, S) = SumFunctionOnSet(f, S) - SumFunctionOnSet(g, S)
<1> DEFINE Bad == {s \in SUBSET S : SumFunctionOnSet(h, s)
                       # SumFunctionOnSet(f, s) - SumFunctionOnSet(g, s)}
<1> SUFFICES ASSUME Bad # {} PROVE FALSE
  OBVIOUS
<1>1. PICK s \in Bad : \A t \in Bad : t \subseteq s => t = s
  <2>1. Bad \subseteq SUBSET S  OBVIOUS
  <2> HIDE DEF Bad
  <2> QED  BY <2>1, SmallestSubset
<1>2. s \in SUBSET S /\ SumFunctionOnSet(h, s)
                       # SumFunctionOnSet(f, s) - SumFunctionOnSet(g, s)
  OBVIOUS
<1>3. s # {}
  <2>1. SumFunctionOnSet(f, {}) = 0 /\ SumFunctionOnSet(g, {}) = 0
        /\ SumFunctionOnSet(h, {}) = 0
    BY SumEmpty
  <2>2. 0 = 0 - 0
    OBVIOUS
  <2> QED  BY <1>2, <2>1, <2>2
<1>4. IsFiniteSet(s)
  BY <1>2, FS_Subset
<1> DEFINE p == Pick(s)
           t == s \ {p}
<1>5. /\ p \in s
      /\ SumFunctionOnSet(f, s) = f[p] + SumFunctionOnSet(f, t)
      /\ SumFunctionOnSet(g, s) = g[p] + SumFunctionOnSet(g, t)
      /\ SumFunctionOnSet(h, s) = h[p] + SumFunctionOnSet(h, t)
  BY <1>3, <1>4, SumPick
<1>6. t \in SUBSET S /\ t # s /\ IsFiniteSet(t)
  BY <1>2, <1>4, <1>5, FS_RemoveElement
<1>7. SumFunctionOnSet(h, t) = SumFunctionOnSet(f, t) - SumFunctionOnSet(g, t)
  <2>1. t \notin Bad
    BY <1>1, <1>6
  <2> QED  BY <1>6, <2>1
<1>8. SumFunctionOnSet(f, t) \in Int /\ SumFunctionOnSet(g, t) \in Int
  BY <1>6, SumInt
<1> HIDE DEF p, t
<1>9. f[p] \in Int /\ g[p] \in Int /\ h[p] = f[p] - g[p]
  BY <1>2, <1>5
<1> QED  BY <1>2, <1>5, <1>7, <1>8, <1>9

\* Terms that are zero add nothing.
LEMMA SumZero ==
  ASSUME NEW f, NEW S, IsFiniteSet(S), \A e \in S : f[e] = 0
  PROVE  SumFunctionOnSet(f, S) = 0
<1>1. SumFunctionOnSet(f, S) = SumFunctionOnSet(f, S) - SumFunctionOnSet(f, S)
  BY SumMinus
<1>2. SumFunctionOnSet(f, S) \in Int
  BY SumInt
<1> QED  BY <1>1, <1>2

LEMMA SumWithin ==
  ASSUME NEW f, NEW S, IsFiniteSet(S), NEW T \in SUBSET S,
         \A e \in S : f[e] \in Int, \A e \in S \ T : f[e] = 0
  PROVE  SumFunctionOnSet(f, S) = SumFunctionOnSet(f, T)
<1> DEFINE Bad == {s \in SUBSET (S \ T) : SumFunctionOnSet(f, T \cup s)
                                            # SumFunctionOnSet(f, T)}
<1>1. Bad = {}
  <2> SUFFICES ASSUME Bad # {} PROVE FALSE
    OBVIOUS
  <2>1. PICK s \in Bad : \A t \in Bad : t \subseteq s => t = s
    <3>1. Bad \subseteq SUBSET S  OBVIOUS
    <3> HIDE DEF Bad
    <3> QED  BY <3>1, SmallestSubset
  <2>2. s \in SUBSET (S \ T)
        /\ SumFunctionOnSet(f, T \cup s) # SumFunctionOnSet(f, T)
    OBVIOUS
  <2>3. s # {}
    <3>1. T \cup {} = T  OBVIOUS
    <3> QED  BY <2>2, <3>1
  <2>4. PICK x : x \in s
    BY <2>3
  <2>5. SumFunctionOnSet(f, T \cup (s \ {x})) = SumFunctionOnSet(f, T)
    <3>1. s \ {x} \in SUBSET (S \ T) /\ s \ {x} # s
      BY <2>2, <2>4
    <3>2. s \ {x} \notin Bad
      BY <2>1, <3>1
    <3> QED  BY <3>1, <3>2
  <2>6. T \cup s \in SUBSET S /\ x \in T \cup s /\ f[x] = 0
    BY <2>2, <2>4
  <2>7. IsFiniteSet(T \cup s) /\ \A e \in T \cup s : f[e] \in Int
    BY <2>6, FS_Subset
  <2>8. SumFunctionOnSet(f, T \cup s) = f[x] + SumFunctionOnSet(f, (T \cup s) \ {x})
    BY <2>6, <2>7, SumTake
  <2>9. (T \cup s) \ {x} = T \cup (s \ {x})
    BY <2>2, <2>4
  <2>10. SumFunctionOnSet(f, T) \in Int
    BY FS_Subset, SumInt
  <2>11. SumFunctionOnSet(f, T \cup s) = 0 + SumFunctionOnSet(f, T)
    BY <2>5, <2>6, <2>8, <2>9
  <2> QED  BY <2>2, <2>10, <2>11
<1>2. S \ T \notin Bad
  BY <1>1
<1>3. T \cup (S \ T) = S
  OBVIOUS
<1> QED  BY <1>2, <1>3

-----------------------------------------------------------------------------
(* Lemmas about the helpers *)

\* A new tracking row is one.
LEMMA NewCreditType ==
  ASSUME NEW c \in Companies, NEW kind \in {"prepayment", "negative", "transfer"},
         NEW source \in InvoiceIds \cup {NoInvoice}, NEW amount \in Nat \ {0},
         NEW expires \in Dates
  PROVE  NewCredit(c, kind, source, amount, expires) \in Credit
BY DEF NewCredit, Credit

\* An emptied row is one, and what it has left is all that it lost.
LEMMA EmptiedType ==
  ASSUME NEW row \in Credit
  PROVE  /\ Emptied(row) \in Credit
         /\ Emptied(row).remaining = 0
         /\ Emptied(row).company = row.company /\ Emptied(row).kind = row.kind
         /\ Emptied(row).amount = row.amount /\ Emptied(row).source = row.source
<1>1. 0 \in Int
  OBVIOUS
<1>. QED BY <1>1 DEF Emptied, Credit

\* Writing an invoice's totals again touches nothing else.
LEMMA TotalsAlone ==
  ASSUME NEW i, NEW subtotal, NEW tax,
         EditInvoice(i, subtotal, tax) \/ FillCycleInvoice(i, subtotal, tax)
  PROVE  UNCHANGED <<now, balance, credit, issued, txSum, job, moved>>
<1>1. CASE EditInvoice(i, subtotal, tax)
  BY <1>1 DEF EditInvoice
<1>2. CASE FillCycleInvoice(i, subtotal, tax)
  BY <1>2 DEF FillCycleInvoice
<1>. QED BY <1>1, <1>2

\* A row that exists is an invoice, and an id of InvoiceIds.
LEMMA InvoiceRow ==
  ASSUME TypeOK, NEW i \in DOMAIN invoice
  PROVE  /\ i \in InvoiceIds
         /\ invoice[i] \in Invoice
BY DEF TypeOK

\* A process that is not idle holds the fields of a job.
LEMMA JobFields ==
  ASSUME TypeOK, NEW p \in Callers, job[p] # Idle
  PROVE  job[p] \in Job
BY DEF TypeOK

\* What rows have left adds up to an integer.
LEMMA RemainingInt ==
  ASSUME TypeOK, NEW S \in SUBSET DOMAIN credit
  PROVE  RemainingIn(S) \in Int
<1>. DEFINE left == [e \in S |-> credit[e].remaining]
<1>1. IsFiniteSet(S)
  BY LedgerAssumption, FS_Subset DEF TypeOK
<1>2. \A e \in S : left[e] \in Int
  BY DEF TypeOK, Credit
<1>. QED BY <1>1, <1>2, SumInt DEF RemainingIn, SumFunction

\* Counting a rare operation keeps the counters natural numbers.
LEMMA OnceType ==
  ASSUME TypeOK, NEW kind \in Rare, Once(kind)
  PROVE  spent' \in [Rare -> Nat] /\ spent' = [spent EXCEPT ![kind] = @ + 1]
<1>1. spent \in [Rare -> Nat] /\ spent' = [spent EXCEPT ![kind] = @ + 1]
  BY DEF TypeOK, Once
<1>. QED BY <1>1

-----------------------------------------------------------------------------
(* Types *)

\* The initial state has the types.
LEMMA TypeInit == Init => TypeOK
BY LedgerAssumption DEF Init, TypeOK

\* Creating, filling and editing invoices keeps the types.
LEMMA TypeInvoicing ==
  ASSUME TypeOK, Invoicing
  PROVE  TypeOK'
<1>. PICK i \in InvoiceIds, c \in Companies :
       \/ \E amount \in Amounts, expires \in ExpiryDates :
            CreatePrepaymentInvoice(i, c, amount, expires)
       \/ \E kind \in {"cycle", "manual"}, subtotal \in Totals, tax \in Taxes :
            GenerateInvoice(i, c, kind, subtotal, tax)
       \/ InsertCycleInvoice(i, c)
  BY DEF Invoicing
<1>1. ASSUME NEW kind \in {"prepayment", "manual", "cycle"}, NEW subtotal \in Int,
             NEW tax \in Nat, NewInvoice(i, c, kind, subtotal, tax)
      PROVE  /\ invoice' \in [DOMAIN invoice' -> Invoice]
             /\ DOMAIN invoice' \subseteq DOMAIN moved'
             /\ DOMAIN moved' \subseteq InvoiceIds
             /\ moved' \in [DOMAIN moved' -> [company : Companies, amount : Int]]
  <2>. DEFINE row == [company |-> c, kind |-> kind, subtotal |-> subtotal,
                      tax |-> tax, total |-> subtotal + tax, applied |-> 0,
                      allocated |-> 0, finalized |-> FALSE, filled |-> TRUE,
                      offered |-> subtotal + tax, rewritten |-> FALSE]
              moving == [company |-> c, amount |-> 0]
  <2>1. row \in Invoice /\ moving \in [company : Companies, amount : Int]
    BY DEF Invoice
  <2>2. invoice' = Put(invoice, i, row) /\ moved' = Put(moved, i, moving)
    BY <1>1 DEF NewInvoice
  <2>. HIDE DEF row, moving
  <2>3. /\ invoice' \in [DOMAIN invoice' -> Invoice]
        /\ DOMAIN invoice' = DOMAIN invoice \cup {i}
    BY <2>1, <2>2 DEF Put, TypeOK
  <2>4. /\ moved' \in [DOMAIN moved' -> [company : Companies, amount : Int]]
        /\ DOMAIN moved' = DOMAIN moved \cup {i}
    BY <2>1, <2>2 DEF Put, TypeOK
  <2>. QED BY <2>3, <2>4 DEF TypeOK
<1>2. ASSUME NEW amount \in Amounts, NEW expires \in ExpiryDates,
             CreatePrepaymentInvoice(i, c, amount, expires)
      PROVE  TypeOK'
  <2>1. amount \in Int /\ amount \in Nat \ {0} /\ expires \in Dates
    BY LedgerAssumption
  <2>. DEFINE row == NewCredit(c, "prepayment", i, amount, expires)
  <2>2. row \in Credit
    BY <2>1, NewCreditType
  <2>. HIDE DEF row
  <2>3. /\ issued' = issued + 1 /\ issued' \in CreditIds
        /\ credit' = Put(credit, issued', row)
    BY <1>2 DEF CreatePrepaymentInvoice, Issue, row
  <2>4. /\ DOMAIN credit' \subseteq CreditIds
        /\ credit' \in [DOMAIN credit' -> Credit]
        /\ issued' \in Nat
        /\ \A e \in DOMAIN credit' : e <= issued'
    BY <2>2, <2>3, LedgerAssumption DEF TypeOK, Put
  <2>5. NewInvoice(i, c, "prepayment", amount, 0)
    BY <1>2 DEF CreatePrepaymentInvoice
  <2>6. txSum' \in [Companies -> Int] /\ UNCHANGED <<now, balance, job, spent>>
    BY <1>2, <2>1 DEF CreatePrepaymentInvoice, TypeOK
  <2>. QED BY <2>1, <2>4, <2>5, <2>6, <1>1 DEF TypeOK
<1>3. ASSUME NEW kind \in {"cycle", "manual"}, NEW subtotal \in Totals,
             NEW tax \in Taxes, GenerateInvoice(i, c, kind, subtotal, tax)
      PROVE  TypeOK'
  <2>1. subtotal \in Int /\ tax \in Nat
    BY LedgerAssumption
  <2>. QED BY <1>1, <1>3, <2>1 DEF GenerateInvoice, TypeOK
<1>4. CASE InsertCycleInvoice(i, c)
  <2>. DEFINE row == [company |-> c, kind |-> "cycle", subtotal |-> 0, tax |-> 0,
                      total |-> 0, applied |-> 0, allocated |-> 0,
                      finalized |-> FALSE, filled |-> FALSE, offered |-> 0,
                      rewritten |-> FALSE]
              moving == [company |-> c, amount |-> 0]
  <2>1. row \in Invoice /\ moving \in [company : Companies, amount : Int]
    BY DEF Invoice
  <2>2. invoice' = Put(invoice, i, row) /\ moved' = Put(moved, i, moving)
    BY <1>4 DEF InsertCycleInvoice
  <2>. HIDE DEF row, moving
  <2>3. /\ invoice' \in [DOMAIN invoice' -> Invoice]
        /\ DOMAIN invoice' = DOMAIN invoice \cup {i}
    BY <2>1, <2>2 DEF Put, TypeOK
  <2>4. /\ moved' \in [DOMAIN moved' -> [company : Companies, amount : Int]]
        /\ DOMAIN moved' = DOMAIN moved \cup {i}
    BY <2>1, <2>2 DEF Put, TypeOK
  <2>5. spent' \in [Rare -> Nat]
    BY <1>4, OnceType DEF InsertCycleInvoice, Rare
  <2>. QED BY <1>4, <2>3, <2>4, <2>5 DEF InsertCycleInvoice, TypeOK
<1>. QED BY <1>2, <1>3, <1>4

\* Applying credit keeps the types.
LEMMA ApplyType ==
  ASSUME TypeOK, NEW i \in DOMAIN invoice, NEW c \in Companies, NEW request,
         ApplyTo(i, c, request)
  PROVE  /\ balance' \in [Companies -> Int]
         /\ txSum' \in [Companies -> Int]
         /\ invoice' \in [DOMAIN invoice' -> Invoice]
         /\ DOMAIN invoice' = DOMAIN invoice
         /\ credit' \in [DOMAIN credit' -> Credit]
         /\ DOMAIN credit' = DOMAIN credit
<1>1. PICK total \in 1 .. Capped(i, request) : \E d \in Draws(c, total) :
        LET Last(e) == d[e] > 0 /\ \A f \in Usable(c) : Before(e, f) => d[f] = 0
        IN /\ credit' = [e \in DOMAIN credit |->
                          IF e \in Usable(c)
                          THEN [credit[e] EXCEPT
                                  !.remaining = @ - d[e],
                                  !.used = IF Last(e) THEN @ + total ELSE @]
                          ELSE credit[e]]
           /\ balance' = [balance EXCEPT ![c] = @ - total]
           /\ txSum' = [txSum EXCEPT ![c] = @ - 2 * total]
           /\ invoice' = [invoice EXCEPT
                             ![i].applied = @ + total, ![i].allocated = @ + total,
                             ![i].total = @ - total,
                             ![i].offered = Looser(@, invoice[i].total - total)]
  BY DEF ApplyTo
<1>2. total \in Nat
  OBVIOUS
<1>. HIDE DEF Capped
<1>3. balance' \in [Companies -> Int] /\ txSum' \in [Companies -> Int]
  <2>1. balance \in [Companies -> Int] /\ txSum \in [Companies -> Int]
    BY DEF TypeOK
  <2>2. /\ balance' = [balance EXCEPT ![c] = @ - total]
        /\ txSum' = [txSum EXCEPT ![c] = @ - 2 * total]
    BY <1>1
  <2>. QED BY <1>2, <2>1, <2>2
<1>4. /\ invoice' \in [DOMAIN invoice' -> Invoice]
      /\ DOMAIN invoice' = DOMAIN invoice
  <2>1. invoice \in [DOMAIN invoice -> Invoice]
    BY DEF TypeOK
  <2>2. invoice' = [invoice EXCEPT
                      ![i].applied = @ + total, ![i].allocated = @ + total,
                      ![i].total = @ - total,
                      ![i].offered = Looser(@, invoice[i].total - total)]
    BY <1>1
  <2>3. [invoice[i] EXCEPT !.applied = @ + total, !.allocated = @ + total,
                           !.total = @ - total,
                           !.offered = Looser(@, invoice[i].total - total)] \in Invoice
    <3>1. invoice[i] \in Invoice
      BY <2>1
    <3>2. /\ invoice[i].applied + total \in Nat /\ invoice[i].allocated + total \in Nat
          /\ invoice[i].total - total \in Int
          /\ Looser(invoice[i].offered, invoice[i].total - total) \in Int
      BY <1>2, <3>1 DEF Invoice, Looser
    <3>. QED BY <3>1, <3>2 DEF Invoice
  <2>. QED BY <2>1, <2>2, <2>3
<1>5. /\ credit' \in [DOMAIN credit' -> Credit]
      /\ DOMAIN credit' = DOMAIN credit
  <2>1. PICK d \in Draws(c, total) :
          LET Last(e) == d[e] > 0 /\ \A f \in Usable(c) : Before(e, f) => d[f] = 0
          IN credit' = [e \in DOMAIN credit |->
                          IF e \in Usable(c)
                          THEN [credit[e] EXCEPT
                                  !.remaining = @ - d[e],
                                  !.used = IF Last(e) THEN @ + total ELSE @]
                          ELSE credit[e]]
    BY <1>1
  <2>2. DOMAIN credit' = DOMAIN credit
    BY <2>1
  <2>3. ASSUME NEW e \in DOMAIN credit
        PROVE  credit'[e] \in Credit
    <3>1. credit[e] \in Credit
      BY DEF TypeOK
    <3>2. CASE e \notin Usable(c)
      BY <2>1, <3>1, <3>2
    <3>3. CASE e \in Usable(c)
      <4>1. d[e] \in Nat
        BY <1>2, <3>3 DEF Draws
      <4>2. \E last \in BOOLEAN : credit'[e] =
              [credit[e] EXCEPT !.remaining = @ - d[e],
                                !.used = IF last THEN @ + total ELSE @]
        BY <2>1, <3>3, Zenon
      <4>3. PICK last \in BOOLEAN : credit'[e] =
              [credit[e] EXCEPT !.remaining = @ - d[e],
                                !.used = IF last THEN @ + total ELSE @]
        BY <4>2
      <4>4. /\ credit[e].remaining - d[e] \in Int
            /\ (IF last THEN credit[e].used + total ELSE credit[e].used) \in Nat
        BY <1>2, <3>1, <4>1 DEF Credit
      <4>. QED BY <3>1, <4>3, <4>4 DEF Credit
    <3>. QED BY <3>2, <3>3
  <2>. QED BY <2>2, <2>3, <2>1
<1>. QED BY <1>3, <1>4, <1>5

\* The operations on existing invoices keep the types.
LEMMA TypeChanging ==
  ASSUME TypeOK, Changing
  PROVE  TypeOK'
<1>. PICK i \in InvoiceIds :
       \/ \E subtotal \in Totals, tax \in Taxes :
            EditInvoice(i, subtotal, tax) \/ FillCycleInvoice(i, subtotal, tax)
       \/ \E request \in Amounts : ApplyCreditToInvoice(i, request)
       \/ UnfinalizeInvoice(i)
       \/ HardDeleteInvoice(i)
  BY DEF Changing
<1>1. ASSUME NEW subtotal \in Totals, NEW tax \in Taxes, EditInvoice(i, subtotal, tax)
      PROVE  TypeOK'
  <2>1. i \in DOMAIN invoice /\ spent' \in [Rare -> Nat]
    BY <1>1, OnceType DEF EditInvoice, Rare
  <2>2. /\ subtotal \in Int /\ tax \in Nat /\ subtotal + tax \in Int
        /\ invoice[i] \in Invoice
        /\ Looser(invoice[i].offered, subtotal + tax) \in Int
    <3>1. subtotal \in Int /\ tax \in Nat
      BY LedgerAssumption
    <3>2. invoice[i] \in Invoice
      BY <2>1, InvoiceRow
    <3>3. Looser(invoice[i].offered, subtotal + tax) \in Int
      BY <3>1, <3>2 DEF Looser, Invoice
    <3>. QED BY <3>1, <3>2, <3>3
  <2>3. [invoice[i] EXCEPT !.subtotal = subtotal, !.tax = tax,
                           !.total = subtotal + tax,
                           !.offered = Looser(@, subtotal + tax),
                           !.rewritten = TRUE] \in Invoice
    BY <2>2 DEF Invoice
  <2>4. invoice' \in [DOMAIN invoice' -> Invoice] /\ DOMAIN invoice' = DOMAIN invoice
    BY <1>1, <2>3 DEF EditInvoice, TypeOK
  <2>. QED BY <1>1, <2>1, <2>4 DEF EditInvoice, TypeOK
<1>2. ASSUME NEW subtotal \in Totals, NEW tax \in Taxes, FillCycleInvoice(i, subtotal, tax)
      PROVE  TypeOK'
  <2>1. i \in DOMAIN invoice
    BY <1>2 DEF FillCycleInvoice
  <2>2. /\ subtotal \in Int /\ tax \in Nat /\ subtotal + tax \in Int
        /\ invoice[i] \in Invoice
        /\ Looser(invoice[i].offered, subtotal + tax) \in Int
    <3>1. subtotal \in Int /\ tax \in Nat
      BY LedgerAssumption
    <3>2. invoice[i] \in Invoice
      BY <2>1, InvoiceRow
    <3>3. Looser(invoice[i].offered, subtotal + tax) \in Int
      BY <3>1, <3>2 DEF Looser, Invoice
    <3>. QED BY <3>1, <3>2, <3>3
  <2>3. [invoice[i] EXCEPT !.subtotal = subtotal, !.tax = tax,
                           !.total = subtotal + tax, !.applied = 0,
                           !.filled = TRUE,
                           !.offered = Looser(@, subtotal + tax),
                           !.rewritten = TRUE] \in Invoice
    BY <2>2 DEF Invoice
  <2>4. invoice' \in [DOMAIN invoice' -> Invoice] /\ DOMAIN invoice' = DOMAIN invoice
    BY <1>2, <2>3 DEF FillCycleInvoice, TypeOK
  <2>. QED BY <1>2, <2>4 DEF FillCycleInvoice, TypeOK
<1>3. ASSUME NEW request \in Amounts, ApplyCreditToInvoice(i, request)
      PROVE  TypeOK'
  <2>1. i \in DOMAIN invoice /\ ApplyTo(i, invoice[i].company, request)
    BY <1>3 DEF ApplyCreditToInvoice
  <2>2. invoice[i].company \in Companies
    BY <2>1, InvoiceRow DEF Invoice
  <2>3. UNCHANGED <<now, issued, job, moved, spent>>
    BY <1>3 DEF ApplyCreditToInvoice
  <2>. QED BY <2>1, <2>2, <2>3, ApplyType DEF TypeOK
<1>4. CASE UnfinalizeInvoice(i)
  <2>1. i \in DOMAIN invoice /\ spent' \in [Rare -> Nat]
    BY <1>4, OnceType DEF UnfinalizeInvoice, Finalized, Rare
  <2>2. [invoice[i] EXCEPT !.finalized = FALSE] \in Invoice
    BY <2>1, InvoiceRow DEF Invoice
  <2>3. invoice' \in [DOMAIN invoice' -> Invoice] /\ DOMAIN invoice' = DOMAIN invoice
    BY <1>4, <2>2 DEF UnfinalizeInvoice, TypeOK
  <2>. QED BY <1>4, <2>1, <2>3 DEF UnfinalizeInvoice, TypeOK
<1>5. CASE HardDeleteInvoice(i)
  <2>1. i \in DOMAIN invoice /\ i \in DOMAIN moved
    BY <1>5 DEF HardDeleteInvoice, TypeOK
  <2>2. invoice[i].company \in Companies
    BY <2>1, InvoiceRow DEF Invoice
  <2>3. /\ Drop(invoice, i) \in [DOMAIN Drop(invoice, i) -> Invoice]
        /\ DOMAIN Drop(invoice, i) \subseteq DOMAIN invoice
    <3>1. invoice \in [DOMAIN invoice -> Invoice]
      BY DEF TypeOK
    <3>. QED BY <3>1 DEF Drop
  <2>4. spent' \in [Rare -> Nat]
    <3>1. \/ Once("delete")
          \/ spent' = [spent EXCEPT !["delete"] = @ + 1]
          \/ spent' = [spent EXCEPT !["delete"] = @ + 1, !["crash"] = @ + 1]
      BY <1>5 DEF HardDeleteInvoice
    <3>. QED BY <3>1, OnceType DEF TypeOK, Rare
  <2>5. UNCHANGED <<now, issued, job>>
    BY <1>5 DEF HardDeleteInvoice
  <2>6. CASE invoice' = Drop(invoice, i) /\ UNCHANGED <<balance, credit, txSum, moved>>
    BY <2>3, <2>4, <2>5, <2>6 DEF TypeOK
  <2>7. ASSUME NEW e \in DOMAIN credit,
               balance' = [balance EXCEPT ![invoice[i].company] = @ - credit[e].amount],
               \/ /\ invoice' = Drop(invoice, i)
                  /\ credit' = Drop(credit, e)
                  /\ txSum' = [txSum EXCEPT ![invoice[i].company] = @ - credit[e].amount]
                  /\ UNCHANGED moved
               \/ /\ moved' = [moved EXCEPT ![i].amount = @ - credit[e].amount]
                  /\ UNCHANGED <<invoice, credit, txSum>>
        PROVE  TypeOK'
    <3>1. credit[e].amount \in Nat
      BY DEF TypeOK, Credit
    <3>2. balance' \in [Companies -> Int]
      BY <2>2, <2>7, <3>1 DEF TypeOK
    <3>3. CASE /\ invoice' = Drop(invoice, i)
               /\ credit' = Drop(credit, e)
               /\ txSum' = [txSum EXCEPT ![invoice[i].company] = @ - credit[e].amount]
               /\ UNCHANGED moved
      <4>1. txSum' \in [Companies -> Int]
        BY <2>2, <3>1, <3>3 DEF TypeOK
      <4>2. /\ credit' \in [DOMAIN credit' -> Credit]
            /\ DOMAIN credit' \subseteq DOMAIN credit
        <5>1. credit \in [DOMAIN credit -> Credit]
          BY DEF TypeOK
        <5>. QED BY <3>3, <5>1 DEF Drop
      <4>. QED BY <2>3, <2>4, <2>5, <3>2, <3>3, <4>1, <4>2 DEF TypeOK
    <3>4. CASE /\ moved' = [moved EXCEPT ![i].amount = @ - credit[e].amount]
               /\ UNCHANGED <<invoice, credit, txSum>>
      <4>1. /\ moved' \in [DOMAIN moved' -> [company : Companies, amount : Int]]
            /\ DOMAIN moved' = DOMAIN moved
        BY <2>1, <3>1, <3>4 DEF TypeOK
      <4>. QED BY <2>4, <2>5, <3>2, <3>4, <4>1 DEF TypeOK
    <3>. QED BY <2>7, <3>3, <3>4
  <2>8. \/ invoice' = Drop(invoice, i) /\ UNCHANGED <<balance, credit, txSum, moved>>
        \/ \E e \in DOMAIN credit :
             /\ balance' = [balance EXCEPT ![invoice[i].company] = @ - credit[e].amount]
             /\ \/ /\ invoice' = Drop(invoice, i)
                   /\ credit' = Drop(credit, e)
                   /\ txSum' = [txSum EXCEPT ![invoice[i].company] = @ - credit[e].amount]
                   /\ UNCHANGED moved
                \/ /\ moved' = [moved EXCEPT ![i].amount = @ - credit[e].amount]
                   /\ UNCHANGED <<invoice, credit, txSum>>
    BY <1>5, Zenon DEF HardDeleteInvoice, IssuedBy
  <2>. QED BY <2>6, <2>7, <2>8
<1>. QED BY <1>1, <1>2, <1>3, <1>4, <1>5

\* The stages of a finalization keep the types.
LEMMA TypeFinalizing ==
  ASSUME TypeOK, Finalizing
  PROVE  TypeOK'
<1>. PICK p \in Callers :
       (\E i \in InvoiceIds : FinalizeMark(p, i)) \/ FinalizeStep(p) \/ Crash(p)
  BY DEF Finalizing
<1>1. Finish(p) => job' \in [Callers -> Job \cup {Idle}]
  BY DEF Finish, TypeOK
<1>2. ASSUME NEW i \in InvoiceIds, FinalizeMark(p, i)
      PROVE  TypeOK'
  <2>1. i \in DOMAIN invoice
    BY <1>2 DEF FinalizeMark, MayFinalize
  <2>2. invoice[i] \in Invoice
    BY <2>1, InvoiceRow
  <2>3. [invoice[i] EXCEPT !.finalized = TRUE] \in Invoice
    BY <2>2 DEF Invoice
  <2>4. invoice' \in [DOMAIN invoice' -> Invoice] /\ DOMAIN invoice' = DOMAIN invoice
    BY <1>2, <2>3 DEF FinalizeMark, TypeOK
  <2>. DEFINE stage == StageAfter(invoice[i])
              amount == CASE stage = "prepayment" -> invoice[i].subtotal
                          [] stage = "negative"   -> -invoice[i].total
                          [] stage = "regular"    -> 0
  <2>5. stage \in {"prepayment", "negative", "regular"}
    BY <2>2 DEF StageAfter, Invoice
  <2>6. amount \in Int /\ (stage = "negative" => amount > 0)
    BY <2>2, <2>5 DEF Invoice, StageAfter
  <2>7. job' = [job EXCEPT ![p] =
          [stage |-> stage, inv |-> i, company |-> invoice[i].company,
           amount |-> amount]]
    BY <1>2 DEF FinalizeMark
  <2>8. UNCHANGED <<now, balance, credit, issued, txSum, moved, spent>>
    BY <1>2 DEF FinalizeMark
  <2>. HIDE DEF stage, amount
  <2>9. job' \in [Callers -> Job \cup {Idle}]
    BY <2>2, <2>5, <2>6, <2>7 DEF TypeOK, Job, Jobs, Stages, Invoice
  <2>. QED BY <2>4, <2>8, <2>9 DEF TypeOK
<1>3. ASSUME job[p] # Idle, FinalizeStep(p)
      PROVE  TypeOK'
  <2>1. /\ job[p].inv \in InvoiceIds
        /\ job[p].company \in Companies
        /\ job[p].amount \in Int
    BY <1>3, JobFields DEF Job, Jobs
  <2>7. ASSUME NEW stage \in {"read", "apply"}, NEW amount \in Int,
               Continue(p, stage, amount)
        PROVE  job' \in [Callers -> Job \cup {Idle}]
    <3>1. job[p] \in Jobs
      BY <1>3, JobFields DEF Job
    <3>2. [job[p] EXCEPT !.stage = stage, !.amount = amount] \in Job
      BY <3>1 DEF Job, Jobs, Stages
    <3>. QED BY <2>7, <3>2 DEF Continue, TypeOK
  <2>2. CASE FinalizePrepayment(p)
    <3>1. balance' \in [Companies -> Int]
      BY <2>1, <2>2 DEF FinalizePrepayment, TypeOK
    <3>2. /\ moved' \in [DOMAIN moved' -> [company : Companies, amount : Int]]
          /\ DOMAIN moved' = DOMAIN moved
      <4>1. moved \in [DOMAIN moved -> [company : Companies, amount : Int]]
        BY DEF TypeOK
      <4>2. moved' = [moved EXCEPT ![job[p].inv].amount = @ + job[p].amount]
        BY <2>2 DEF FinalizePrepayment
      <4>3. ASSUME NEW i \in DOMAIN moved
            PROVE  [moved[i] EXCEPT !.amount = @ + job[p].amount]
                     \in [company : Companies, amount : Int]
        BY <2>1, <4>1
      <4>. QED BY <4>1, <4>2, <4>3
    <3>. QED BY <1>1, <2>2, <3>1, <3>2 DEF FinalizePrepayment, TypeOK
  <2>3. ASSUME NEW expires \in ExpiryDates, FinalizeNegative(p, expires)
        PROVE  TypeOK'
    <3>. DEFINE j == job[p]
                row == NewCredit(j.company, "negative", j.inv, j.amount, expires)
    <3>4. \/ UNCHANGED <<credit, issued, balance, txSum>>
          \/ /\ Issue(issued + 1, row)
             /\ balance' = [balance EXCEPT ![j.company] = @ + j.amount]
             /\ txSum' = [txSum EXCEPT ![j.company] = @ + j.amount]
      BY <2>3, Zenon DEF FinalizeNegative
    <3>1. job' \in [Callers -> Job \cup {Idle}] /\ UNCHANGED <<now, invoice, moved, spent>>
      BY <1>1, <2>3 DEF FinalizeNegative
    <3>2. CASE UNCHANGED <<credit, issued, balance, txSum>>
      BY <3>1, <3>2 DEF TypeOK
    <3>3. CASE /\ Issue(issued + 1, row)
               /\ balance' = [balance EXCEPT ![j.company] = @ + j.amount]
               /\ txSum' = [txSum EXCEPT ![j.company] = @ + j.amount]
      <4>1. balance' \in [Companies -> Int] /\ txSum' \in [Companies -> Int]
        BY <2>1, <3>3 DEF TypeOK
      <4>2. j.amount \in Nat \ {0}
        BY <2>3, JobFields, <1>3 DEF FinalizeNegative, At, Job, Jobs
      <4>3. row \in Credit
        BY <2>1, <4>2, LedgerAssumption, NewCreditType
      <4>. HIDE DEF row
      <4>4. /\ DOMAIN credit' \subseteq CreditIds
            /\ credit' \in [DOMAIN credit' -> Credit]
            /\ issued' \in Nat
            /\ \A e \in DOMAIN credit' : e <= issued'
        BY <3>3, <4>3, LedgerAssumption DEF Issue, Put, TypeOK
      <4>. QED BY <3>1, <4>1, <4>4 DEF TypeOK
    <3>. QED BY <3>2, <3>3, <3>4
  <2>4. CASE FinalizeReadCredit(p)
    <3>1. balance[job[p].company] \in Int
      BY <2>1 DEF TypeOK
    <3>2. job' \in [Callers -> Job \cup {Idle}]
      BY <1>1, <2>4, <3>1, <2>7 DEF FinalizeReadCredit
    <3>. QED BY <2>4, <3>2 DEF FinalizeReadCredit, TypeOK
  <2>5. CASE FinalizeReadInvoice(p)
    <3>. DEFINE i == job[p].inv
    <3>1. CASE Finish(p)
      BY <1>1, <2>5, <3>1 DEF FinalizeReadInvoice, TypeOK
    <3>2. CASE i \in DOMAIN invoice /\ Continue(p, "apply", Least(job[p].amount, invoice[i].total))
      <4>1. Least(job[p].amount, invoice[i].total) \in Int
        BY <2>1, <3>2, InvoiceRow DEF Least, Invoice
      <4>2. job' \in [Callers -> Job \cup {Idle}]
        BY <3>2, <4>1, <2>7
      <4>. QED BY <2>5, <4>2 DEF FinalizeReadInvoice, TypeOK
    <3>. QED BY <2>5, <3>1, <3>2 DEF FinalizeReadInvoice
  <2>6. CASE FinalizeApply(p)
    <3>. DEFINE j == job[p]
    <3>1. job' \in [Callers -> Job \cup {Idle}] /\ UNCHANGED <<now, issued, moved, spent>>
      BY <1>1, <2>6 DEF FinalizeApply
    <3>2. CASE UNCHANGED <<balance, invoice, credit, txSum>>
      BY <3>1, <3>2 DEF TypeOK
    <3>3. CASE Applies(j.inv, j.company, j.amount) /\ ApplyTo(j.inv, j.company, j.amount)
      <4>1. j.inv \in DOMAIN invoice
        BY <3>3 DEF Applies
      <4>. QED BY <2>1, <3>1, <3>3, <4>1, ApplyType DEF TypeOK
    <3>. QED BY <2>6, <3>2, <3>3 DEF FinalizeApply
  <2>. QED BY <1>3, <2>2, <2>3, <2>4, <2>5, <2>6 DEF FinalizeStep
<1>4. CASE Crash(p)
  BY <1>1, <1>4, OnceType DEF Crash, TypeOK, Rare
<1>5. FinalizeStep(p) => job[p] # Idle
  BY DEF FinalizeStep, FinalizePrepayment, FinalizeNegative, FinalizeReadCredit,
         FinalizeReadInvoice, FinalizeApply, At
<1>. QED BY <1>2, <1>3, <1>4, <1>5

\* Expiring rows keeps the types.
LEMMA ExpireType ==
  ASSUME TypeOK, NEW S \in SUBSET DOMAIN credit, Expire(S)
  PROVE  TypeOK'
<1>1. ASSUME NEW e \in DOMAIN credit
      PROVE  Emptied(credit[e]) \in Credit
  BY EmptiedType DEF TypeOK
<1>2. credit' \in [DOMAIN credit' -> Credit] /\ DOMAIN credit' = DOMAIN credit
  BY <1>1 DEF Expire, TypeOK
<1>3. ASSUME NEW c \in Companies
      PROVE  RemainingIn(S \cap CreditsOf(c)) \in Int
  <2>1. S \cap CreditsOf(c) \in SUBSET DOMAIN credit
    OBVIOUS
  <2>. QED BY <2>1, RemainingInt
<1>4. balance' \in [Companies -> Int] /\ txSum' \in [Companies -> Int]
  BY <1>3 DEF Expire, TypeOK
<1>. QED BY <1>2, <1>4 DEF Expire, TypeOK

\* What administrators and the daily job do keeps the types.
LEMMA TypeAdministering ==
  ASSUME TypeOK, Administering
  PROVE  TypeOK'
<1>1. CASE \E scope \in {Companies} \cup {{c} : c \in Companies} : ExpireCredits(scope)
  BY <1>1, ExpireType DEF ExpireCredits, Lapsed
<1>2. ASSUME NEW e \in CreditIds, ManuallyExpireCredit(e)
      PROVE  TypeOK'
  BY <1>2, ExpireType DEF ManuallyExpireCredit
<1>3. ASSUME NEW e \in CreditIds, NEW c \in Companies, NEW amount \in Amounts,
             TransferCredit(e, c, amount)
      PROVE  TypeOK'
  <2>1. /\ e \in DOMAIN credit /\ credit[e] \in Credit
        /\ amount \in Nat \ {0}
    BY <1>3, LedgerAssumption DEF TransferCredit, MayTransfer, TypeOK
  <2>2. credit[e].company \in Companies /\ credit[e].expires \in Dates
    BY <2>1 DEF Credit
  <2>3. ASSUME NEW f \in [Companies -> Int]
        PROVE  Shift(f, credit[e].company, c, amount) \in [Companies -> Int]
    BY <2>1, <2>2 DEF Shift
  <2>4. balance' \in [Companies -> Int] /\ txSum' \in [Companies -> Int]
    BY <1>3, <2>3 DEF TransferCredit, TypeOK
  <2>. DEFINE rest == [credit EXCEPT ![e].remaining = @ - amount]
              row == NewCredit(c, "transfer", NoInvoice, amount, credit[e].expires)
  <2>5. [credit[e] EXCEPT !.remaining = @ - amount] \in Credit
    <3>1. credit[e].remaining - amount \in Int
      BY <2>1 DEF Credit
    <3>. QED BY <2>1, <3>1 DEF Credit
  <2>6. rest \in [DOMAIN credit -> Credit]
    BY <2>5 DEF TypeOK
  <2>7. row \in Credit
    BY <2>1, <2>2, NewCreditType
  <2>8. /\ issued' = issued + 1 /\ issued' \in CreditIds
        /\ credit' = Put(rest, issued', row)
    BY <1>3 DEF TransferCredit
  <2>. HIDE DEF rest, row
  <2>9. /\ DOMAIN credit' \subseteq CreditIds
        /\ credit' \in [DOMAIN credit' -> Credit]
        /\ issued' \in Nat
        /\ \A f \in DOMAIN credit' : f <= issued'
    BY <2>6, <2>7, <2>8, LedgerAssumption DEF Put, TypeOK
  <2>. QED BY <1>3, <2>4, <2>9 DEF TransferCredit, TypeOK
<1>4. ASSUME NEW e \in CreditIds, NEW expires \in ExpiryDates,
             UpdateCreditExpiration(e, expires)
      PROVE  TypeOK'
  <2>1. credit[e] \in Credit /\ expires \in Dates
    BY <1>4, LedgerAssumption DEF UpdateCreditExpiration, TypeOK
  <2>2. [credit[e] EXCEPT !.expires = expires] \in Credit
    BY <2>1 DEF Credit
  <2>3. credit' \in [DOMAIN credit' -> Credit] /\ DOMAIN credit' = DOMAIN credit
    BY <1>4, <2>2 DEF UpdateCreditExpiration, TypeOK
  <2>. QED BY <1>4, <2>3 DEF UpdateCreditExpiration, TypeOK
<1>. QED BY <1>1, <1>2, <1>3, <1>4 DEF Administering

\* Every step keeps the types.
LEMMA TypeStep == TypeOK /\ [Next]_vars => TypeOK'
<1>. SUFFICES ASSUME TypeOK, [Next]_vars PROVE TypeOK'
  OBVIOUS
<1>1. CASE UNCHANGED vars
  BY <1>1 DEF vars, TypeOK
<1>2. CASE Tick
  BY <1>2, LedgerAssumption DEF Tick, TypeOK
<1>. QED BY <1>1, <1>2, TypeInvoicing, TypeChanging, TypeFinalizing,
            TypeAdministering DEF Next

\* The variables always have their types; among the rest, no credit is issued of
\* nothing or of a negative amount.
THEOREM TypeCorrect == Spec => []TypeOK
BY TypeInit, TypeStep, PTL DEF Spec

-----------------------------------------------------------------------------
(* Expired credit *)

\* What a step may do to a tracking row: nothing, draw on it, move its date,
\* or expire it; and only the first once it is expired.
RowChange(old, new) ==
  \/ new = old
  \/ /\ ~old.expired /\ ~new.expired
     /\ new.company = old.company /\ new.source = old.source
     /\ new.amount = old.amount /\ new.expirationTx = old.expirationTx
     /\ new.remaining <= old.remaining
     /\ 0 <= old.remaining => 0 <= new.remaining
  \/ ~old.expired /\ new = Emptied(old)

Fresh(row) == row.remaining = row.amount /\ ~row.expired /\ ~row.expirationTx

\* How a step changes the tracking rows: those that stay, come and go.
CreditChange ==
  /\ \A e \in DOMAIN credit \cap DOMAIN credit' : RowChange(credit[e], credit'[e])
  /\ \A e \in DOMAIN credit' \ DOMAIN credit : Fresh(credit'[e])
  /\ \A e \in DOMAIN credit \ DOMAIN credit' : credit[e].remaining = credit[e].amount

\* A row that is issued is fresh and overwrites none.
LEMMA IssueChange ==
  ASSUME TypeOK, NEW f, DOMAIN f = DOMAIN credit,
         \A e \in DOMAIN credit : RowChange(credit[e], f[e]),
         NEW row, Fresh(row), credit' = Put(f, issued + 1, row)
  PROVE  CreditChange
<1>1. issued + 1 \notin DOMAIN credit
  BY LedgerAssumption DEF TypeOK
<1>2. /\ DOMAIN credit' = DOMAIN credit \cup {issued + 1}
      /\ credit'[issued + 1] = row
      /\ \A e \in DOMAIN credit : credit'[e] = f[e]
  BY <1>1 DEF Put
<1>. QED BY <1>1, <1>2 DEF CreditChange

\* A step that leaves the tracking rows alone changes none.
LEMMA NoChange == UNCHANGED credit => CreditChange
BY DEF CreditChange, RowChange

\* Drawing on the usable rows leaves the expired ones alone.
LEMMA ApplyChange ==
  ASSUME TypeOK, NEW i, NEW c, NEW request, ApplyTo(i, c, request)
  PROVE  CreditChange
<1>1. PICK total \in 1 .. Capped(i, request) : \E d \in Draws(c, total) :
        LET Last(e) == d[e] > 0 /\ \A f \in Usable(c) : Before(e, f) => d[f] = 0
        IN credit' = [e \in DOMAIN credit |->
                        IF e \in Usable(c)
                        THEN [credit[e] EXCEPT
                                !.remaining = @ - d[e],
                                !.used = IF Last(e) THEN @ + total ELSE @]
                        ELSE credit[e]]
  BY DEF ApplyTo
<1>2. PICK d \in Draws(c, total) :
        LET Last(e) == d[e] > 0 /\ \A f \in Usable(c) : Before(e, f) => d[f] = 0
        IN credit' = [e \in DOMAIN credit |->
                        IF e \in Usable(c)
                        THEN [credit[e] EXCEPT
                                !.remaining = @ - d[e],
                                !.used = IF Last(e) THEN @ + total ELSE @]
                        ELSE credit[e]]
  BY <1>1
<1>3. DOMAIN credit' = DOMAIN credit
  BY <1>2
<1>4. ASSUME NEW e \in DOMAIN credit
      PROVE  RowChange(credit[e], credit'[e])
  <2>1. CASE e \notin Usable(c)
    BY <1>2, <2>1 DEF RowChange
  <2>2. CASE e \in Usable(c)
    <3>1. d[e] \in Nat /\ d[e] <= credit[e].remaining /\ ~credit[e].expired
      BY <2>2 DEF Draws, Usable
    <3>2. \E last \in BOOLEAN : credit'[e] =
            [credit[e] EXCEPT !.remaining = @ - d[e],
                              !.used = IF last THEN @ + total ELSE @]
      BY <1>2, <2>2, Zenon
    <3>3. credit[e] \in Credit
      BY DEF TypeOK
    <3>4. /\ credit'[e].remaining = credit[e].remaining - d[e]
          /\ credit'[e].expired = credit[e].expired
          /\ credit'[e].company = credit[e].company
          /\ credit'[e].source = credit[e].source
          /\ credit'[e].amount = credit[e].amount
          /\ credit'[e].expirationTx = credit[e].expirationTx
      BY <3>2, <3>3 DEF Credit
    <3>5. credit'[e].remaining <= credit[e].remaining /\ 0 <= credit'[e].remaining
      BY <3>1, <3>3, <3>4 DEF Credit
    <3>. QED BY <3>1, <3>4, <3>5 DEF RowChange
  <2>. QED BY <2>1, <2>2
<1>. QED BY <1>3, <1>4 DEF CreditChange

\* Every step changes the tracking rows like that.
LEMMA CreditChanges ==
  ASSUME TypeOK, [Next]_vars
  PROVE  CreditChange
<1>1. CASE UNCHANGED credit
  BY <1>1, NoChange
<1>2. ASSUME NEW i \in InvoiceIds, NEW c \in Companies, NEW amount \in Amounts,
             NEW expires \in ExpiryDates, CreatePrepaymentInvoice(i, c, amount, expires)
      PROVE  CreditChange
  <2>1. credit' = Put(credit, issued + 1, NewCredit(c, "prepayment", i, amount, expires))
    BY <1>2 DEF CreatePrepaymentInvoice, Issue
  <2>. QED BY <2>1, IssueChange DEF RowChange, Fresh, NewCredit
<1>3. ASSUME NEW p \in Callers, NEW expires \in ExpiryDates, FinalizeNegative(p, expires)
      PROVE  CreditChange
  <2>1. CASE credit' = Put(credit, issued + 1,
               NewCredit(job[p].company, "negative", job[p].inv, job[p].amount, expires))
    BY <2>1, IssueChange DEF RowChange, Fresh, NewCredit
  <2>. QED BY <1>1, <1>3, <2>1 DEF FinalizeNegative, Issue
<1>4. ASSUME NEW p \in Callers, FinalizeApply(p)
      PROVE  CreditChange
  BY <1>1, <1>4, ApplyChange DEF FinalizeApply
<1>5. ASSUME NEW i \in InvoiceIds, NEW request \in Amounts, ApplyCreditToInvoice(i, request)
      PROVE  CreditChange
  BY <1>5, ApplyChange DEF ApplyCreditToInvoice
<1>6. ASSUME NEW i \in InvoiceIds, HardDeleteInvoice(i)
      PROVE  CreditChange
  <2>1. CASE \E e \in DOMAIN credit : /\ credit' = Drop(credit, e)
                                      /\ credit[e].remaining = credit[e].amount
    BY <2>1 DEF Drop, CreditChange, RowChange
  <2>2. \/ UNCHANGED credit
        \/ \E e \in DOMAIN credit : /\ credit' = Drop(credit, e)
                                    /\ credit[e].remaining = credit[e].amount
    BY <1>6, Zenon DEF HardDeleteInvoice, IssuedBy
  <2>. QED BY <1>1, <2>1, <2>2
<1>7. ASSUME NEW S \in SUBSET DOMAIN credit, Expire(S),
             \A e \in S : ~credit[e].expired
      PROVE  CreditChange
  BY <1>7 DEF Expire, CreditChange, RowChange
<1>8. ASSUME NEW e \in CreditIds, NEW c \in Companies, NEW amount \in Amounts,
             TransferCredit(e, c, amount)
      PROVE  CreditChange
  <2>. DEFINE rest == [credit EXCEPT ![e].remaining = @ - amount]
              row == NewCredit(c, "transfer", NoInvoice, amount, credit[e].expires)
  <2>1. /\ e \in DOMAIN credit /\ ~credit[e].expired
        /\ credit[e] \in Credit /\ amount \in Nat /\ credit[e].remaining >= amount
    BY <1>8, LedgerAssumption DEF TransferCredit, MayTransfer, TypeOK
  <2>2. credit' = Put(rest, issued + 1, row)
    BY <1>8 DEF TransferCredit
  <2>3. DOMAIN rest = DOMAIN credit
    OBVIOUS
  <2>4. RowChange(credit[e], rest[e])
    <3>1. rest[e] = [credit[e] EXCEPT !.remaining = @ - amount]
      BY <2>1
    <3>2. /\ credit[e].remaining - amount <= credit[e].remaining
          /\ 0 <= credit[e].remaining - amount
      BY <2>1 DEF Credit
    <3>. QED BY <2>1, <3>1, <3>2 DEF RowChange, Credit
  <2>5. \A f \in DOMAIN credit \ {e} : rest[f] = credit[f]
    OBVIOUS
  <2>6. \A f \in DOMAIN credit : RowChange(credit[f], rest[f])
    BY <2>4, <2>5 DEF RowChange
  <2>7. Fresh(row)
    BY DEF Fresh, NewCredit
  <2>. HIDE DEF rest, row
  <2>. QED BY <2>2, <2>3, <2>6, <2>7, IssueChange
<1>9. ASSUME NEW e \in CreditIds, NEW expires \in ExpiryDates,
             UpdateCreditExpiration(e, expires)
      PROVE  CreditChange
  <2>1. /\ e \in DOMAIN credit /\ ~credit[e].expired /\ credit[e] \in Credit
        /\ credit' = [credit EXCEPT ![e].expires = expires]
    BY <1>9 DEF UpdateCreditExpiration, TypeOK
  <2>2. credit'[e] = [credit[e] EXCEPT !.expires = expires]
    BY <2>1
  <2>3. RowChange(credit[e], credit'[e])
    BY <2>1, <2>2 DEF RowChange, Credit
  <2>. QED BY <2>1, <2>3 DEF CreditChange, RowChange
<1>10. CASE Tick \/ Invoicing
  BY <1>1, <1>2, <1>10 DEF Tick, Invoicing, GenerateInvoice, InsertCycleInvoice
<1>11. CASE Changing
  <2>1. PICK i \in InvoiceIds :
          \/ \E subtotal \in Totals, tax \in Taxes :
               EditInvoice(i, subtotal, tax) \/ FillCycleInvoice(i, subtotal, tax)
          \/ \E request \in Amounts : ApplyCreditToInvoice(i, request)
          \/ UnfinalizeInvoice(i)
          \/ HardDeleteInvoice(i)
    BY <1>11 DEF Changing
  <2>2. \/ UNCHANGED credit
        \/ \E request \in Amounts : ApplyCreditToInvoice(i, request)
        \/ HardDeleteInvoice(i)
    BY <2>1, TotalsAlone DEF UnfinalizeInvoice
  <2>. QED BY <1>1, <1>5, <1>6, <2>2
<1>12. CASE Finalizing
  BY <1>1, <1>3, <1>4, <1>12
     DEF Finalizing, FinalizeStep, FinalizeMark, FinalizePrepayment,
         FinalizeReadCredit, FinalizeReadInvoice, Crash
<1>13. CASE Administering
  BY <1>7, <1>8, <1>9, <1>13
     DEF Administering, ExpireCredits, Lapsed, ManuallyExpireCredit
<1>. QED BY <1>1, <1>10, <1>11, <1>12, <1>13 DEF Next, vars

\* The invariant is inductive given the types.
LEMMA EmptyStep ==
  ASSUME TypeOK, TypeOK', ExpiredIsEmpty, [Next]_vars
  PROVE  ExpiredIsEmpty'
<1>. SUFFICES ASSUME NEW e \in DOMAIN credit'
              PROVE  /\ 0 <= credit'[e].remaining
                     /\ credit'[e].remaining <= credit'[e].amount
                     /\ credit'[e].expired <=> credit'[e].expirationTx
                     /\ credit'[e].expired => credit'[e].remaining = 0
  BY DEF ExpiredIsEmpty
<1>1. CreditChange
  BY CreditChanges
<1>2. credit'[e] \in Credit
  BY DEF TypeOK
<1>3. CASE e \notin DOMAIN credit
  BY <1>1, <1>2, <1>3 DEF CreditChange, Fresh, Credit
<1>4. CASE e \in DOMAIN credit
  <2>1. /\ credit[e] \in Credit /\ RowChange(credit[e], credit'[e])
        /\ 0 <= credit[e].remaining /\ credit[e].remaining <= credit[e].amount
        /\ credit[e].expired <=> credit[e].expirationTx
        /\ credit[e].expired => credit[e].remaining = 0
    BY <1>1, <1>4 DEF TypeOK, CreditChange, ExpiredIsEmpty
  <2>2. CASE credit'[e] = credit[e]
    BY <2>1, <2>2
  <2>3. CASE credit'[e] = Emptied(credit[e])
    <3>1. /\ credit'[e].remaining = 0 /\ credit'[e].amount = credit[e].amount
          /\ credit'[e].expired /\ credit'[e].expirationTx
      BY <2>1, <2>3 DEF Emptied, Credit
    <3>. QED BY <2>1, <3>1 DEF Credit
  <2>4. CASE /\ ~credit[e].expired /\ ~credit'[e].expired
             /\ credit'[e].amount = credit[e].amount
             /\ credit'[e].expirationTx = credit[e].expirationTx
             /\ credit'[e].remaining <= credit[e].remaining
             /\ 0 <= credit[e].remaining => 0 <= credit'[e].remaining
    <3>1. /\ credit'[e].remaining \in Int /\ credit[e].remaining \in Int
          /\ credit[e].amount \in Nat
      BY <1>2, <2>1 DEF Credit
    <3>. QED BY <2>1, <2>4, <3>1
  <2>. QED BY <2>1, <2>2, <2>3, <2>4 DEF RowChange
<1>. QED BY <1>3, <1>4

\* An expired credit is empty, has exactly its expiration transaction, and no
\* credit ever holds more than was issued.
THEOREM ExpiredEmpty == Spec => []ExpiredIsEmpty
<1>1. Init => ExpiredIsEmpty
  BY DEF Init, ExpiredIsEmpty
<1>2. TypeOK /\ TypeOK' /\ ExpiredIsEmpty /\ [Next]_vars => ExpiredIsEmpty'
  BY EmptyStep
<1>. QED BY <1>1, <1>2, TypeCorrect, PTL DEF Spec

\* No step brings an expired credit back, draws on it, moves its date or
\* deletes it.
THEOREM ExpiredFinal == Spec => ExpiredIsFinal
<1>1. ASSUME TypeOK, ExpiredIsEmpty, [Next]_vars
      PROVE  [\A e \in DOMAIN credit :
                credit[e].expired => e \in DOMAIN credit' /\ credit'[e] = credit[e]]_vars
  <2>1. CreditChange
    BY <1>1, CreditChanges
  <2>2. ASSUME NEW e \in DOMAIN credit, credit[e].expired
        PROVE  e \in DOMAIN credit' /\ credit'[e] = credit[e]
    <3>1. credit[e] \in Credit /\ credit[e].remaining = 0
      BY <1>1, <2>2 DEF TypeOK, ExpiredIsEmpty
    <3>2. e \in DOMAIN credit'
      BY <2>1, <3>1 DEF CreditChange, Credit
    <3>. QED BY <2>1, <2>2, <3>2 DEF CreditChange, RowChange
  <2>. QED BY <2>2
<1>. QED BY <1>1, TypeCorrect, ExpiredEmpty, PTL DEF Spec, ExpiredIsFinal

=============================================================================
