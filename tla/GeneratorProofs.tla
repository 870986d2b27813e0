--------------------------- MODULE GeneratorProofs ---------------------------
(***************************************************************************)
(* Proofs about MockGenerator, for any number of concurrent requests, any  *)
(* orders and any numbers of customers and events: the sequence numbers,   *)
(* what an accepted batch holds, and when two draws can overlap.           *)
(***************************************************************************)
EXTENDS MockGenerator, FiniteSetTheorems, WellFoundedInduction, TLAPS

(***************************************************************************)
(* Most leaves are first-order reasoning for Zenon; a leaf that needs      *)
(* arithmetic, sequences or records cites SMT.                             *)
(***************************************************************************)
USE Zenon

-----------------------------------------------------------------------------
(***************************************************************************)
(* Induction over the natural numbers, for what a definition by recursion  *)
(* computes: FlattenSeq, the events of a batch one list after another.     *)
(* The rules of the library take an operator, which the provers cannot     *)
(* instantiate, so the rule is stated for a set of numbers.                *)
(***************************************************************************)

\* A set of natural numbers has a least element.
LEMMA LeastNumber ==
    ASSUME NEW S \in SUBSET Nat, S # {}
    PROVE  \E n \in S : \A m \in S : n <= m
  <1> DEFINE R == OpToRel(<, Nat)
  <1>1. IsWellFoundedOn(R, Nat)
    BY NatLessThanWellFounded
  <1>2. \A x, y \in Nat : <<y, x>> \in R <=> y < x
    BY SMT DEF OpToRel
  <1>. HIDE DEF R
  <1>3. PICK x \in S : \A y \in S : ~(<<y, x>> \in R)
    BY <1>1, WFMin
  <1>4. \A y \in S : ~(y < x) /\ y \in Nat /\ x \in Nat
    BY <1>2, <1>3
  <1>5. \A y \in S : x <= y
    BY <1>4, SMT
  <1>. QED
    BY <1>5

\* Induction: what holds of 0, and of n + 1 whenever of n, holds of every number.
LEMMA SetInduction ==
    ASSUME NEW S \in SUBSET Nat, 0 \in S, \A n \in S : n + 1 \in S
    PROVE  S = Nat
  <1> SUFFICES ASSUME Nat \ S # {} PROVE FALSE
    OBVIOUS
  <1>1. PICK n \in Nat \ S : \A m \in Nat \ S : n <= m
    BY LeastNumber
  <1>2. n - 1 \in Nat /\ ~(n <= n - 1) /\ (n - 1) + 1 = n
    BY SMT
  <1>3. n - 1 \in S
    BY <1>1, <1>2
  <1>. QED
    BY <1>2, <1>3

-----------------------------------------------------------------------------
(***************************************************************************)
(* FlattenSeq, with which MockGenerator lists the events of a batch        *)
(* customer by customer: the loop over the customers appends a list.       *)
(***************************************************************************)
Lists(S) == Seq(Seq(S))

Joins(g, seqs) ==
    /\ DOMAIN g = 0 .. Len(seqs)
    /\ g[0] = <<>>
    /\ \A k \in 1 .. Len(seqs) : g[k] = g[k - 1] \o seqs[k]

\* The lists joined so far exist and are lists of the same elements.
LEMMA JoinsExist ==
    ASSUME NEW S, NEW seqs \in Lists(S)
    PROVE  \E g \in [0 .. Len(seqs) -> Seq(S)] : Joins(g, seqs)
  <1> DEFINE n == Len(seqs)
             V == Seq(S)
             T == {m \in Nat : m \in 0 .. n =>
                      \E g \in [0 .. m -> V] : g[0] = <<>> /\ \A k \in 1 .. m : g[k] = g[k - 1] \o seqs[k]}
  <1>1. n \in Nat /\ <<>> \in V
    BY SMT DEF Lists
  <1>2. \A a \in V : \A k \in 1 .. n : a \o seqs[k] \in V
    BY SMT DEF Lists
  <1>. HIDE DEF V, n
  <1>3. 0 \in T
    <2> DEFINE g == [k \in 0 .. 0 |-> <<>>]
    <2>1. g \in [0 .. 0 -> V] /\ g[0] = <<>> /\ 1 .. 0 = {}
      BY <1>1, SMT
    <2>. QED
      BY <2>1
  <1>4. ASSUME NEW m \in T, m + 1 \in 0 .. n
        PROVE  \E g \in [0 .. m + 1 -> V] :
                  g[0] = <<>> /\ \A k \in 1 .. m + 1 : g[k] = g[k - 1] \o seqs[k]
    <2>1. m \in Nat /\ m \in 0 .. n
      BY <1>1, <1>4, SMT
    <2>2. PICK g \in [0 .. m -> V] : g[0] = <<>> /\ \A k \in 1 .. m : g[k] = g[k - 1] \o seqs[k]
      BY <2>1
    <2> DEFINE h == [k \in 0 .. m + 1 |-> IF k = m + 1 THEN g[m] \o seqs[m + 1] ELSE g[k]]
    <2>3. m + 1 \in 1 .. n /\ m \in 0 .. m /\ 0 \in 0 .. m + 1 /\ 0 # m + 1 /\ (m + 1) - 1 = m
          /\ (\A k \in 0 .. m + 1 : k # m + 1 => k \in 0 .. m)
      BY <1>1, <1>4, <2>1, SMT
    <2>4. h \in [0 .. m + 1 -> V] /\ h[0] = <<>>
      BY <1>2, <2>2, <2>3
    <2>5. ASSUME NEW k \in 1 .. m + 1 PROVE h[k] = h[k - 1] \o seqs[k]
      <3>1. k \in 0 .. m + 1 /\ k - 1 \in 0 .. m + 1 /\ k - 1 # m + 1 /\ (k # m + 1 => k \in 1 .. m)
        BY <2>1, SMT
      <3>2. CASE k = m + 1
        BY <2>3, <3>1, <3>2
      <3>3. CASE k # m + 1
        BY <2>2, <3>1, <3>3
      <3>. QED
        BY <3>2, <3>3
    <2>. QED
      BY <2>4, <2>5
  <1>5. T = Nat
    <2>1. \A m \in T : m + 1 \in Nat
      BY SMT
    <2>. QED
      BY <1>3, <1>4, <2>1, SetInduction
  <1>6. n \in 0 .. n
    BY <1>1, SMT
  <1>. QED
    BY <1>1, <1>5, <1>6 DEF Joins, n, V

\* They are determined.
LEMMA JoinsUnique ==
    ASSUME NEW S, NEW seqs \in Lists(S), NEW f, NEW g, Joins(f, seqs), Joins(g, seqs)
    PROVE  \A k \in 0 .. Len(seqs) : f[k] = g[k]
  <1> DEFINE n == Len(seqs)
             T == {m \in Nat : m \in 0 .. n => f[m] = g[m]}
  <1>1. n \in Nat
    BY SMT DEF Lists
  <1>. HIDE DEF n
  <1>2. 0 \in T
    BY DEF Joins
  <1>3. ASSUME NEW m \in T PROVE m + 1 \in T
    <2>1. m \in Nat /\ m + 1 \in Nat /\ (m + 1) - 1 = m
      BY SMT
    <2>2. m + 1 \in 0 .. n => m \in 0 .. n /\ m + 1 \in 1 .. n
      BY <1>1, <2>1, SMT
    <2>3. ASSUME m + 1 \in 0 .. n PROVE f[m + 1] = g[m + 1]
      <3>1. f[m] = g[m]
        BY <2>2, <2>3
      <3>2. f[m + 1] = f[m] \o seqs[m + 1] /\ g[m + 1] = g[m] \o seqs[m + 1]
        BY <2>1, <2>2, <2>3 DEF Joins, n
      <3>. QED
        BY <3>1, <3>2
    <2>. QED
      BY <2>1, <2>3
  <1>4. T = Nat
    BY <1>2, <1>3, SetInduction
  <1>5. \A k \in 0 .. n : k \in Nat
    BY <1>1, SMT
  <1>. QED
    BY <1>4, <1>5 DEF n

\* FlattenSeq is the last of them.
LEMMA FlattenJoins ==
    ASSUME NEW S, NEW seqs \in Lists(S), NEW g \in [0 .. Len(seqs) -> Seq(S)], Joins(g, seqs)
    PROVE  FlattenSeq(seqs) = g[Len(seqs)]
  <1> DEFINE n == Len(seqs)
  <1>1. n \in Nat /\ \A k \in 1 .. n : seqs[k] \in Seq(S)
    BY SMT DEF Lists
  <1>2. CASE n = 0
    <2>1. seqs = <<>>
      BY <1>2, SMT DEF Lists
    <2>2. FlattenSeq(seqs) = seqs
      BY <1>2 DEF FlattenSeq
    <2>. QED
      BY <1>2, <2>1, <2>2 DEF Joins
  <1>3. CASE n # 0
    <2> DEFINE f == [i \in 1 .. n |-> g[i]]
               R(h) == [i \in 1 .. n |-> IF i = 1 THEN seqs[i] ELSE h[i - 1] \o seqs[i]]
    <2>1. \A s \in Seq(S) : <<>> \o s = s
      BY SMT
    <2>2. 1 \in 1 .. n /\ n \in 1 .. n /\ n \in 0 .. n
          /\ \A i \in 1 .. n : i # 1 => i - 1 \in 1 .. n
      BY <1>1, <1>3, SMT
    <2>3. g[1] = seqs[1]
      <3>1. 1 - 1 = 0
        BY SMT
      <3>2. g[1] = g[1 - 1] \o seqs[1] /\ g[0] = <<>>
        BY <2>2 DEF Joins
      <3>. QED
        BY <1>1, <2>1, <2>2, <3>1, <3>2
    <2>4. f = R(f)
      <3>1. ASSUME NEW i \in 1 .. n
            PROVE  g[i] = IF i = 1 THEN seqs[i] ELSE f[i - 1] \o seqs[i]
        BY <2>2, <2>3 DEF Joins
      <3>. QED
        BY <3>1
    <2>5. PICK h : h = R(h) /\ FlattenSeq(seqs) = h[n]
      BY <1>3, <2>4 DEF FlattenSeq
    <2> DEFINE h0 == [k \in 0 .. n |-> IF k = 0 THEN <<>> ELSE h[k]]
    <2>6. \A i \in 1 .. n : h[i] = IF i = 1 THEN seqs[i] ELSE h[i - 1] \o seqs[i]
      BY <2>5
    <2>7. Joins(h0, seqs)
      <3>1. ASSUME NEW k \in 1 .. n PROVE h0[k] = h0[k - 1] \o seqs[k]
        <4>1. k # 0 /\ k \in 0 .. n /\ k - 1 \in 0 .. n /\ (k - 1 = 0 <=> k = 1)
          BY <1>1, SMT
        <4>2. CASE k = 1
          BY <1>1, <2>1, <2>6, <4>1, <4>2
        <4>3. CASE k # 1
          BY <2>6, <4>1, <4>3
        <4>. QED
          BY <4>2, <4>3
      <3>2. 0 \in 0 .. n
        BY <1>1, SMT
      <3>. QED
        BY <3>1, <3>2 DEF Joins
    <2>8. h0[n] = g[n]
      <3>. HIDE DEF h0
      <3>1. \A k \in 0 .. Len(seqs) : h0[k] = g[k]
        BY <2>7, JoinsUnique, SMT
      <3>. QED
        BY <2>2, <3>1
    <2>. QED
      BY <1>3, <2>2, <2>5, <2>8
  <1>. QED
    BY <1>2, <1>3

\* What is listed has the type of the lists.
LEMMA FlattenType ==
    ASSUME NEW S, NEW seqs \in Lists(S)
    PROVE  FlattenSeq(seqs) \in Seq(S)
  <1>1. PICK g \in [0 .. Len(seqs) -> Seq(S)] : Joins(g, seqs)
    BY JoinsExist
  <1>2. FlattenSeq(seqs) = g[Len(seqs)]
    BY <1>1, FlattenJoins, SMT
  <1>3. Len(seqs) \in 0 .. Len(seqs)
    BY SMT DEF Lists
  <1>. QED
    BY <1>2, <1>3

\* No lists make the empty one (an order of no customers).
LEMMA FlattenEmpty == FlattenSeq(<<>>) = <<>>
  <1>1. Len(<<>>) = 0
    BY SMT
  <1>. QED
    BY <1>1 DEF FlattenSeq

\* One more list is appended to what is listed.
LEMMA FlattenAppend ==
    ASSUME NEW S, NEW seqs \in Lists(S), NEW s \in Seq(S)
    PROVE  /\ Append(seqs, s) \in Lists(S)
           /\ FlattenSeq(Append(seqs, s)) = FlattenSeq(seqs) \o s
  <1> DEFINE n == Len(seqs)
             more == Append(seqs, s)
  <1>1. /\ n \in Nat
        /\ more \in Lists(S)
        /\ Len(more) = n + 1
        /\ more[n + 1] = s
        /\ \A k \in 1 .. n : more[k] = seqs[k]
    BY SMT DEF Lists
  <1>. HIDE DEF n, more
  <1>2. PICK h \in [0 .. Len(more) -> Seq(S)] : Joins(h, more)
    BY <1>1, JoinsExist
  <1>3. FlattenSeq(more) = h[Len(more)]
    BY <1>1, <1>2, FlattenJoins
  <1> DEFINE g == [k \in 0 .. n |-> h[k]]
  <1>4. /\ \A k \in 1 .. n : k \in 0 .. n /\ k - 1 \in 0 .. n /\ k \in 1 .. n + 1
        /\ \A k \in 0 .. n : k \in 0 .. n + 1
        /\ 0 \in 0 .. n /\ n \in 0 .. n
        /\ n + 1 \in 1 .. n + 1 /\ (n + 1) - 1 = n
    BY <1>1, SMT
  <1>5. g \in [0 .. Len(seqs) -> Seq(S)] /\ Joins(g, seqs)
    BY <1>1, <1>2, <1>4 DEF Joins, n
  <1>6. FlattenSeq(seqs) = h[n]
    <2>1. g[n] = h[n]
      BY <1>4
    <2>. HIDE DEF g
    <2>2. FlattenSeq(seqs) = g[Len(seqs)]
      BY <1>5, FlattenJoins
    <2>. QED
      BY <2>1, <2>2 DEF n
  <1>7. h[n + 1] = h[n] \o s
    BY <1>1, <1>2, <1>4 DEF Joins
  <1>. QED
    BY <1>1, <1>3, <1>6, <1>7 DEF more

-----------------------------------------------------------------------------
(***************************************************************************)
(* The loops of the handlers: what they plan to make, and what they made.  *)
(***************************************************************************)
Items == Nat \X Nat

Events == [customer : Nat, index : Nat, sequence : Nat]

Made(events) == [k \in DOMAIN events |-> <<events[k].customer, events[k].index>>]

Lines(counts) == [c \in DOMAIN counts |-> EventsFor(c, counts[c])]

\* The events of one customer are listed with that customer's number.
LEMMA EventsForType ==
    ASSUME NEW c \in Nat, NEW count \in Nat
    PROVE  EventsFor(c, count) \in Seq(Items)
  <1>1. \A i \in 1 .. count : <<c, i - 1>> \in Items
    BY SMT DEF Items
  <1>. HIDE DEF Items
  <1>. QED
    BY <1>1, SMT DEF EventsFor

\* So are the events of all the customers of a bulk, whale or mixed order.
LEMMA PerCustomerType ==
    ASSUME NEW n \in Nat, NEW counts \in [1 .. n -> Nat]
    PROVE  /\ Lines(counts) \in Lists(Items) /\ Len(Lines(counts)) = n
           /\ PerCustomer(counts) = FlattenSeq(Lines(counts))
           /\ PerCustomer(counts) \in Seq(Items)
  <1>1. \A c \in 1 .. n : EventsFor(c, counts[c]) \in Seq(Items)
    <2>1. \A c \in 1 .. n : c \in Nat /\ counts[c] \in Nat
      BY SMT
    <2>. QED
      BY <2>1, EventsForType
  <1> DEFINE V == Seq(Items)
  <1>2. Lines(counts) = [c \in 1 .. n |-> EventsFor(c, counts[c])]
    BY DEF Lines
  <1>3. Lines(counts) \in Seq(V) /\ Len(Lines(counts)) = n
    <2>1. Lines(counts) \in [1 .. n -> V]
      BY <1>1, <1>2
    <2>. HIDE DEF V, Lines
    <2>. QED
      BY <2>1, SMT
  <1>4. PerCustomer(counts) = FlattenSeq(Lines(counts))
    BY DEF PerCustomer, Lines
  <1>5. FlattenSeq(Lines(counts)) \in Seq(Items)
    BY <1>3, FlattenType DEF Lists
  <1>. QED
    BY <1>3, <1>4, <1>5 DEF Lists

\* The loop of handleMixedScenario appends the events of one more customer.
LEMMA OneMoreCustomer ==
    ASSUME NEW n \in Nat, NEW M \in SUBSET Nat, NEW counts \in [1 .. n -> M], NEW count \in M
    PROVE  \E more \in [1 .. n + 1 -> M] :
               PerCustomer(more) = PerCustomer(counts) \o EventsFor(n + 1, count)
  <1> DEFINE more == [c \in 1 .. n + 1 |-> IF c = n + 1 THEN count ELSE counts[c]]
             last == EventsFor(n + 1, count)
  <1>1. /\ n + 1 \in Nat /\ n + 1 \in 1 .. n + 1
        /\ \A c \in 1 .. n + 1 : c # n + 1 => c \in 1 .. n
        /\ \A c \in 1 .. n : c # n + 1 /\ c \in 1 .. n + 1
    BY SMT
  <1>2. more \in [1 .. n + 1 -> M]
    BY <1>1
  <1>3. more \in [1 .. n + 1 -> Nat] /\ counts \in [1 .. n -> Nat] /\ count \in Nat
    BY <1>2
  <1>4. more[n + 1] = count /\ \A c \in 1 .. n : more[c] = counts[c]
    BY <1>1
  <1>. HIDE DEF more
  <1>5. last \in Seq(Items)
    BY <1>1, <1>3, EventsForType
  <1>6. /\ Lines(counts) \in Lists(Items) /\ Len(Lines(counts)) = n
        /\ Lines(more) \in Lists(Items) /\ Len(Lines(more)) = n + 1
        /\ PerCustomer(counts) = FlattenSeq(Lines(counts))
        /\ PerCustomer(more) = FlattenSeq(Lines(more))
    BY <1>1, <1>3, PerCustomerType
  <1>7. /\ Lines(more)[n + 1] = last
        /\ \A c \in 1 .. n : Lines(more)[c] = Lines(counts)[c]
    <2>1. DOMAIN more = 1 .. n + 1 /\ DOMAIN counts = 1 .. n
      BY <1>2
    <2>. QED
      BY <1>1, <1>4, <2>1 DEF Lines
  <1>. HIDE DEF last
  <1>8. Lines(more) = Append(Lines(counts), last)
    <2> DEFINE V == Seq(Items)
    <2>1. Lines(more) \in Seq(V) /\ Lines(counts) \in Seq(V) /\ last \in V
      BY <1>5, <1>6 DEF Lists
    <2>. HIDE DEF V
    <2>. QED
      BY <1>6, <1>7, <2>1, SMT
  <1>9. FlattenSeq(Lines(more)) = FlattenSeq(Lines(counts)) \o last
    BY <1>5, <1>6, <1>8, FlattenAppend
  <1>. QED
    BY <1>2, <1>6, <1>9 DEF last

\* With no customers there are no events.
LEMMA NoCustomers ==
    ASSUME NEW M \in SUBSET Nat
    PROVE  \E counts \in [1 .. 0 -> M] : PerCustomer(counts) = <<>>
  <1> DEFINE none == [c \in 1 .. 0 |-> 0]
  <1>1. 1 .. 0 = {} /\ 0 \in Nat
    BY SMT
  <1>2. none \in [1 .. 0 -> M] /\ none \in [1 .. 0 -> Nat]
    BY <1>1
  <1>. HIDE DEF none
  <1>3. Lines(none) \in Lists(Items) /\ Len(Lines(none)) = 0 /\ PerCustomer(none) = FlattenSeq(Lines(none))
    BY <1>1, <1>2, PerCustomerType
  <1>4. Lines(none) = <<>>
    BY <1>3, SMT DEF Lists
  <1>. QED
    BY <1>2, <1>3, <1>4, FlattenEmpty

\* Every order has one of four kinds, and a plan that is a list of events.
LEMMA PlanType ==
    ASSUME NEW o \in Orders
    PROVE  /\ o.kind \in {"generate", "bulk", "whale", "mixed"}
           /\ Plan(o) \in Seq(Items)
           /\ o.kind = "mixed" => Plan(o) = <<>>
  <1>1. \A n \in Int : \A d \in Nat : OrDefault(n, d) \in Nat
    BY SMT DEF OrDefault
  <1>2. \/ o.kind = "generate" /\ o.count \in Int
        \/ o.kind = "bulk" /\ o.customers \in Int /\ o.eventsPerCustomer \in Int
        \/ o.kind \in {"whale", "mixed"}
    <2>1. \/ o \in [kind : {"generate"}, count : Int]
          \/ o \in [kind : {"bulk"}, customers : Int, eventsPerCustomer : Int]
          \/ o \in [kind : {"whale", "mixed"}]
      BY GeneratorAssumption
    <2>. QED
      BY <2>1, SMT
  <1>3. 1 \in Nat /\ DefaultCustomerCount \in Nat /\ DefaultEventsPerCustomer \in Nat
    BY GeneratorAssumption, SMT
  <1>4. CASE o.kind = "generate"
    <2>1. OrDefault(o.count, 1) \in Nat
      BY <1>1, <1>2, <1>3, <1>4
    <2>2. Plan(o) = EventsFor(1, OrDefault(o.count, 1))
      BY <1>4 DEF Plan
    <2>. QED
      BY <1>3, <1>4, <2>1, <2>2, EventsForType
  <1>5. CASE o.kind = "bulk"
    <2> DEFINE n == OrDefault(o.customers, DefaultCustomerCount)
               e == OrDefault(o.eventsPerCustomer, DefaultEventsPerCustomer)
               counts == [c \in 1 .. n |-> e]
    <2>1. n \in Nat /\ e \in Nat
      BY <1>1, <1>2, <1>3, <1>5
    <2>2. Plan(o) = PerCustomer(counts)
      BY <1>5 DEF Plan
    <2>3. counts \in [1 .. n -> Nat]
      BY <2>1
    <2>. HIDE DEF n, e, counts
    <2>. QED
      BY <1>5, <2>1, <2>2, <2>3, PerCustomerType
  <1>6. CASE o.kind = "whale"
    <2>1. Plan(o) = PerCustomer(WhaleCounts)
      BY <1>6 DEF Plan
    <2>2. Len(WhaleCounts) \in Nat /\ WhaleCounts \in [1 .. Len(WhaleCounts) -> Nat]
      BY GeneratorAssumption, SMT
    <2>. QED
      BY <1>6, <2>1, <2>2, PerCustomerType
  <1>7. CASE o.kind = "mixed"
    <2>1. Plan(o) = <<>>
      BY <1>7 DEF Plan
    <2>2. <<>> \in Seq(Items)
      BY SMT
    <2>. QED
      BY <1>7, <2>1, <2>2
  <1>. QED
    BY <1>2, <1>4, <1>5, <1>6, <1>7

\* Moving the first element of one list to the end of the one before it.
LEMMA MoveHead ==
    ASSUME NEW S, NEW s \in Seq(S), NEW t \in Seq(S), t # <<>>
    PROVE  Append(s, Head(t)) \o Tail(t) = s \o t
  <1> DEFINE l == Append(s, Head(t)) \o Tail(t)
             m == s \o t
  <1>1. /\ Head(t) \in S /\ Tail(t) \in Seq(S) /\ Len(Tail(t)) = Len(t) - 1 /\ Len(t) > 0
        /\ Len(s) \in Nat /\ Len(t) \in Nat
    BY SMT
  <1>2. Append(s, Head(t)) \in Seq(S) /\ Len(Append(s, Head(t))) = Len(s) + 1
    BY <1>1, SMT
  <1>3. l \in Seq(S) /\ m \in Seq(S) /\ Len(l) = Len(s) + Len(t) /\ Len(m) = Len(s) + Len(t)
    BY <1>1, <1>2, SMT
  <1>4. ASSUME NEW i \in 1 .. Len(s) + Len(t) PROVE l[i] = m[i]
    <2>1. CASE i <= Len(s)
      BY <1>1, <2>1, SMT
    <2>2. CASE i = Len(s) + 1
      BY <1>1, <2>2, SMT
    <2>3. CASE i > Len(s) + 1
      BY <1>1, <2>3, SMT
    <2>. QED
      BY <1>1, <2>1, <2>2, <2>3, SMT
  <1>. HIDE DEF l, m
  <1>5. l = m
    BY <1>3, <1>4, SMT
  <1>. QED
    BY <1>5 DEF l, m

\* A list with one element more at its end.
LEMMA IsAppend ==
    ASSUME NEW S, NEW s \in Seq(S), NEW x \in S, NEW m \in Seq(S),
           Len(m) = Len(s) + 1, m[Len(s) + 1] = x, \A k \in 1 .. Len(s) : m[k] = s[k]
    PROVE  m = Append(s, x)
  BY SMT

\* What was made of a batch is a list of events.
LEMMA MadeType ==
    ASSUME NEW b \in Seq(Events)
    PROVE  Made(b) \in Seq(Items) /\ Len(Made(b)) = Len(b) /\ Made(b) \o <<>> = Made(b)
  <1>1. Len(b) \in Nat /\ DOMAIN b = 1 .. Len(b) /\ \A k \in DOMAIN b : b[k] \in Events
    <2>. HIDE DEF Events
    <2>. QED
      BY SMT
  <1>2. \A x \in Events : <<x.customer, x.index>> \in Items
    BY SMT DEF Events, Items
  <1>3. Made(b) \in [1 .. Len(b) -> Items]
    BY <1>1, <1>2 DEF Made
  <1>. HIDE DEF Items, Made
  <1>4. Made(b) \in Seq(Items) /\ Len(Made(b)) = Len(b)
    BY <1>1, <1>3, SMT
  <1>. QED
    BY <1>4, SMT

\* Making the next event moves it from the plan to the batch (newEvent).
Numbered(t, n) == [customer |-> Head(t)[1], index |-> Head(t)[2], sequence |-> n]

\* What was made and what is still to be made, together, stay the same.
LEMMA MakeNext ==
    ASSUME NEW b \in Seq(Events), NEW t \in Seq(Items), t # <<>>, NEW n \in Nat
    PROVE  /\ Numbered(t, n) \in Events /\ Append(b, Numbered(t, n)) \in Seq(Events)
           /\ Tail(t) \in Seq(Items)
           /\ Made(Append(b, Numbered(t, n))) \o Tail(t) = Made(b) \o t
  <1> DEFINE e == Numbered(t, n)
  <1>1. Head(t) \in Items /\ Tail(t) \in Seq(Items)
    <2>. HIDE DEF Items
    <2>. QED
      BY SMT
  <1>2. /\ Head(t)[1] \in Nat /\ Head(t)[2] \in Nat
        /\ Head(t) = <<Head(t)[1], Head(t)[2]>>
    BY <1>1, SMT DEF Items
  <1>3. e \in Events /\ <<e.customer, e.index>> = Head(t)
    BY <1>2 DEF Events, Numbered
  <1>. HIDE DEF e
  <1>4. /\ Append(b, e) \in Seq(Events)
        /\ Len(b) \in Nat /\ DOMAIN b = 1 .. Len(b)
        /\ Len(Append(b, e)) = Len(b) + 1 /\ DOMAIN Append(b, e) = 1 .. Len(b) + 1
        /\ Append(b, e)[Len(b) + 1] = e
        /\ \A k \in 1 .. Len(b) : Append(b, e)[k] = b[k]
    <2>. HIDE DEF Events
    <2>. QED
      BY <1>3, SMT
  <1>5. /\ Made(b) \in Seq(Items) /\ Len(Made(b)) = Len(b)
        /\ Made(Append(b, e)) \in Seq(Items) /\ Len(Made(Append(b, e))) = Len(b) + 1
    BY <1>4, MadeType
  <1>6. /\ Made(Append(b, e))[Len(b) + 1] = Head(t)
        /\ \A k \in 1 .. Len(b) : Made(Append(b, e))[k] = Made(b)[k]
    <2>1. Len(b) + 1 \in 1 .. Len(b) + 1 /\ \A k \in 1 .. Len(b) : k \in 1 .. Len(b) + 1
      BY <1>4, SMT
    <2>. QED
      BY <1>3, <1>4, <2>1 DEF Made
  <1>7. Made(Append(b, e)) = Append(Made(b), Head(t))
    BY <1>1, <1>5, <1>6, IsAppend
  <1>8. Append(Made(b), Head(t)) \o Tail(t) = Made(b) \o t
    BY <1>5, MoveHead
  <1>. QED
    BY <1>1, <1>3, <1>4, <1>7, <1>8 DEF e

-----------------------------------------------------------------------------
(***************************************************************************)
(* The inductive invariant.  Planned says of one request how its order,    *)
(* the events it has made and those it has still to make belong together.  *)
(***************************************************************************)
Unbegun == {"unsent", "refused", "ended"}

Mixing == {"countDraw", "typeDraw", "typed"}

Steps == Unbegun \cup Mixing \cup {"generating", "newEvent", "broken", "accepted", "failed"}

Types ==
    /\ handler \in [Requests -> Steps]
    /\ order \in [Requests -> Orders \cup {NoOrder}]
    /\ todo \in [Requests -> Seq(Items)]
    /\ customersLeft \in [Requests -> 0 .. DefaultCustomerCount]
    /\ batch \in [Requests -> Seq(Events)]
    /\ generatedEventCount \in Nat

Follows(o, t, left, b) ==
    IF o.kind = "mixed"
       THEN \E counts \in [1 .. DefaultCustomerCount - left -> MixedCounts] : Made(b) \o t = PerCustomer(counts)
       ELSE Made(b) \o t = Plan(o) /\ left = 0

Planned(step, o, t, left, b) ==
    /\ step \in Unbegun => b = <<>>
    /\ step \notin Unbegun => o \in Orders /\ Follows(o, t, left, b)
    /\ step \in Mixing => o.kind = "mixed"
    /\ step = "countDraw" => t = <<>> /\ left # 0
    /\ step \in {"typeDraw", "typed", "newEvent"} => t # <<>>
    /\ step = "accepted" => t = <<>> /\ left = 0

Planning == \A r \in Requests : Planned(handler[r], order[r], todo[r], customersLeft[r], batch[r])

Storing == \A r \in Requests : handler[r] = "accepted" => ToSet(batch[r]) \subseteq stored

\* Who is in newEvent holds the mutex; so two draws that overlap are not both
\* in newEvent, and one of them is in handleMixedScenario.
Exclusion == \A r \in Requests : handler[r] = "newEvent" => mutex = r

Racing ==
    raceSeen /\ server \in {"serving", "draining"} =>
        \E q \in Requests : handler[q] \notin Unbegun /\ order[q].kind = "mixed"

IInv == Types /\ Planning /\ Storing /\ SequenceIsShared /\ Exclusion /\ Racing

\* The step of one handler, which touches only its own request's state.
Moves(r, step, o, t, left, b) ==
    /\ handler' = [handler EXCEPT ![r] = step]
    /\ order' = [order EXCEPT ![r] = o]
    /\ todo' = [todo EXCEPT ![r] = t]
    /\ customersLeft' = [customersLeft EXCEPT ![r] = left]
    /\ batch' = [batch EXCEPT ![r] = b]

\* Assigning an element its own value changes nothing.
LEMMA SameValue ==
    ASSUME NEW A, NEW B, NEW f \in [A -> B], NEW r \in A
    PROVE  f = [f EXCEPT ![r] = f[r]]
  OBVIOUS

\* A handler's step keeps the plans if its own request still follows its plan.
LEMMA MoveKeepsPlans ==
    ASSUME IInv, NEW r \in Requests, NEW step \in Steps, NEW o \in Orders \cup {NoOrder},
           NEW t \in Seq(Items), NEW left \in 0 .. DefaultCustomerCount, NEW b \in Seq(Events),
           Moves(r, step, o, t, left, b), generatedEventCount' \in Nat,
           Planned(step, o, t, left, b)
    PROVE  /\ Types' /\ Planning'
           /\ handler'[r] = step /\ order'[r] = o /\ batch'[r] = b
           /\ \A q \in Requests : q # r =>
                 handler'[q] = handler[q] /\ order'[q] = order[q] /\ batch'[q] = batch[q]
  <1> DEFINE V == Seq(Items)
             W == Seq(Events)
             X == Orders \cup {NoOrder}
             Y == 0 .. DefaultCustomerCount
  <1>1. /\ handler \in [Requests -> Steps] /\ order \in [Requests -> X] /\ todo \in [Requests -> V]
        /\ customersLeft \in [Requests -> Y] /\ batch \in [Requests -> W]
        /\ o \in X /\ t \in V /\ left \in Y /\ b \in W
    BY DEF IInv, Types
  <1>. HIDE DEF V, W, X, Y
  <1>2. /\ handler' \in [Requests -> Steps] /\ order' \in [Requests -> X] /\ todo' \in [Requests -> V]
        /\ customersLeft' \in [Requests -> Y] /\ batch' \in [Requests -> W]
    BY <1>1 DEF Moves
  <1>3. /\ handler'[r] = step /\ order'[r] = o /\ todo'[r] = t /\ customersLeft'[r] = left
        /\ batch'[r] = b
    BY <1>1 DEF Moves
  <1>4. \A q \in Requests : q # r =>
           /\ handler'[q] = handler[q] /\ order'[q] = order[q] /\ todo'[q] = todo[q]
           /\ customersLeft'[q] = customersLeft[q] /\ batch'[q] = batch[q]
    BY <1>1 DEF Moves
  <1>5. Types'
    BY <1>2 DEF Types, V, W, X, Y
  <1>6. ASSUME NEW q \in Requests
        PROVE  Planned(handler'[q], order'[q], todo'[q], customersLeft'[q], batch'[q])
    <2>1. Planned(handler[q], order[q], todo[q], customersLeft[q], batch[q])
      BY DEF IInv, Planning
    <2>2. CASE q = r
      BY <1>3, <2>2
    <2>3. CASE q # r
      BY <1>4, <2>1, <2>3
    <2>. QED
      BY <2>2, <2>3
  <1>7. Planning'
    BY <1>6 DEF Planning, Planned, Follows
  <1>. QED
    BY <1>3, <1>4, <1>5, <1>7

\* A step outside newEvent, with the same batch and the same sequence number.
LEMMA QuietMove ==
    ASSUME IInv, NEW r \in Requests, NEW step \in Steps \ {"newEvent"}, NEW o \in Orders \cup {NoOrder},
           NEW t \in Seq(Items), NEW left \in 0 .. DefaultCustomerCount,
           Moves(r, step, o, t, left, batch[r]), Planned(step, o, t, left, batch[r]),
           UNCHANGED <<generatedEventCount, mutex, server>>,
           stored \subseteq stored', step = "accepted" => ToSet(batch[r]) \subseteq stored',
           raceSeen' = raceSeen \/ step \in Mixing,
           handler[r] \notin Unbegun => step \notin Unbegun /\ o = order[r]
    PROVE  IInv'
  <1>1. batch[r] \in Seq(Events) /\ step \in Steps
    BY DEF IInv, Types
  <1>2. generatedEventCount' \in Nat
    BY DEF IInv, Types
  <1>3. /\ Types' /\ Planning'
        /\ handler'[r] = step /\ order'[r] = o /\ batch'[r] = batch[r]
        /\ \A q \in Requests : q # r =>
              handler'[q] = handler[q] /\ order'[q] = order[q] /\ batch'[q] = batch[q]
    BY <1>1, <1>2, MoveKeepsPlans
  <1>4. batch' = batch
    <2>1. batch \in [Requests -> Seq(Events)] /\ batch' = [batch EXCEPT ![r] = batch[r]]
      BY DEF Moves, IInv, Types
    <2>. QED
      BY <2>1, SameValue
  <1>5. SequenceIsShared'
    BY <1>4, SMT DEF IInv, SequenceIsShared
  <1>6. Storing'
    <2>1. ASSUME NEW q \in Requests, handler'[q] = "accepted" PROVE ToSet(batch[q]) \subseteq stored'
      <3>1. CASE q = r
        BY <1>3, <2>1, <3>1
      <3>2. CASE q # r
        BY <1>3, <2>1, <3>2 DEF IInv, Storing
      <3>. QED
        BY <3>1, <3>2
    <2>. QED
      BY <1>4, <2>1 DEF Storing
  <1>7. Exclusion'
    BY <1>3 DEF IInv, Exclusion
  <1>8. Racing'
    <2>1. CASE raceSeen' = raceSeen
      <3>1. ASSUME raceSeen', server' \in {"serving", "draining"}
            PROVE  \E q \in Requests : handler'[q] \notin Unbegun /\ order'[q].kind = "mixed"
        <4>1. PICK q \in Requests : handler[q] \notin Unbegun /\ order[q].kind = "mixed"
          BY <2>1, <3>1 DEF IInv, Racing
        <4>2. handler'[q] \notin Unbegun /\ order'[q].kind = "mixed"
          BY <1>3, <4>1
        <4>. QED
          BY <4>2
      <3>. QED
        BY <3>1 DEF Racing
    <2>2. CASE step \in Mixing
      <3>1. handler'[r] \notin Unbegun /\ order'[r].kind = "mixed"
        BY <1>3, <2>2 DEF Planned, Mixing, Unbegun
      <3>. QED
        BY <3>1 DEF Racing
    <2>. QED
      BY <2>1, <2>2
  <1>. QED
    BY <1>3, <1>5, <1>6, <1>7, <1>8 DEF IInv

-----------------------------------------------------------------------------
\* A request that changes none of some values moves with its own.
LEMMA OwnValues ==
    ASSUME IInv, NEW r \in Requests
    PROVE  /\ order = [order EXCEPT ![r] = order[r]]
           /\ todo = [todo EXCEPT ![r] = todo[r]]
           /\ customersLeft = [customersLeft EXCEPT ![r] = customersLeft[r]]
           /\ batch = [batch EXCEPT ![r] = batch[r]]
           /\ order[r] \in Orders \cup {NoOrder} /\ todo[r] \in Seq(Items)
           /\ customersLeft[r] \in 0 .. DefaultCustomerCount /\ batch[r] \in Seq(Events)
           /\ handler[r] \in Steps /\ Planned(handler[r], order[r], todo[r], customersLeft[r], batch[r])
  BY SameValue DEF IInv, Types, Planning

\* What has not been begun has made nothing.
LEMMA NothingMade == Made(<<>>) = <<>> /\ \A t \in Seq(Items) : Made(<<>>) \o t = t
  <1>1. Made(<<>>) = <<>>
    BY SMT DEF Made
  <1>2. \A t \in Seq(Items) : <<>> \o t = t
    <2>. HIDE DEF Items
    <2>. QED
      BY SMT
  <1>. QED
    BY <1>1, <1>2

\* A request that is refused makes nothing.
LEMMA RefuseStep == ASSUME IInv, NEW r \in Requests, RefuseRequest(r) PROVE IInv'
  <1>1. PICK o \in Orders : order' = [order EXCEPT ![r] = o]
    BY DEF RefuseRequest
  <1>2. /\ handler[r] = "unsent" /\ handler' = [handler EXCEPT ![r] = "refused"]
        /\ UNCHANGED <<todo, customersLeft, batch, mutex, generatedEventCount, raceSeen, stored, server>>
    BY DEF RefuseRequest, Goto
  <1>3. Moves(r, "refused", o, todo[r], customersLeft[r], batch[r])
    BY <1>1, <1>2, OwnValues DEF Moves
  <1>4. Planned("refused", o, todo[r], customersLeft[r], batch[r])
    BY <1>2, OwnValues DEF Planned, Unbegun, Mixing
  <1>. QED
    BY <1>2, <1>3, <1>4, OwnValues, QuietMove DEF Steps, Unbegun

\* A request begins with its whole plan still to be made.
LEMMA BeginStep == ASSUME IInv, NEW r \in Requests, NEW o \in Orders, BeginRequest(r, o) PROVE IInv'
  <1> DEFINE left == IF o.kind = "mixed" THEN DefaultCustomerCount ELSE 0
  <1>1. /\ handler[r] = "unsent" /\ handler' = [handler EXCEPT ![r] = "generating"]
        /\ order' = [order EXCEPT ![r] = o] /\ todo' = [todo EXCEPT ![r] = Plan(o)]
        /\ customersLeft' = [customersLeft EXCEPT ![r] = left]
        /\ UNCHANGED <<batch, mutex, generatedEventCount, raceSeen, stored, server>>
    BY DEF BeginRequest, Goto
  <1>2. Moves(r, "generating", o, Plan(o), left, batch[r])
    BY <1>1, OwnValues DEF Moves
  <1>3. left \in 0 .. DefaultCustomerCount /\ DefaultCustomerCount - DefaultCustomerCount = 0
    BY GeneratorAssumption, SMT
  <1>4. batch[r] = <<>>
    BY <1>1, OwnValues DEF Planned, Unbegun
  <1>5. Follows(o, Plan(o), left, batch[r])
    <2>1. Made(batch[r]) \o Plan(o) = Plan(o)
      BY <1>4, PlanType, NothingMade
    <2>2. CASE o.kind = "mixed"
      <3>1. MixedCounts \in SUBSET Nat
        BY GeneratorAssumption
      <3>2. PICK counts \in [1 .. 0 -> MixedCounts] : PerCustomer(counts) = <<>>
        BY <3>1, NoCustomers
      <3>3. Plan(o) = <<>> /\ DefaultCustomerCount - left = 0
        BY <1>3, <2>2, PlanType
      <3>. QED
        BY <2>1, <2>2, <3>2, <3>3 DEF Follows
    <2>3. CASE o.kind # "mixed"
      BY <2>1, <2>3 DEF Follows
    <2>. QED
      BY <2>2, <2>3
  <1>. HIDE DEF left
  <1>6. Planned("generating", o, Plan(o), left, batch[r])
    BY <1>5 DEF Planned, Unbegun, Mixing
  <1>7. "generating" \in Steps \ {"newEvent"} /\ handler[r] \in Unbegun /\ o \in Orders \cup {NoOrder}
    BY <1>1 DEF Steps, Unbegun
  <1>. QED
    BY <1>1, <1>2, <1>3, <1>6, <1>7, PlanType, QuietMove

-----------------------------------------------------------------------------
(***************************************************************************)
(* The draws of handleMixedScenario.                                       *)
(***************************************************************************)
\* Only a mixed order has customers left to draw a count for.
LEMMA BeginCountDrawStep == ASSUME IInv, NEW r \in Requests, BeginCountDraw(r) PROVE IInv'
  <1>1. /\ handler[r] = "generating" /\ todo[r] = <<>> /\ customersLeft[r] > 0
        /\ handler' = [handler EXCEPT ![r] = "countDraw"]
        /\ UNCHANGED <<order, todo, customersLeft, batch, mutex, generatedEventCount, stored, server>>
    BY DEF BeginCountDraw, BeginDraw, Goto
  <1>2. Moves(r, "countDraw", order[r], todo[r], customersLeft[r], batch[r])
    BY <1>1, OwnValues DEF Moves
  <1>3. ~(0 > 0)
    BY SMT
  <1>4. /\ order[r] \in Orders /\ Follows(order[r], todo[r], customersLeft[r], batch[r])
        /\ customersLeft[r] # 0
    BY <1>1, <1>3, OwnValues DEF Planned, Unbegun
  <1>5. order[r].kind = "mixed"
    BY <1>4 DEF Follows
  <1>6. Planned("countDraw", order[r], todo[r], customersLeft[r], batch[r])
    BY <1>1, <1>4, <1>5 DEF Planned, Unbegun, Mixing
  <1>7. "countDraw" \in Steps \ {"newEvent"} /\ "countDraw" \in Mixing /\ "countDraw" \notin Unbegun
    BY DEF Steps, Mixing, Unbegun
  <1>. QED
    BY <1>1, <1>2, <1>6, <1>7, OwnValues, QuietMove

\* The count that was drawn is the plan for one more customer.
LEMMA EndCountDrawStep == ASSUME IInv, NEW r \in Requests, EndCountDraw(r) PROVE IInv'
  <1> DEFINE left == customersLeft[r]
             n == DefaultCustomerCount - left
  <1>1. PICK count \in MixedCounts : todo' = [todo EXCEPT ![r] = EventsFor(n + 1, count)]
    BY DEF EndCountDraw
  <1>2. /\ handler[r] = "countDraw" /\ handler' = [handler EXCEPT ![r] = "generating"]
        /\ customersLeft' = [customersLeft EXCEPT ![r] = left - 1]
        /\ UNCHANGED <<order, batch, mutex, generatedEventCount, raceSeen, stored, server>>
    BY DEF EndCountDraw, EndDraw, Goto
  <1>3. Moves(r, "generating", order[r], EventsFor(n + 1, count), left - 1, batch[r])
    BY <1>1, <1>2, OwnValues DEF Moves
  <1>4. /\ order[r] \in Orders /\ order[r].kind = "mixed" /\ todo[r] = <<>> /\ left # 0
        /\ Follows(order[r], todo[r], left, batch[r]) /\ left \in 0 .. DefaultCustomerCount
        /\ batch[r] \in Seq(Events)
    BY <1>2, OwnValues DEF Planned, Mixing, Unbegun
  <1>5. MixedCounts \in SUBSET Nat /\ DefaultCustomerCount \in Nat
    BY GeneratorAssumption
  <1>6. /\ n \in Nat /\ n + 1 \in Nat /\ left - 1 \in 0 .. DefaultCustomerCount
        /\ DefaultCustomerCount - (left - 1) = n + 1
    BY <1>4, <1>5, SMT
  <1>7. PICK counts \in [1 .. n -> MixedCounts] : Made(batch[r]) \o <<>> = PerCustomer(counts)
    BY <1>4 DEF Follows
  <1>8. Made(batch[r]) = PerCustomer(counts)
    BY <1>4, <1>7, MadeType
  <1>. HIDE DEF n, left
  <1>9. PICK more \in [1 .. n + 1 -> MixedCounts] :
           PerCustomer(more) = PerCustomer(counts) \o EventsFor(n + 1, count)
    <2> DEFINE P(m, some, k, all) == PerCustomer(all) = PerCustomer(some) \o EventsFor(m + 1, k)
    <2>1. \A m \in Nat : \A M \in SUBSET Nat : \A some \in [1 .. m -> M] : \A k \in M :
             \E all \in [1 .. m + 1 -> M] : P(m, some, k, all)
      BY OneMoreCustomer
    <2>2. \A some \in [1 .. n -> MixedCounts] : \A k \in MixedCounts :
             \E all \in [1 .. n + 1 -> MixedCounts] : P(n, some, k, all)
      <3>. HIDE DEF P
      <3>. QED
        BY <1>5, <1>6, <2>1
    <2>. QED
      BY <2>2
  <1>10. Follows(order[r], EventsFor(n + 1, count), left - 1, batch[r])
    <2>1. \E all \in [1 .. DefaultCustomerCount - (left - 1) -> MixedCounts] :
             Made(batch[r]) \o EventsFor(n + 1, count) = PerCustomer(all)
      BY <1>6, <1>8, <1>9
    <2>. QED
      BY <1>4, <2>1 DEF Follows
  <1>11. Planned("generating", order[r], EventsFor(n + 1, count), left - 1, batch[r])
    BY <1>4, <1>10 DEF Planned, Unbegun, Mixing
  <1>12. /\ "generating" \in Steps \ {"newEvent"} /\ "generating" \notin Unbegun
         /\ EventsFor(n + 1, count) \in Seq(Items) /\ order[r] \in Orders \cup {NoOrder}
    BY <1>4, <1>5, <1>6, EventsForType DEF Steps, Unbegun
  <1>. QED
    BY <1>2, <1>3, <1>6, <1>11, <1>12, QuietMove

\* The draw of an event's type begins and ends with the event still to make.
LEMMA TypeDrawStep ==
    ASSUME IInv, NEW r \in Requests, BeginTypeDraw(r) \/ EndTypeDraw(r)
    PROVE  IInv'
  <1>1. PICK step \in {"typeDraw", "typed"} : handler' = [handler EXCEPT ![r] = step]
    BY DEF BeginTypeDraw, EndTypeDraw, BeginDraw, EndDraw, Goto
  <1>2. /\ UNCHANGED <<order, todo, customersLeft, batch, mutex, generatedEventCount, stored, server>>
        /\ \/ handler[r] = "generating" /\ order[r].kind = "mixed" /\ todo[r] # <<>>
           \/ handler[r] = "typeDraw"
    BY DEF BeginTypeDraw, EndTypeDraw
  <1>3. Moves(r, step, order[r], todo[r], customersLeft[r], batch[r])
    BY <1>1, <1>2, OwnValues DEF Moves
  <1>4. /\ order[r] \in Orders /\ order[r].kind = "mixed" /\ todo[r] # <<>>
        /\ Follows(order[r], todo[r], customersLeft[r], batch[r])
    BY <1>2, OwnValues DEF Planned, Mixing, Unbegun
  <1>5. Planned(step, order[r], todo[r], customersLeft[r], batch[r])
    BY <1>1, <1>4 DEF Planned, Mixing, Unbegun
  <1>6. step \in Steps \ {"newEvent"} /\ step \in Mixing /\ step \notin Unbegun /\ step # "accepted"
    BY <1>1 DEF Steps, Mixing, Unbegun
  <1>. QED
    BY <1>2, <1>3, <1>5, <1>6, OwnValues, QuietMove

\* A panic, or the answer of the notifier, ends a request that follows its plan.
LEMMA EndStep ==
    ASSUME IInv, NEW r \in Requests, PanicInDraw(r) \/ PublishEvents(r) \/ FailPublish(r)
    PROVE  IInv'
  <1>1. PICK step \in {"broken", "accepted", "failed"} :
           /\ handler' = [handler EXCEPT ![r] = step]
           /\ stored \subseteq stored'
           /\ step = "accepted" => /\ todo[r] = <<>> /\ customersLeft[r] = 0
                                   /\ ToSet(batch[r]) \subseteq stored'
    <2>1. CASE PanicInDraw(r)
      BY <2>1 DEF PanicInDraw, EndDraw, Goto
    <2>2. CASE PublishEvents(r)
      BY <2>2 DEF PublishEvents, BatchIsComplete, Goto
    <2>3. CASE FailPublish(r)
      BY <2>3 DEF FailPublish, Goto
    <2>. QED
      BY <2>1, <2>2, <2>3
  <1>2. /\ UNCHANGED <<order, todo, customersLeft, batch, mutex, generatedEventCount, raceSeen, server>>
        /\ handler[r] \in {"countDraw", "typeDraw", "newEvent", "generating"}
    BY DEF PanicInDraw, EndDraw, Drawing, PublishEvents, FailPublish, BatchIsComplete
  <1>3. Moves(r, step, order[r], todo[r], customersLeft[r], batch[r])
    BY <1>1, <1>2, OwnValues DEF Moves
  <1>4. order[r] \in Orders /\ Follows(order[r], todo[r], customersLeft[r], batch[r])
    BY <1>2, OwnValues DEF Planned, Unbegun
  <1>5. Planned(step, order[r], todo[r], customersLeft[r], batch[r])
    BY <1>1, <1>4 DEF Planned, Mixing, Unbegun
  <1>6. step \in Steps \ {"newEvent"} /\ step \notin Unbegun
    BY <1>1 DEF Steps, Unbegun
  <1>. QED
    BY <1>1, <1>2, <1>3, <1>5, <1>6, OwnValues, QuietMove

-----------------------------------------------------------------------------
(***************************************************************************)
(* newEvent, under generationStateMutex.                                   *)
(***************************************************************************)
\* Who takes the mutex is alone in newEvent: a draw it overlaps is a mixed one.
LEMMA LockStep == ASSUME IInv, NEW r \in Requests, LockGenerationState(r) PROVE IInv'
  <1>1. /\ mutex = Nobody /\ mutex' = r /\ handler' = [handler EXCEPT ![r] = "newEvent"]
        /\ IF order[r].kind = "mixed" THEN handler[r] = "typed"
                                      ELSE handler[r] = "generating" /\ todo[r] # <<>>
        /\ UNCHANGED <<order, todo, customersLeft, batch, generatedEventCount, stored, server>>
    BY DEF LockGenerationState, MutexFree, BeginDraw, Goto
  <1>2. Moves(r, "newEvent", order[r], todo[r], customersLeft[r], batch[r])
    BY <1>1, OwnValues DEF Moves
  <1>3. /\ handler[r] \in {"typed", "generating"} /\ handler[r] \notin Unbegun /\ todo[r] # <<>>
        /\ order[r] \in Orders /\ Follows(order[r], todo[r], customersLeft[r], batch[r])
    BY <1>1, OwnValues DEF Planned, Unbegun
  <1>4. Planned("newEvent", order[r], todo[r], customersLeft[r], batch[r])
    BY <1>3 DEF Planned, Unbegun, Mixing
  <1>5. "newEvent" \in Steps /\ "newEvent" \notin Unbegun /\ generatedEventCount' \in Nat
    BY <1>1 DEF IInv, Types, Steps, Unbegun
  <1>6. /\ Types' /\ Planning' /\ handler'[r] = "newEvent" /\ order'[r] = order[r]
        /\ \A q \in Requests : q # r => handler'[q] = handler[q] /\ order'[q] = order[q]
    <2>1. /\ order[r] \in Orders \cup {NoOrder} /\ todo[r] \in Seq(Items)
          /\ customersLeft[r] \in 0 .. DefaultCustomerCount /\ batch[r] \in Seq(Events)
      BY OwnValues
    <2>. QED
      BY <1>2, <1>4, <1>5, <2>1, MoveKeepsPlans
  <1>7. Storing'
    <2>1. \A q \in Requests : handler'[q] = "accepted" => handler[q] = "accepted"
      BY <1>6
    <2>. QED
      BY <1>1, <2>1 DEF IInv, Storing
  <1>8. SequenceIsShared'
    BY <1>1, SMT DEF IInv, SequenceIsShared
  <1>9. \A q \in Requests : handler[q] # "newEvent"
    BY <1>1, GeneratorAssumption DEF IInv, Exclusion
  <1>10. Exclusion'
    BY <1>1, <1>6, <1>9 DEF Exclusion
  <1>11. Racing'
    <2>1. CASE Drawing = {}
      <3>1. raceSeen' = raceSeen
        BY <2>1 DEF LockGenerationState, BeginDraw
      <3>2. ASSUME raceSeen', server' \in {"serving", "draining"}
            PROVE  \E q \in Requests : handler'[q] \notin Unbegun /\ order'[q].kind = "mixed"
        <4>1. PICK q \in Requests : handler[q] \notin Unbegun /\ order[q].kind = "mixed"
          BY <1>1, <3>1, <3>2 DEF IInv, Racing
        <4>2. handler'[q] \notin Unbegun /\ order'[q].kind = "mixed"
          BY <1>5, <1>6, <4>1
        <4>. QED
          BY <4>2
      <3>. QED
        BY <3>2 DEF Racing
    <2>2. CASE Drawing # {}
      <3>1. PICK p \in Requests : handler[p] \in {"countDraw", "typeDraw", "newEvent"}
        BY <2>2 DEF Drawing
      <3>2. handler[p] \in Mixing /\ p # r
        BY <1>3, <1>9, <3>1 DEF Mixing
      <3>3. handler'[p] \notin Unbegun /\ order'[p].kind = "mixed"
        BY <1>6, <3>2, OwnValues DEF Planned, Mixing, Unbegun
      <3>. QED
        BY <3>3 DEF Racing
    <2>. QED
      BY <2>1, <2>2
  <1>. QED
    BY <1>6, <1>7, <1>8, <1>10, <1>11 DEF IInv

\* The number of the next event is larger than any number dealt out before.
LEMMA NextNumber ==
    ASSUME IInv, NEW r \in Requests, NEW e \in Events, e.sequence = generatedEventCount,
           batch' = [batch EXCEPT ![r] = Append(batch[r], e)],
           generatedEventCount' = generatedEventCount + 1
    PROVE  SequenceIsShared'
  <1> DEFINE n == generatedEventCount
             last == Len(batch[r]) + 1
             All == UNION {ToSet(batch[q]) : q \in Requests}
  <1>1. /\ n \in Nat /\ batch[r] \in Seq(Events)
        /\ batch'[r] = Append(batch[r], e)
        /\ \A q \in Requests : q # r => batch'[q] = batch[q]
    BY DEF IInv, Types
  <1>2. /\ DOMAIN batch'[r] = DOMAIN batch[r] \cup {last} /\ last \notin DOMAIN batch[r]
        /\ batch'[r][last] = e /\ \A i \in DOMAIN batch[r] : batch'[r][i] = batch[r][i] /\ i < last
    <2>. HIDE DEF Events
    <2>. QED
      BY <1>1, SMT
  <1>3. ToSet(batch'[r]) = ToSet(batch[r]) \cup {e}
    BY <1>2, SMT DEF ToSet
  <1>4. UNION {ToSet(batch'[q]) : q \in Requests} = All \cup {e}
    BY <1>1, <1>3
  <1>5. {x.sequence : x \in All} = 0 .. n - 1
    BY DEF IInv, SequenceIsShared
  <1>6. {x.sequence : x \in All \cup {e}} = {x.sequence : x \in All} \cup {n}
    <2>. HIDE DEF All
    <2>. QED
      OBVIOUS
  <1>7. (0 .. n - 1) \cup {n} = 0 .. (n + 1) - 1
    BY <1>1, SMT
  <1>8. {x.sequence : x \in UNION {ToSet(batch'[q]) : q \in Requests}} = 0 .. generatedEventCount' - 1
    BY <1>4, <1>5, <1>6, <1>7
  <1>9. \A q \in Requests : \A i \in DOMAIN batch[q] : batch[q][i].sequence \in 0 .. n - 1
    <2>1. ASSUME NEW q \in Requests, NEW i \in DOMAIN batch[q] PROVE batch[q][i] \in All
      <3>1. batch[q][i] \in ToSet(batch[q])
        BY DEF ToSet
      <3>. QED
        BY <3>1
    <2>. HIDE DEF All
    <2>. QED
      BY <1>5, <2>1
  <1> DEFINE num(q, i) == batch[q][i].sequence
             num2(q, i) == batch'[q][i].sequence
  <1>10. ASSUME NEW q \in Requests, NEW i \in DOMAIN batch'[q]
         PROVE  \/ q = r /\ i = last /\ num2(q, i) = n
                \/ /\ i \in DOMAIN batch[q] /\ num2(q, i) = num(q, i)
                   /\ num(q, i) \in 0 .. n - 1 /\ (q = r => i < last /\ i # last)
    <2>1. CASE q = r
      BY <1>2, <1>9, <2>1
    <2>2. CASE q # r
      BY <1>1, <1>9, <2>2
    <2>. QED
      BY <2>1, <2>2
  <1>11. ASSUME NEW p \in Requests, NEW q \in Requests,
                NEW i \in DOMAIN batch'[p], NEW k \in DOMAIN batch'[q]
         PROVE  /\ num2(p, i) = num2(q, k) => p = q /\ i = k
                /\ p = q /\ i < k => num2(p, i) < num2(q, k)
    <2>1. \A x \in 0 .. n - 1 : x < n /\ x # n
      BY <1>1, SMT
    <2>2. \A j \in DOMAIN batch[r] : ~(last < j)
      <3>1. batch[r] \in Seq(Events) /\ \A j \in DOMAIN batch[r] : j \in Nat /\ Len(batch[r]) \in Nat
        <4>. HIDE DEF Events
        <4>. QED
          BY <1>1, SMT
      <3>. QED
        BY <1>2, <3>1, SMT
    <2>3. ~(last < last)
      <3>1. Len(batch[r]) \in Nat
        <4>. HIDE DEF Events
        <4>. QED
          BY <1>1, SMT
      <3>. QED
        BY <3>1, SMT
    <2>4. CASE p = r /\ i = last /\ num2(p, i) = n
      <3>1. CASE q = r /\ k = last
        BY <2>3, <2>4, <3>1
      <3>2. CASE ~(q = r /\ k = last)
        <4>1. k \in DOMAIN batch[q] /\ num2(q, k) # n
          BY <1>10, <2>1, <3>2
        <4>. QED
          BY <2>2, <2>4, <4>1
      <3>. QED
        BY <3>1, <3>2
    <2>5. CASE i \in DOMAIN batch[p] /\ num2(p, i) = num(p, i) /\ num(p, i) \in 0 .. n - 1
      <3>1. CASE q = r /\ k = last /\ num2(q, k) = n
        BY <2>1, <2>5, <3>1
      <3>2. CASE k \in DOMAIN batch[q] /\ num2(q, k) = num(q, k)
        <4>1. /\ num(p, i) = num(q, k) => p = q /\ i = k
              /\ p = q /\ i < k => num(p, i) < num(q, k)
          BY <2>5, <3>2 DEF IInv, SequenceIsShared
        <4>. QED
          BY <2>5, <3>2, <4>1
      <3>. QED
        BY <1>10, <3>1, <3>2
    <2>. QED
      BY <1>10, <2>4, <2>5
  <1>. QED
    BY <1>8, <1>11 DEF SequenceIsShared

\* The next event of the plan is numbered and appended, and the mutex released.
LEMMA AppendStep == ASSUME IInv, NEW r \in Requests, AppendEvent(r) PROVE IInv'
  <1> DEFINE b == batch[r]
             t == todo[r]
             e == Numbered(t, generatedEventCount)
  <1>1. /\ handler[r] = "newEvent" /\ handler' = [handler EXCEPT ![r] = "generating"]
        /\ batch' = [batch EXCEPT ![r] = Append(b, e)]
        /\ todo' = [todo EXCEPT ![r] = Tail(t)]
        /\ generatedEventCount' = generatedEventCount + 1
        /\ mutex' = Nobody
        /\ UNCHANGED <<order, customersLeft, raceSeen, stored, server>>
    BY DEF AppendEvent, EndDraw, Goto, NewEvent, Numbered, UnlockGenerationState
  <1>2. /\ b \in Seq(Events) /\ t \in Seq(Items) /\ t # <<>>
        /\ order[r] \in Orders /\ Follows(order[r], t, customersLeft[r], b)
        /\ customersLeft[r] \in 0 .. DefaultCustomerCount
    BY <1>1, OwnValues DEF Planned, Unbegun
  <1>3. generatedEventCount \in Nat /\ generatedEventCount' \in Nat
    <2>1. generatedEventCount \in Nat
      BY DEF IInv, Types
    <2>. QED
      BY <1>1, <2>1, SMT
  <1>4. e.sequence = generatedEventCount
    BY DEF Numbered
  <1>5. Moves(r, "generating", order[r], Tail(t), customersLeft[r], Append(b, e))
    BY <1>1, OwnValues DEF Moves
  <1>6. /\ e \in Events /\ Append(b, e) \in Seq(Events) /\ Tail(t) \in Seq(Items)
        /\ Made(Append(b, e)) \o Tail(t) = Made(b) \o t
    BY <1>2, <1>3, MakeNext
  <1>7. SequenceIsShared'
    <2>. HIDE DEF e
    <2>. QED
      BY <1>1, <1>4, <1>6, NextNumber
  <1>. HIDE DEF b, t, e
  <1>8. Follows(order[r], Tail(t), customersLeft[r], Append(b, e))
    BY <1>2, <1>6 DEF Follows
  <1>9. Planned("generating", order[r], Tail(t), customersLeft[r], Append(b, e))
    BY <1>2, <1>8 DEF Planned, Unbegun, Mixing
  <1>10. /\ "generating" \in Steps /\ "generating" \notin Unbegun
         /\ order[r] \in Orders \cup {NoOrder}
    BY <1>2 DEF Steps, Unbegun
  <1>11. /\ Types' /\ Planning' /\ handler'[r] = "generating" /\ order'[r] = order[r]
         /\ \A q \in Requests : q # r =>
               handler'[q] = handler[q] /\ order'[q] = order[q] /\ batch'[q] = batch[q]
    BY <1>2, <1>3, <1>5, <1>6, <1>9, <1>10, MoveKeepsPlans
  <1>12. Storing'
    <2>1. \A q \in Requests : handler'[q] = "accepted" => handler[q] = "accepted" /\ batch'[q] = batch[q]
      BY <1>11
    <2>. QED
      BY <1>1, <2>1 DEF IInv, Storing
  <1>13. Exclusion'
    <2>1. mutex = r
      BY <1>1 DEF IInv, Exclusion
    <2>2. \A q \in Requests : q # r => handler[q] # "newEvent"
      BY <2>1 DEF IInv, Exclusion
    <2>. QED
      BY <1>11, <2>2 DEF Exclusion
  <1>14. Racing'
    <2>1. ASSUME raceSeen', server' \in {"serving", "draining"}
          PROVE  \E q \in Requests : handler'[q] \notin Unbegun /\ order'[q].kind = "mixed"
      <3>1. PICK q \in Requests : handler[q] \notin Unbegun /\ order[q].kind = "mixed"
        BY <1>1, <2>1 DEF IInv, Racing
      <3>2. handler'[q] \notin Unbegun /\ order'[q].kind = "mixed"
        BY <1>10, <1>11, <3>1
      <3>. QED
        BY <3>2
    <2>. QED
      BY <2>1 DEF Racing
  <1>. QED
    BY <1>7, <1>11, <1>12, <1>13, <1>14 DEF IInv

-----------------------------------------------------------------------------
\* With no batch there are no numbers.
LEMMA EmptyBatches ==
    ASSUME NEW b, \A r \in Requests : b[r] = <<>>
    PROVE  /\ {e.sequence : e \in UNION {ToSet(b[r]) : r \in Requests}} = 0 .. 0 - 1
           /\ \A r \in Requests : DOMAIN b[r] = {}
  <1>1. ToSet(<<>>) = {} /\ DOMAIN <<>> = {}
    BY SMT DEF ToSet
  <1>2. UNION {ToSet(b[r]) : r \in Requests} = {}
    BY <1>1
  <1>3. 0 .. 0 - 1 = {}
    BY SMT
  <1>. QED
    BY <1>1, <1>2, <1>3

\* When Run returns, all that is left is what the notifier stored.
LEMMA ExitStep ==
    ASSUME IInv, NEW result \in {"failed", "stopped", "timedOut"}, Exit(result)
    PROVE  IInv'
  <1>1. /\ server' = result
        /\ handler' = [r \in Requests |-> "ended"] /\ order' = [r \in Requests |-> NoOrder]
        /\ todo' = [r \in Requests |-> <<>>] /\ customersLeft' = [r \in Requests |-> 0]
        /\ batch' = [r \in Requests |-> <<>>] /\ generatedEventCount' = 0
    BY DEF Exit
  <1>2. 0 \in Nat /\ 0 \in 0 .. DefaultCustomerCount /\ <<>> \in Seq(Items) /\ <<>> \in Seq(Events)
    BY GeneratorAssumption, SMT
  <1>3. \A r \in Requests : handler'[r] = "ended" /\ batch'[r] = <<>>
    BY <1>1
  <1>4. "ended" \in Steps /\ "ended" \in Unbegun /\ "ended" \notin Mixing
    BY DEF Steps, Unbegun, Mixing
  <1>5. Types'
    BY <1>1, <1>2, <1>4 DEF Types
  <1>6. Planning'
    BY <1>3, <1>4 DEF Planning, Planned
  <1>7. Storing' /\ Exclusion'
    BY <1>3 DEF Storing, Exclusion
  <1>8. Racing'
    BY <1>1 DEF Racing
  <1>9. SequenceIsShared'
    <2>1. /\ {e.sequence : e \in UNION {ToSet(batch'[r]) : r \in Requests}} = 0 .. 0 - 1
          /\ \A r \in Requests : DOMAIN batch'[r] = {}
      BY <1>3, EmptyBatches
    <2>. QED
      BY <1>1, <2>1 DEF SequenceIsShared
  <1>. QED
    BY <1>5, <1>6, <1>7, <1>8, <1>9 DEF IInv

\* The signal, or no step at all.
LEMMA OtherStep ==
    ASSUME IInv, UNCHANGED <<handler, order, todo, customersLeft, batch, mutex, generatedEventCount, raceSeen, stored>>,
           server' = server \/ server = "serving"
    PROVE  IInv'
  <1>1. Types'
    BY DEF IInv, Types
  <1>2. Planning'
    BY DEF IInv, Planning, Planned, Follows
  <1>3. Storing' /\ Exclusion'
    BY DEF IInv, Storing, Exclusion
  <1>4. Racing'
    BY DEF IInv, Racing
  <1>5. SequenceIsShared'
    BY SMT DEF IInv, SequenceIsShared
  <1>. QED
    BY <1>1, <1>2, <1>3, <1>4, <1>5 DEF IInv

\* Before the first request there is nothing to follow.
LEMMA InitIInv == ASSUME Init PROVE IInv
  <1>1. 0 \in Nat /\ 0 \in 0 .. DefaultCustomerCount /\ <<>> \in Seq(Items) /\ <<>> \in Seq(Events)
    BY GeneratorAssumption, SMT
  <1>2. \A r \in Requests : handler[r] = "unsent" /\ batch[r] = <<>>
    BY DEF Init
  <1>3. "unsent" \in Steps /\ "unsent" \in Unbegun /\ "unsent" \notin Mixing
    BY DEF Steps, Unbegun, Mixing
  <1>4. Types
    BY <1>1, <1>3 DEF Init, Types
  <1>5. Planning
    BY <1>2, <1>3 DEF Planning, Planned
  <1>6. Storing /\ Exclusion /\ Racing
    BY <1>2 DEF Init, Storing, Exclusion, Racing
  <1>7. SequenceIsShared
    <2>1. /\ {e.sequence : e \in UNION {ToSet(batch[r]) : r \in Requests}} = 0 .. 0 - 1
          /\ \A r \in Requests : DOMAIN batch[r] = {}
      BY <1>2, EmptyBatches
    <2>2. generatedEventCount = 0
      BY DEF Init
    <2>. QED
      BY <2>1, <2>2 DEF SequenceIsShared
  <1>. QED
    BY <1>4, <1>5, <1>6, <1>7 DEF IInv

\* Every step of the handlers and of Run keeps the invariant.
LEMMA NextIInv == ASSUME IInv, [Next]_vars PROVE IInv'
  <1>1. ASSUME NEW r \in Requests, RefuseRequest(r) PROVE IInv'
    BY <1>1, RefuseStep
  <1>2. ASSUME NEW r \in Requests, NEW o \in Orders, BeginRequest(r, o) PROVE IInv'
    BY <1>2, BeginStep
  <1>3. ASSUME NEW r \in Requests, Handle(r) PROVE IInv'
    BY <1>3, BeginCountDrawStep, EndCountDrawStep, TypeDrawStep, LockStep, AppendStep, EndStep DEF Handle
  <1>4. CASE FailListen
    BY <1>4, ExitStep DEF FailListen
  <1>5. CASE Signal
    BY <1>5, OtherStep DEF Signal
  <1>6. CASE Shutdown
    BY <1>6, ExitStep DEF Shutdown
  <1>7. CASE UNCHANGED vars
    BY <1>7, OtherStep DEF vars
  <1>. QED
    BY <1>1, <1>2, <1>3, <1>4, <1>5, <1>6, <1>7 DEF Next

\* When the whole plan was made, the batch is the plan.
LEMMA IInvPublished == ASSUME IInv PROVE AcceptedIsPublished
  <1>1. SUFFICES ASSUME NEW r \in Requests, handler[r] = "accepted"
                 PROVE  /\ ToSet(batch[r]) \subseteq stored
                        /\ IF order[r].kind = "mixed"
                              THEN \E counts \in [1 .. DefaultCustomerCount -> MixedCounts] :
                                      Made(batch[r]) = PerCustomer(counts)
                              ELSE Made(batch[r]) = Plan(order[r])
    BY DEF AcceptedIsPublished, Made
  <1>2. /\ todo[r] = <<>> /\ customersLeft[r] = 0 /\ batch[r] \in Seq(Events)
        /\ Follows(order[r], <<>>, 0, batch[r])
    BY <1>1, OwnValues DEF Planned, Unbegun
  <1>3. Made(batch[r]) \o <<>> = Made(batch[r])
    BY <1>2, MadeType
  <1>4. DefaultCustomerCount - 0 = DefaultCustomerCount
    BY GeneratorAssumption, SMT
  <1>5. ToSet(batch[r]) \subseteq stored
    BY <1>1 DEF IInv, Storing
  <1>. QED
    BY <1>2, <1>3, <1>4, <1>5 DEF Follows

-----------------------------------------------------------------------------
(***************************************************************************)
(* newEvent deals the sequence numbers out to any number of concurrent     *)
(* handlers without gap or repetition, and in order within each batch.     *)
(***************************************************************************)
THEOREM NumbersAreShared == Spec => []SequenceIsShared
  <1>1. Spec => []IInv
    BY InitIInv, NextIInv, PTL DEF Spec
  <1>2. IInv => SequenceIsShared
    BY DEF IInv
  <1>. QED
    BY <1>1, <1>2, PTL

(***************************************************************************)
(* The handler answers 202 only when the notifier has stored exactly the   *)
(* events that were ordered, customer by customer, whatever the numbers in *)
(* the order, the defaults and the drawn counts are.                       *)
(***************************************************************************)
THEOREM AcceptedBatches == Spec => []AcceptedIsPublished
  <1>1. Spec => []IInv
    BY InitIInv, NextIInv, PTL DEF Spec
  <1>2. IInv => AcceptedIsPublished
    BY IInvPublished
  <1>. QED
    BY <1>1, <1>2, PTL

\* Two draws have overlapped only if a mixed order was begun.
RaceTakesMixedOrder ==
    raceSeen /\ server \in {"serving", "draining"} => \E q \in Requests : order[q].kind = "mixed"

(***************************************************************************)
(* Draws from randomSource in newEvent exclude each other: as long as Run  *)
(* has not returned, two draws have overlapped only if a mixed order was   *)
(* begun, whose handler draws without generationStateMutex.                *)
(***************************************************************************)
THEOREM OnlyMixedOrdersRace == Spec => []RaceTakesMixedOrder
  <1>1. Spec => []IInv
    BY InitIInv, NextIInv, PTL DEF Spec
  <1>2. IInv => RaceTakesMixedOrder
    BY DEF IInv, Racing, RaceTakesMixedOrder
  <1>. QED
    BY <1>1, <1>2, PTL
=============================================================================
