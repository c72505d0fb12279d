---------------------- MODULE TransactionEvents_proofs ----------------------
(***************************************************************************)
(* Facts about the event mappers of module TransactionEvents, for every    *)
(* receipt: what kind of events they find, and that the amounts summed up  *)
(* over the events of a contract are those of its logs.                    *)
(***************************************************************************)
EXTENDS TransactionEvents, FiniteSums_proofs, SequenceTheorems

-----------------------------------------------------------------------------
(* Sequences.  FlattenSeq recurses through a function; Flattened(F, ss)    *)
(* says that F is that function up to the n-th element.                    *)

FlatStep(F, ss, i) == IF i = 1 THEN ss[i] ELSE F[i - 1] \o ss[i]
FlatTo(ss, n) == CHOOSE F : F = [i \in 1 .. n |-> FlatStep(F, ss, i)]

LEMMA FlattenUnfolded ==
    ASSUME NEW ss
    PROVE  FlattenSeq(ss) = IF Len(ss) = 0 THEN ss ELSE FlatTo(ss, Len(ss))[Len(ss)]
  BY DEF FlattenSeq, FlatTo, FlatStep

LEMMA FlattenExists ==
    ASSUME NEW ss, NEW n \in Nat
    PROVE  FlatTo(ss, n) = [i \in 1 .. n |-> FlatStep(FlatTo(ss, n), ss, i)]
<1>. DEFINE T == {k \in Nat : \E F : F = [i \in 1 .. k |-> FlatStep(F, ss, i)]}
<1>1. 0 \in T
  <2>1. <<>> = [i \in 1 .. 0 |-> FlatStep(<<>>, ss, i)]
    OBVIOUS
  <2>. QED BY <2>1
<1>2. ASSUME NEW k \in Nat, k \in T PROVE k + 1 \in T
  <2>1. PICK F : F = [i \in 1 .. k |-> FlatStep(F, ss, i)]
    BY <1>2
  <2>. DEFINE G == [i \in 1 .. k + 1 |-> FlatStep(F, ss, i)]
  <2>2. ASSUME NEW i \in 1 .. k + 1 PROVE G[i] = FlatStep(G, ss, i)
    <3>1. CASE i = 1
      BY <3>1 DEF FlatStep
    <3>2. CASE i # 1
      <4>1. i - 1 \in 1 .. k /\ i - 1 \in 1 .. k + 1
        BY <3>2
      <4>2. G[i - 1] = F[i - 1]
        BY <2>1, <4>1
      <4>. QED BY <3>2, <4>2 DEF FlatStep
    <3>. QED BY <3>1, <3>2
  <2>3. G = [i \in 1 .. k + 1 |-> FlatStep(G, ss, i)]
    BY <2>2
  <2>. HIDE DEF G
  <2>. QED BY <2>3
<1>. HIDE DEF T
<1>3. n \in T
  BY <1>1, <1>2, NatSetInduction
<1>. QED BY <1>3 DEF T, FlatTo

(* A flattened sequence of sequences has the elements of these.            *)
LEMMA FlattenType ==
    ASSUME NEW S, NEW ss \in Seq(Seq(S))
    PROVE  FlattenSeq(ss) \in Seq(S)
<1>. DEFINE n == Len(ss)
            F == FlatTo(ss, n)
            T == {k \in Nat : k + 1 \in 1 .. n => F[k + 1] \in Seq(S)}
<1>1. n \in Nat
  BY LenProperties
<1>2. \A i \in 1 .. n : F[i] = FlatStep(F, ss, i) /\ ss[i] \in Seq(S)
  BY <1>1, FlattenExists, ElementOfSeq
<1>3. 0 \in T
  BY <1>2 DEF FlatStep
<1>. HIDE DEF F, n
<1>4. ASSUME NEW k \in Nat, k \in T PROVE k + 1 \in T
  <2>1. SUFFICES ASSUME k + 2 \in 1 .. n PROVE F[k + 2] \in Seq(S)
    OBVIOUS
  <2>2. F[k + 1] \in Seq(S) /\ ss[k + 2] \in Seq(S)
    BY <1>1, <1>2, <1>4, <2>1
  <2>3. k + 2 # 1 /\ (k + 2) - 1 = k + 1
    OBVIOUS
  <2>4. F[k + 2] = F[k + 1] \o ss[k + 2]
    BY <1>2, <2>1, <2>3 DEF FlatStep
  <2>. QED BY <2>2, <2>4, ConcatProperties
<1>. HIDE DEF T
<1>5. \A k \in Nat : k \in T
  BY <1>3, <1>4, NatSetInduction
<1>6. CASE n = 0
  BY <1>6, FlattenUnfolded, EmptySeq DEF n
<1>7. CASE n # 0
  <2>1. n - 1 \in T /\ n - 1 + 1 = n
    BY <1>1, <1>5, <1>7
  <2>2. F[n] \in Seq(S)
    BY <1>1, <1>7, <2>1 DEF T
  <2>. QED BY <1>7, <2>2, FlattenUnfolded DEF F, n
<1>. QED BY <1>6, <1>7

(* A sequence built element by element *)
LEMMA FamilyType ==
    ASSUME NEW S, NEW s, NEW n \in Nat, s = [i \in 1 .. n |-> s[i]],
           \A i \in 1 .. n : s[i] \in S
    PROVE  s \in Seq(S)
<1>1. s \in [1 .. n -> S]
  OBVIOUS
<1>. QED BY <1>1

(* Short tuples are sequences. *)
LEMMA NoTuple == \A S : <<>> \in Seq(S)
  BY EmptySeq
LEMMA OneTuple == ASSUME NEW S, NEW x \in S PROVE <<x>> \in Seq(S)
  OBVIOUS
LEMMA TwoTuple == ASSUME NEW S, NEW x \in S, NEW y \in S PROVE <<x, y>> \in Seq(S)
  OBVIOUS
LEMMA ThreeTuple ==
    ASSUME NEW S, NEW x \in S, NEW y \in S, NEW z \in S PROVE <<x, y, z>> \in Seq(S)
  OBVIOUS

(* What Select keeps passes the test, for the two tests the model uses. *)
RelevantIn(s, address, receipt, allowed) ==
    Select(s, LAMBDA e : Relevant(address, receipt, allowed, e))
NamedIn(s, name) == Select(s, LAMBDA e : e.name = name)

LEMMA SelectRelevant ==
    ASSUME NEW S, NEW s \in Seq(S), NEW address, NEW receipt, NEW allowed
    PROVE  RelevantIn(s, address, receipt, allowed)
              \in Seq({e \in S : Relevant(address, receipt, allowed, e)})
<1>. DEFINE R == {e \in S : Relevant(address, receipt, allowed, e)}
            ss == [i \in 1 .. Len(s) |->
                      IF Relevant(address, receipt, allowed, s[i]) THEN <<s[i]>> ELSE <<>>]
<1>1. Len(s) \in Nat /\ \A i \in 1 .. Len(s) : s[i] \in S
  BY LenProperties, ElementOfSeq
<1>2. ASSUME NEW i \in 1 .. Len(s) PROVE ss[i] \in Seq(R)
  <2>1. s[i] \in R => <<s[i]>> \in Seq(R)
    BY OneTuple
  <2>2. s[i] \in R <=> Relevant(address, receipt, allowed, s[i])
    BY <1>1
  <2>. HIDE DEF R
  <2>. QED BY <2>1, <2>2, NoTuple
<1>. HIDE DEF R
<1>3. ss \in Seq(Seq(R))
  BY <1>1, <1>2
<1>4. FlattenSeq(ss) \in Seq(R)
  BY <1>3, FlattenType
<1>. QED BY <1>4 DEF RelevantIn, Select, R

LEMMA SelectNamed ==
    ASSUME NEW S, NEW s \in Seq(S), NEW name
    PROVE  NamedIn(s, name) \in Seq({e \in S : e.name = name})
<1>. DEFINE R == {e \in S : e.name = name}
            ss == [i \in 1 .. Len(s) |-> IF s[i].name = name THEN <<s[i]>> ELSE <<>>]
<1>1. Len(s) \in Nat /\ \A i \in 1 .. Len(s) : s[i] \in S
  BY LenProperties, ElementOfSeq
<1>2. ASSUME NEW i \in 1 .. Len(s) PROVE ss[i] \in Seq(R)
  <2>1. s[i] \in R => <<s[i]>> \in Seq(R)
    BY OneTuple
  <2>2. s[i] \in R <=> s[i].name = name
    BY <1>1
  <2>. HIDE DEF R
  <2>. QED BY <2>1, <2>2, NoTuple
<1>. HIDE DEF R
<1>3. ss \in Seq(Seq(R))
  BY <1>1, <1>2
<1>4. FlattenSeq(ss) \in Seq(R)
  BY <1>3, FlattenType
<1>. QED BY <1>4 DEF NamedIn, Select, R

(* A sequence is one of its own elements. *)
LEMMA SequenceOfItsElements == \A S : \A s \in Seq(S) : s \in Seq(ToSet(s))
<1>1. SUFFICES ASSUME NEW S, NEW s \in Seq(S) PROVE s \in Seq(ToSet(s))
  OBVIOUS
<1>2. Len(s) \in Nat /\ s \in [1 .. Len(s) -> S] /\ DOMAIN s = 1 .. Len(s)
  BY LenProperties
<1>3. \A i \in 1 .. Len(s) : s[i] \in ToSet(s)
  BY <1>2 DEF ToSet
<1>4. s = [i \in 1 .. Len(s) |-> s[i]]
  BY <1>2
<1>. QED BY <1>2, <1>3, <1>4, FamilyType

LEMMA ConcatElements ==
    ASSUME NEW S, NEW s \in Seq(S), NEW T, NEW u \in Seq(T)
    PROVE  s \o u \in Seq(S \cup T)
<1>1. s \in Seq(S \cup T) /\ u \in Seq(S \cup T)
  BY SeqMonotonic
<1>. QED BY <1>1, ConcatProperties

-----------------------------------------------------------------------------
(* The sum of what V assigns to the elements of a sequence *)
Values(s, V) == [k \in 1 .. Len(s) |-> V[s[k]]]
ValueSum(s, V) == SumTo(Values(s, V), Len(s))

LEMMA ValuesType ==
    ASSUME NEW E, NEW s \in Seq(E), NEW V \in [E -> Int]
    PROVE  /\ Len(s) \in Nat
           /\ \A k \in 1 .. Len(s) : Values(s, V)[k] \in Int /\ Values(s, V)[k] = V[s[k]]
           /\ ValueSum(s, V) \in Int
<1>1. Len(s) \in Nat /\ \A k \in 1 .. Len(s) : s[k] \in E
  BY LenProperties, ElementOfSeq
<1>2. \A k \in 1 .. Len(s) : Values(s, V)[k] \in Int /\ Values(s, V)[k] = V[s[k]]
  BY <1>1 DEF Values
<1>3. SumTo(Values(s, V), Len(s)) \in Int
  BY <1>1, <1>2, SumToType
<1>. QED BY <1>1, <1>2, <1>3 DEF ValueSum

LEMMA TupleSums ==
    ASSUME NEW V
    PROVE  /\ ValueSum(<<>>, V) = 0
           /\ \A x : V[x] \in Int => ValueSum(<<x>>, V) = V[x]
           /\ \A x, y : V[x] \in Int /\ V[y] \in Int =>
                            ValueSum(<<x, y>>, V) = V[x] + V[y]
<1>1. ValueSum(<<>>, V) = 0
  BY SumToNone DEF ValueSum
<1>2. ASSUME NEW x, V[x] \in Int PROVE ValueSum(<<x>>, V) = V[x]
  <2>. DEFINE f == Values(<<x>>, V)
  <2>1. f[1] = V[x] /\ \A k \in 1 .. 0 + 1 : f[k] \in Int
    BY <1>2 DEF Values
  <2>. HIDE DEF f
  <2>2. SumTo(f, 0 + 1) = SumTo(f, 0) + f[0 + 1]
    BY <2>1, SumToNext
  <2>3. SumTo(f, 1) = V[x]
    BY <1>2, <2>1, <2>2, SumToNone
  <2>. QED BY <2>3 DEF ValueSum, f
<1>3. ASSUME NEW x, NEW y, V[x] \in Int, V[y] \in Int
      PROVE  ValueSum(<<x, y>>, V) = V[x] + V[y]
  <2>. DEFINE f == Values(<<x, y>>, V)
  <2>1. f[1] = V[x] /\ f[2] = V[y] /\ \A k \in 1 .. 1 + 1 : f[k] \in Int
    BY <1>3 DEF Values
  <2>. HIDE DEF f
  <2>2. SumTo(f, 1 + 1) = SumTo(f, 1) + f[1 + 1]
    BY <2>1, SumToNext
  <2>3. SumTo(f, 0 + 1) = SumTo(f, 0) + f[0 + 1]
    BY <2>1, SumToNext
  <2>4. SumTo(f, 2) = V[x] + V[y]
    BY <1>3, <2>1, <2>2, <2>3, SumToNone
  <2>. QED BY <2>4 DEF ValueSum, f
<1>. QED BY <1>1, <1>2, <1>3

LEMMA ConcatSum ==
    ASSUME NEW E, NEW s \in Seq(E), NEW u \in Seq(E), NEW V \in [E -> Int]
    PROVE  ValueSum(s \o u, V) = ValueSum(s, V) + ValueSum(u, V)
<1>. DEFINE n == Len(s)
            m == Len(u)
            r == s \o u
            f == Values(r, V)
            g == Values(u, V)
<1>1. n \in Nat /\ m \in Nat /\ r \in Seq(E) /\ Len(r) = n + m
  BY LenProperties, ConcatProperties
<1>2. /\ \A k \in 1 .. n : r[k] = s[k]
      /\ \A k \in 1 .. m : r[n + k] = u[k]
  BY ConcatProperties
<1>. HIDE DEF r
<1>3. \A k \in 1 .. Len(r) : f[k] \in Int /\ f[k] = V[r[k]]
  BY <1>1, ValuesType
<1>4. \A k \in 1 .. n : Values(s, V)[k] = V[s[k]]
  BY ValuesType
<1>5. \A k \in 1 .. m : g[k] = V[u[k]]
  BY ValuesType
<1>. HIDE DEF n, m, f, g
<1>6. \A k \in 1 .. n : f[k] = Values(s, V)[k]
  BY <1>1, <1>2, <1>3, <1>4
<1>7. ASSUME NEW k \in 1 .. m PROVE g[k] = f[n + k]
  <2>1. n + k \in 1 .. Len(r)
    BY <1>1
  <2>2. f[n + k] = V[r[n + k]]
    BY <1>3, <2>1
  <2>. QED BY <1>2, <1>5, <2>2
<1>8. Follows(g, m, f, n)
  BY <1>7 DEF Follows
<1>. DEFINE l == Len(r)
<1>9. n \in Nat /\ m \in Nat /\ l \in Nat
  BY <1>1
<1>10. l = n + m
  BY <1>1
<1>11. \A k \in 1 .. l : f[k] \in Int
  BY <1>3
<1>. HIDE DEF l
<1>12. SumTo(f, l) = SumTo(f, n) + SumTo(g, m)
  BY <1>8, <1>9, <1>10, <1>11, SumToSplit
<1>13. SumTo(f, n) = SumTo(Values(s, V), n)
  BY <1>6, SumToEqual
<1>. QED BY <1>12, <1>13 DEF ValueSum, n, m, f, g, r, l

(* The sum over a flattened sequence is the sum of the sums. *)
LEMMA FlattenSum ==
    ASSUME NEW E, NEW ss \in Seq(Seq(E)), NEW V \in [E -> Int],
           NEW g, \A i \in 1 .. Len(ss) : g[i] = ValueSum(ss[i], V)
    PROVE  ValueSum(FlattenSeq(ss), V) = SumTo(g, Len(ss))
<1>. DEFINE n == Len(ss)
            F == FlatTo(ss, n)
            T == {k \in Nat : k + 1 \in 1 .. n =>
                     F[k + 1] \in Seq(E) /\ ValueSum(F[k + 1], V) = SumTo(g, k + 1)}
<1>1. n \in Nat
  BY LenProperties
<1>2. \A i \in 1 .. n : F[i] = FlatStep(F, ss, i) /\ ss[i] \in Seq(E)
  BY <1>1, FlattenExists, ElementOfSeq
<1>3. \A i \in 1 .. n : g[i] \in Int /\ g[i] = ValueSum(ss[i], V)
  <2>1. ASSUME NEW i \in 1 .. n PROVE ValueSum(ss[i], V) \in Int
    <3>1. ss[i] \in Seq(E)
      BY <1>2
    <3>. QED BY <3>1, ValuesType
  <2>. QED BY <2>1
<1>. HIDE DEF F, n
<1>4. 0 \in T
  <2>1. SUFFICES ASSUME 1 \in 1 .. n
                 PROVE  F[1] \in Seq(E) /\ ValueSum(F[1], V) = SumTo(g, 1)
    OBVIOUS
  <2>2. F[1] = ss[1] /\ ss[1] \in Seq(E) /\ g[1] \in Int
    BY <1>2, <1>3, <2>1 DEF FlatStep
  <2>3. \A k \in 1 .. 0 + 1 : g[k] \in Int
    BY <2>2
  <2>4. SumTo(g, 0 + 1) = SumTo(g, 0) + g[0 + 1]
    BY <2>3, SumToNext
  <2>5. SumTo(g, 1) = g[1]
    BY <2>2, <2>4, SumToNone
  <2>. QED BY <1>3, <2>1, <2>2, <2>5
<1>5. ASSUME NEW k \in Nat, k \in T PROVE k + 1 \in T
  <2>1. SUFFICES ASSUME k + 2 \in 1 .. n
                 PROVE  /\ F[k + 2] \in Seq(E)
                        /\ ValueSum(F[k + 2], V) = SumTo(g, (k + 1) + 1)
    OBVIOUS
  <2>2. /\ F[k + 1] \in Seq(E) /\ ss[k + 2] \in Seq(E)
        /\ ValueSum(F[k + 1], V) = SumTo(g, k + 1)
    BY <1>1, <1>2, <1>5, <2>1
  <2>3. k + 2 # 1 /\ (k + 2) - 1 = k + 1 /\ k + 1 \in Nat /\ (k + 1) + 1 = k + 2
    OBVIOUS
  <2>4. F[k + 2] = F[k + 1] \o ss[k + 2]
    BY <1>2, <2>1, <2>3 DEF FlatStep
  <2>5. \A j \in 1 .. (k + 1) + 1 : g[j] \in Int
    BY <1>1, <1>3, <2>1
  <2>6. SumTo(g, (k + 1) + 1) = SumTo(g, k + 1) + g[k + 2]
    BY <2>3, <2>5, SumToNext
  <2>7. ValueSum(F[k + 1] \o ss[k + 2], V) = ValueSum(F[k + 1], V) + ValueSum(ss[k + 2], V)
    BY <2>2, ConcatSum
  <2>8. F[k + 2] \in Seq(E)
    BY <2>2, <2>4, ConcatProperties
  <2>. QED BY <1>3, <2>1, <2>2, <2>4, <2>6, <2>7, <2>8
<1>. HIDE DEF T
<1>6. \A k \in Nat : k \in T
  BY <1>4, <1>5, NatSetInduction
<1>7. CASE n = 0
  <2>1. FlattenSeq(ss) = <<>>
    BY <1>7, FlattenUnfolded, EmptySeq DEF n
  <2>. QED BY <1>7, <2>1, TupleSums, SumToNone DEF n
<1>8. CASE n # 0
  <2>1. n - 1 \in Nat /\ n - 1 \in T /\ (n - 1) + 1 = n
    BY <1>1, <1>6, <1>8
  <2>2. ValueSum(F[n], V) = SumTo(g, n)
    BY <1>1, <1>8, <2>1 DEF T
  <2>. QED BY <1>8, <2>2, FlattenUnfolded DEF F, n
<1>. QED BY <1>7, <1>8

-----------------------------------------------------------------------------
(* The events of a receipt: each has the index of one of its logs, and a   *)
(* name that the mapper of this log's event gives.                         *)

MappedEvents == {"Transfer", "Issue", "Redeem", "TransferToken", "Mint", "Burn",
                 "Swap", "PairCreated"}
NamesFor(event) ==
    CASE event = "Transfer" ->
            {"MintFungibleEvent", "BurnFungibleEvent", "TransferFungibleEvent"}
      [] event \in {"Issue", "Redeem"} -> {"MintFungibleEvent", "BurnFungibleEvent"}
      [] event = "TransferToken" ->
            {"MintNonFungibleEvent", "BurnNonFungibleEvent", "TransferNonFungibleEvent"}
      [] event \in {"Mint", "Burn", "Swap"} ->
            {"MintPairEvent", "BurnPairEvent", "SwapPairEvent"}
      [] event = "PairCreated" -> {"PairCreatedEvent"}

Seen(receipt) ==
    {e \in [name : EventKinds, index : 1 .. Len(receipt)] :
        /\ receipt[e.index].event \in MappedEvents
        /\ e.name \in NamesFor(receipt[e.index].event)}

LEMMA NamesAreKinds == \A event \in MappedEvents : NamesFor(event) \subseteq EventKinds
  BY DEF NamesFor, MappedEvents, EventKinds

LEMMA EventNamesType ==
    ASSUME NEW log, log.event \in MappedEvents
    PROVE  EventNames(log) \in Seq(NamesFor(log.event))
<1>1. ASSUME NEW S, NEW burn \in S, NEW mint \in S, NEW transfer \in S
      PROVE  TransferNames(log, burn, mint, transfer) \in Seq(S)
  BY OneTuple, TwoTuple DEF TransferNames
<1>2. CASE log.event = "Transfer"
  <2>1. NamesFor(log.event) =
            {"MintFungibleEvent", "BurnFungibleEvent", "TransferFungibleEvent"}
    BY <1>2 DEF NamesFor
  <2>2. Erc20Transfer(log) \in Seq(NamesFor(log.event))
    BY <1>1, <2>1 DEF Erc20Transfer
  <2>. QED BY <1>2, <2>2 DEF EventNames
<1>3. CASE log.event = "TransferToken"
  <2>1. NamesFor(log.event) = {"MintNonFungibleEvent", "BurnNonFungibleEvent",
                               "TransferNonFungibleEvent"}
    BY <1>3 DEF NamesFor
  <2>2. Erc721Transfer(log) \in Seq(NamesFor(log.event))
    BY <1>1, <2>1 DEF Erc721Transfer
  <2>. QED BY <1>3, <2>2 DEF EventNames
<1>4. \A name \in NamesFor(log.event) : <<name>> \in Seq(NamesFor(log.event))
  BY OneTuple
<1>5. CASE log.event \in {"Issue", "Redeem"}
  <2>1. /\ "MintFungibleEvent" \in NamesFor(log.event)
        /\ "BurnFungibleEvent" \in NamesFor(log.event)
    BY <1>5 DEF NamesFor
  <2>2. EventNames(log) = Erc20Supply(log)
    BY <1>5 DEF EventNames
  <2>. QED BY <1>4, <2>1, <2>2 DEF Erc20Supply
<1>6. CASE log.event = "PairCreated"
  <2>1. "PairCreatedEvent" \in NamesFor(log.event)
    BY <1>6 DEF NamesFor
  <2>2. EventNames(log) = PairCreation(log)
    BY <1>6 DEF EventNames
  <2>. QED BY <1>4, <2>1, <2>2 DEF PairCreation
<1>7. CASE log.event \in {"Mint", "Burn", "Swap"}
  <2>1. /\ "MintPairEvent" \in NamesFor(log.event)
        /\ "BurnPairEvent" \in NamesFor(log.event)
        /\ "SwapPairEvent" \in NamesFor(log.event)
    BY <1>7 DEF NamesFor
  <2>2. EventNames(log) = PairTrade(log)
    BY <1>7 DEF EventNames
  <2>. QED BY <1>4, <1>7, <2>1, <2>2 DEF PairTrade
<1>. QED BY <1>2, <1>3, <1>5, <1>6, <1>7 DEF MappedEvents

(* The events of one log *)
At(name, i) == [name |-> name, index |-> i]
LogEvents(receipt, i) ==
    [n \in 1 .. Len(EventNames(receipt[i])) |-> At(EventNames(receipt[i])[n], i)]

LEMMA LogEventsType ==
    ASSUME NEW receipt, NEW i \in 1 .. Len(receipt), receipt[i].event \in MappedEvents
    PROVE  LogEvents(receipt, i) \in Seq(Seen(receipt))
<1>. DEFINE names == EventNames(receipt[i])
<1>1. names \in Seq(NamesFor(receipt[i].event))
  BY EventNamesType
<1>. HIDE DEF names
<1>2. /\ Len(names) \in Nat
      /\ \A n \in 1 .. Len(names) : names[n] \in NamesFor(receipt[i].event)
  BY <1>1, LenProperties, ElementOfSeq
<1>3. NamesFor(receipt[i].event) \subseteq EventKinds
  BY NamesAreKinds
<1>4. \A n \in 1 .. Len(names) : At(names[n], i) \in Seen(receipt)
  BY <1>2, <1>3 DEF Seen, At
<1>5. [n \in 1 .. Len(names) |-> At(names[n], i)] \in Seq(Seen(receipt))
  BY <1>2, <1>4
<1>. QED BY <1>5 DEF LogEvents, names

LEMMA MappersType == \A category : Mappers(category) \in Seq(MappedEvents)
<1>1. <<"Transfer", "Issue", "Redeem">> \in Seq(MappedEvents)
  BY ThreeTuple DEF MappedEvents
<1>2. <<"Mint", "Burn", "Swap">> \in Seq(MappedEvents)
  BY ThreeTuple DEF MappedEvents
<1>3. <<"TransferToken">> \in Seq(MappedEvents)
  BY OneTuple DEF MappedEvents
<1>4. <<"PairCreated">> \in Seq(MappedEvents)
  BY OneTuple DEF MappedEvents
<1>. QED BY <1>1, <1>2, <1>3, <1>4, NoTuple DEF Mappers

(* No two mappers of a category look for the same event. *)
LEMMA MappersDiffer ==
    \A category : \A j, k \in 1 .. Len(Mappers(category)) :
        j # k => Mappers(category)[j] # Mappers(category)[k]
  BY DEF Mappers

(* What the mapper of an event finds, and the sum over it: what the logs   *)
(* with this event add to it.                                              *)
LogSum(receipt, V, i) == ValueSum(LogEvents(receipt, i), V)

LEMMA MapLogsType ==
    ASSUME NEW receipt, Len(receipt) \in Nat, NEW event \in MappedEvents
    PROVE  /\ MapLogs(receipt, event) \in Seq(Seen(receipt))
           /\ \A V \in [Seen(receipt) -> Int] :
                  ValueSum(MapLogs(receipt, event), V) =
                      SumTo([i \in 1 .. Len(receipt) |->
                                IF receipt[i].event = event THEN LogSum(receipt, V, i)
                                ELSE 0], Len(receipt))
<1>. DEFINE L == Len(receipt)
            S == Seen(receipt)
            ss == [i \in 1 .. L |->
                      IF receipt[i].event # event THEN <<>> ELSE LogEvents(receipt, i)]
<1>1. \A i \in 1 .. L : receipt[i].event = event => LogEvents(receipt, i) \in Seq(S)
  BY LogEventsType
<1>2. MapLogs(receipt, event) = FlattenSeq(ss)
  BY DEF MapLogs, LogEvents, At
<1>. HIDE DEF S
<1>3. \A i \in 1 .. L : ss[i] \in Seq(S)
  BY <1>1, NoTuple
<1>4. ss \in Seq(Seq(S)) /\ Len(ss) = L
  BY <1>3
<1>5. MapLogs(receipt, event) \in Seq(S)
  BY <1>2, <1>4, FlattenType
<1>6. ASSUME NEW V \in [S -> Int]
      PROVE  ValueSum(MapLogs(receipt, event), V) =
                 SumTo([i \in 1 .. L |-> IF receipt[i].event = event
                                         THEN LogSum(receipt, V, i) ELSE 0], L)
  <2>. DEFINE g == [i \in 1 .. L |-> IF receipt[i].event = event
                                     THEN LogSum(receipt, V, i) ELSE 0]
  <2>1. \A i \in 1 .. Len(ss) : g[i] = ValueSum(ss[i], V)
    BY <1>4, TupleSums DEF LogSum
  <2>. HIDE DEF g, ss
  <2>2. ValueSum(FlattenSeq(ss), V) = SumTo(g, Len(ss))
    BY <1>4, <2>1, FlattenSum
  <2>. QED BY <1>2, <1>4, <2>2 DEF g
<1>. QED BY <1>5, <1>6 DEF S

(* All mappers of a category together: a log adds to the sum if one of the *)
(* mappers looks for its event.                                            *)
LEMMA EventsOfType ==
    ASSUME NEW category, NEW receipt, Len(receipt) \in Nat
    PROVE  EventsOf(category, receipt) \in Seq(Seen(receipt))
<1>. DEFINE mappers == Mappers(category)
            ss == [k \in 1 .. Len(mappers) |-> MapLogs(receipt, mappers[k])]
<1>1. mappers \in Seq(MappedEvents)
  BY MappersType
<1>. HIDE DEF mappers
<1>2. Len(mappers) \in Nat /\ \A k \in 1 .. Len(mappers) : mappers[k] \in MappedEvents
  BY <1>1, LenProperties, ElementOfSeq
<1>3. \A k \in 1 .. Len(mappers) : MapLogs(receipt, mappers[k]) \in Seq(Seen(receipt))
  BY <1>2, MapLogsType
<1>4. ss \in Seq(Seq(Seen(receipt)))
  BY <1>2, <1>3
<1>5. FlattenSeq(ss) \in Seq(Seen(receipt))
  BY <1>4, FlattenType
<1>. QED BY <1>5 DEF EventsOf, mappers

Wanted(category, n, event) == \E k \in 1 .. n : Mappers(category)[k] = event

LEMMA WantedIsMapped ==
    ASSUME NEW category, NEW n \in 0 .. Len(Mappers(category)), NEW event,
           Wanted(category, n, event)
    PROVE  event \in MappedEvents
<1>1. Len(Mappers(category)) \in Nat
  BY MappersType, LenProperties
<1>2. \A k \in 1 .. Len(Mappers(category)) : Mappers(category)[k] \in MappedEvents
  BY MappersType, ElementOfSeq
<1>. QED BY <1>1, <1>2 DEF Wanted

WantedSums(category, receipt, V, n) ==
    [i \in 1 .. Len(receipt) |->
        IF Wanted(category, n, receipt[i].event) THEN LogSum(receipt, V, i) ELSE 0]

LEMMA EventsOfSum ==
    ASSUME NEW category, NEW receipt, Len(receipt) \in Nat,
           NEW V \in [Seen(receipt) -> Int]
    PROVE  ValueSum(EventsOf(category, receipt), V) =
               SumTo(WantedSums(category, receipt, V, Len(Mappers(category))), Len(receipt))
<1>. DEFINE L == Len(receipt)
            S == Seen(receipt)
            mappers == Mappers(category)
            N == Len(mappers)
            found(event) == [i \in 1 .. L |-> IF receipt[i].event = event
                                              THEN LogSum(receipt, V, i) ELSE 0]
            h == [k \in 1 .. N |-> SumTo(found(mappers[k]), L)]
            ss == [k \in 1 .. N |-> MapLogs(receipt, mappers[k])]
            sums(n) == WantedSums(category, receipt, V, n)
            T == {n \in Nat : n <= N => SumTo(h, n) = SumTo(sums(n), L)}
<1>1. N \in Nat /\ \A k \in 1 .. N : mappers[k] \in MappedEvents
  BY MappersType, LenProperties, ElementOfSeq
<1>2. \A k \in 1 .. N : MapLogs(receipt, mappers[k]) \in Seq(S)
  BY <1>1, MapLogsType
<1>3. \A k \in 1 .. N : ValueSum(MapLogs(receipt, mappers[k]), V) = SumTo(found(mappers[k]), L)
  BY <1>1, MapLogsType
<1>4. \A i \in 1 .. L : receipt[i].event \in MappedEvents => LogSum(receipt, V, i) \in Int
  BY LogEventsType, ValuesType DEF LogSum
<1>5. \A n \in 0 .. N : \A i \in 1 .. L : sums(n)[i] \in Int
  <2>1. SUFFICES ASSUME NEW n \in 0 .. N, NEW i \in 1 .. L PROVE sums(n)[i] \in Int
    OBVIOUS
  <2>2. CASE Wanted(category, n, receipt[i].event)
    BY <1>4, <2>2, WantedIsMapped DEF WantedSums
  <2>3. CASE ~Wanted(category, n, receipt[i].event)
    BY <2>3 DEF WantedSums
  <2>. QED BY <2>2, <2>3
<1>6. \A k \in 1 .. N : \A i \in 1 .. L : found(mappers[k])[i] \in Int
  BY <1>1, <1>4
<1>7. \A k \in 1 .. N : h[k] \in Int
  <2>1. ASSUME NEW k \in 1 .. N PROVE SumTo(found(mappers[k]), L) \in Int
    <3>. DEFINE f == found(mappers[k])
    <3>1. \A i \in 1 .. L : f[i] \in Int
      BY <1>6
    <3>. HIDE DEF f
    <3>2. SumTo(f, L) \in Int
      BY <3>1, SumToType
    <3>. QED BY <3>2 DEF f
  <2>. QED BY <2>1
<1>8. 0 \in T
  <2>1. \A i \in 1 .. L : sums(0)[i] = 0
    BY DEF WantedSums, Wanted
  <2>. HIDE DEF sums
  <2>2. SumTo(sums(0), L) = 0
    BY <2>1, SumToZero
  <2>. QED BY <2>2, SumToNone
<1>9. ASSUME NEW n \in Nat, n \in T PROVE n + 1 \in T
  <2>1. SUFFICES ASSUME n + 1 <= N PROVE SumTo(h, n + 1) = SumTo(sums(n + 1), L)
    OBVIOUS
  <2>. DEFINE m == n + 1
              f == found(mappers[m])
              g == sums(n)
              G == sums(m)
  <2>2. n \in 0 .. N /\ m \in 1 .. N /\ m \in 0 .. N
    BY <1>1, <2>1
  <2>3. SumTo(h, n) = SumTo(g, L)
    BY <1>9, <2>2
  <2>4. SumTo(h, n + 1) = SumTo(h, n) + h[m]
    <3>1. \A k \in 1 .. n + 1 : h[k] \in Int
      BY <1>7, <2>1
    <3>. HIDE DEF h
    <3>. QED BY <3>1, SumToNext
  <2>5. h[m] = SumTo(f, L)
    BY <2>2
  <2>6. ASSUME NEW i \in 1 .. L PROVE G[i] = g[i] + f[i]
    <3>1. Wanted(category, m, receipt[i].event) <=>
              Wanted(category, n, receipt[i].event) \/ mappers[m] = receipt[i].event
      BY DEF Wanted
    <3>2. Wanted(category, n, receipt[i].event) => mappers[m] # receipt[i].event
      BY <2>2, MappersDiffer DEF Wanted
    <3>3. g[i] \in Int /\ f[i] \in Int
      BY <1>5, <1>6, <2>2
    <3>. QED BY <3>1, <3>2, <3>3 DEF WantedSums
  <2>7. \A i \in 1 .. L : g[i] \in Int /\ f[i] \in Int /\ G[i] = g[i] + f[i]
    BY <1>5, <1>6, <2>2, <2>6
  <2>. HIDE DEF f, g, G, h, m
  <2>8. SumTo(G, L) = SumTo(g, L) + SumTo(f, L)
    BY <2>7, SumToPlus
  <2>9. SumTo(h, n + 1) = SumTo(G, L)
    BY <2>3, <2>4, <2>5, <2>8
  <2>. QED BY <2>9 DEF G, m
<1>. HIDE DEF T
<1>10. N \in T
  BY <1>1, <1>8, <1>9, NatSetInduction
<1>11. ss \in Seq(Seq(S)) /\ Len(ss) = N
  BY <1>1, <1>2
<1>12. \A k \in 1 .. Len(ss) : h[k] = ValueSum(ss[k], V)
  <2>. HIDE DEF found, mappers
  <2>1. \A k \in 1 .. N : h[k] = SumTo(found(mappers[k]), L)
                       /\ ss[k] = MapLogs(receipt, mappers[k])
    OBVIOUS
  <2>. HIDE DEF h, ss
  <2>. QED BY <1>3, <1>11, <2>1
<1>13. EventsOf(category, receipt) = FlattenSeq(ss)
  BY DEF EventsOf
<1>. HIDE DEF h, ss
<1>14. ValueSum(FlattenSeq(ss), V) = SumTo(h, Len(ss))
  BY <1>11, <1>12, FlattenSum
<1>15. SumTo(h, N) = SumTo(sums(N), L)
  BY <1>1, <1>10 DEF T
<1>. QED BY <1>11, <1>13, <1>14, <1>15

-----------------------------------------------------------------------------
(* The amounts of a contract.  Irrelevant events count for nothing.        *)
Weighted(V, address, receipt, allowed) ==
    [e \in Seen(receipt) |-> IF Relevant(address, receipt, allowed, e) THEN V[e] ELSE 0]

LEMMA WeightedType ==
    ASSUME NEW receipt, NEW V \in [Seen(receipt) -> Int], NEW address, NEW allowed
    PROVE  Weighted(V, address, receipt, allowed) \in [Seen(receipt) -> Int]
  BY DEF Weighted

LEMMA SelectSum ==
    ASSUME NEW receipt, NEW V \in [Seen(receipt) -> Int], NEW address, NEW allowed,
           NEW s \in Seq(Seen(receipt))
    PROVE  ValueSum(RelevantIn(s, address, receipt, allowed), V) =
               ValueSum(s, Weighted(V, address, receipt, allowed))
<1>. DEFINE E == Seen(receipt)
            W == Weighted(V, address, receipt, allowed)
            g == Values(s, W)
            ss == [i \in 1 .. Len(s) |->
                      IF Relevant(address, receipt, allowed, s[i]) THEN <<s[i]>> ELSE <<>>]
<1>1. Len(s) \in Nat /\ \A i \in 1 .. Len(s) : s[i] \in E
  BY LenProperties, ElementOfSeq
<1>2. \A i \in 1 .. Len(s) : <<s[i]>> \in Seq(E) /\ <<>> \in Seq(E)
  BY <1>1, OneTuple, NoTuple
<1>3. ss \in Seq(Seq(E)) /\ Len(ss) = Len(s)
  BY <1>1, <1>2
<1>4. \A e \in E : /\ V[e] \in Int
                   /\ W[e] = IF Relevant(address, receipt, allowed, e) THEN V[e] ELSE 0
  BY DEF Weighted
<1>. HIDE DEF E, W
<1>5. ASSUME NEW i \in 1 .. Len(s) PROVE g[i] = ValueSum(ss[i], V)
  <2>1. s[i] \in E
    BY <1>1
  <2>2. g[i] = W[s[i]]
    BY DEF Values
  <2>3. CASE Relevant(address, receipt, allowed, s[i])
    <3>1. ss[i] = <<s[i]>> /\ W[s[i]] = V[s[i]] /\ V[s[i]] \in Int
      BY <1>4, <2>1, <2>3
    <3>2. ValueSum(<<s[i]>>, V) = V[s[i]]
      BY <3>1, TupleSums
    <3>. QED BY <2>2, <3>1, <3>2
  <2>4. CASE ~Relevant(address, receipt, allowed, s[i])
    <3>1. ss[i] = <<>> /\ W[s[i]] = 0
      BY <1>4, <2>1, <2>4
    <3>. QED BY <2>2, <3>1, TupleSums
  <2>. QED BY <2>3, <2>4
<1>6. RelevantIn(s, address, receipt, allowed) = FlattenSeq(ss)
  BY DEF RelevantIn, Select
<1>7. V \in [E -> Int]
  BY DEF E
<1>. HIDE DEF g, ss
<1>8. ValueSum(FlattenSeq(ss), V) = SumTo(g, Len(ss))
  BY <1>3, <1>5, <1>7, FlattenSum
<1>. QED BY <1>3, <1>6, <1>8 DEF ValueSum, g, W

ContractSums(address, category, allowed, receipt, V) ==
    WantedSums(category, receipt, Weighted(V, address, receipt, allowed),
               Len(Mappers(category)))

LEMMA ContractEventsSum ==
    ASSUME NEW address, NEW category, NEW allowed, NEW receipt, Len(receipt) \in Nat,
           NEW V \in [Seen(receipt) -> Int]
    PROVE  /\ ContractEvents(address, category, allowed, receipt) \in Seq(Seen(receipt))
           /\ ValueSum(ContractEvents(address, category, allowed, receipt), V) =
                  SumTo(ContractSums(address, category, allowed, receipt, V), Len(receipt))
<1>. DEFINE s == EventsOf(category, receipt)
            E == Seen(receipt)
            R == {e \in E : Relevant(address, receipt, allowed, e)}
            W == Weighted(V, address, receipt, allowed)
<1>1. s \in Seq(E) /\ W \in [E -> Int]
  BY EventsOfType, WeightedType
<1>2. ContractEvents(address, category, allowed, receipt) =
          RelevantIn(s, address, receipt, allowed)
  BY DEF ContractEvents, RelevantIn
<1>3. RelevantIn(s, address, receipt, allowed) \in Seq(R) /\ R \subseteq E
  BY <1>1, SelectRelevant
<1>4. ValueSum(RelevantIn(s, address, receipt, allowed), V) = ValueSum(s, W)
  BY <1>1, SelectSum
<1>5. ValueSum(s, W) = SumTo(WantedSums(category, receipt, W, Len(Mappers(category))), Len(receipt))
  BY <1>1, EventsOfSum
<1>6. RelevantIn(s, address, receipt, allowed) \in Seq(E)
  <2>. HIDE DEF R, E, s
  <2>. QED BY <1>3, SeqMonotonic
<1>. QED BY <1>2, <1>4, <1>5, <1>6 DEF ContractSums

(* What one log adds, by the names it has been given                       *)
LEMMA LogSumOfNames ==
    ASSUME NEW receipt, NEW i \in 1 .. Len(receipt), receipt[i].event \in MappedEvents,
           NEW V \in [Seen(receipt) -> Int]
    PROVE  /\ \A x : EventNames(receipt[i]) = <<x>> =>
                  At(x, i) \in Seen(receipt) /\ LogSum(receipt, V, i) = V[At(x, i)]
           /\ \A x, y : EventNames(receipt[i]) = <<x, y>> =>
                  /\ At(x, i) \in Seen(receipt) /\ At(y, i) \in Seen(receipt)
                  /\ LogSum(receipt, V, i) = V[At(x, i)] + V[At(y, i)]
<1>1. LogEvents(receipt, i) \in Seq(Seen(receipt))
  BY LogEventsType
<1>2. ASSUME NEW x, EventNames(receipt[i]) = <<x>>
      PROVE  At(x, i) \in Seen(receipt) /\ LogSum(receipt, V, i) = V[At(x, i)]
  <2>1. LogEvents(receipt, i) = <<At(x, i)>>
    BY <1>2 DEF LogEvents
  <2>2. At(x, i) \in Seen(receipt)
    BY <1>1, <2>1
  <2>3. V[At(x, i)] \in Int
    BY <2>2
  <2>. QED BY <2>1, <2>2, <2>3, TupleSums DEF LogSum
<1>3. ASSUME NEW x, NEW y, EventNames(receipt[i]) = <<x, y>>
      PROVE  /\ At(x, i) \in Seen(receipt) /\ At(y, i) \in Seen(receipt)
             /\ LogSum(receipt, V, i) = V[At(x, i)] + V[At(y, i)]
  <2>1. LogEvents(receipt, i) = <<At(x, i), At(y, i)>>
    BY <1>3 DEF LogEvents
  <2>2. At(x, i) \in Seen(receipt) /\ At(y, i) \in Seen(receipt)
    BY <1>1, <2>1
  <2>3. V[At(x, i)] \in Int /\ V[At(y, i)] \in Int
    BY <2>2
  <2>. QED BY <2>1, <2>2, <2>3, TupleSums DEF LogSum
<1>. QED BY <1>2, <1>3

(* The amounts of the fungible events, ...                                 *)
TypedReceipt(receipt) ==
    /\ Len(receipt) \in Nat /\ DOMAIN receipt = 1 .. Len(receipt)
    /\ \A i \in 1 .. Len(receipt) : LogTyped(receipt[i])

Amounts(receipt) == [e \in Seen(receipt) |-> Amount(receipt[e.index], e.name)]

LEMMA AmountsType ==
    ASSUME NEW receipt, TypedReceipt(receipt)
    PROVE  Amounts(receipt) \in [Seen(receipt) -> Int]
<1>1. ASSUME NEW e \in Seen(receipt) PROVE Amount(receipt[e.index], e.name) \in Int
  <2>. DEFINE log == receipt[e.index]
  <2>1. /\ log.event \in MappedEvents /\ e.name \in NamesFor(log.event)
        /\ LogTyped(log)
    BY DEF Seen, TypedReceipt
  <2>. HIDE DEF log
  <2>2. e.name \in {"MintFungibleEvent", "BurnFungibleEvent"} =>
            log.event \in {"Transfer", "Issue", "Redeem"}
    BY <2>1 DEF MappedEvents, NamesFor
  <2>3. e.name \in {"MintFungibleEvent", "BurnFungibleEvent"} => log.value \in Nat
    BY <2>1, <2>2 DEF LogTyped
  <2>4. Amount(log, e.name) \in Int
    BY <2>3 DEF Amount
  <2>. QED BY <2>4 DEF log
<1>. QED BY <1>1 DEF Amounts

LEMMA AmountChangedIsSum ==
    ASSUME NEW receipt, NEW events \in Seq(Seen(receipt))
    PROVE  AmountChanged(events, receipt) = ValueSum(events, Amounts(receipt))
<1>1. Len(events) \in Nat /\ DOMAIN events = 1 .. Len(events)
      /\ \A k \in 1 .. Len(events) : events[k] \in Seen(receipt)
  BY LenProperties, ElementOfSeq
<1>. DEFINE f == [k \in 1 .. Len(events) |-> Values(events, Amounts(receipt))[k]]
<1>2. [k \in DOMAIN events |-> Amount(receipt[events[k].index], events[k].name)] = f
  BY <1>1 DEF Values, Amounts
<1>. HIDE DEF f
<1>3. AmountChanged(events, receipt) = SumOver(f)
  BY <1>2 DEF AmountChanged, SumOf
<1>. QED BY <1>3 DEF ValueSum, SumTo, f

(* ... which are what a log the code agrees on changes in the circulation  *)
(* when mint and burn events are stored, ...                               *)
LEMMA LogAmount ==
    ASSUME NEW receipt, TypedReceipt(receipt), NEW address, NEW allowed,
           {"MintFungibleEvent", "BurnFungibleEvent"} \subseteq allowed,
           NEW i \in 1 .. Len(receipt), receipt[i].event \in MappedEvents,
           Agreed(receipt[i])
    PROVE  LogSum(receipt, Weighted(Amounts(receipt), address, receipt, allowed), i) =
               Counted(receipt[i].address = address, Circulation(receipt[i]))
<1>. DEFINE W == Weighted(Amounts(receipt), address, receipt, allowed)
            log == receipt[i]
            own == log.address = address
<1>1. W \in [Seen(receipt) -> Int]
  BY AmountsType, WeightedType
<1>2. ASSUME NEW name, At(name, i) \in Seen(receipt)
      PROVE  W[At(name, i)] = IF own /\ name \in allowed THEN Amount(log, name) ELSE 0
  BY <1>2 DEF Weighted, Amounts, Relevant, At
<1>3. ASSUME NEW name, At(name, i) \in Seen(receipt)
      PROVE  W[At(name, i)] = IF own THEN Amount(log, name) ELSE 0
  <2>1. CASE name \in allowed
    BY <1>2, <1>3, <2>1
  <2>2. CASE name \notin allowed
    <3>1. Amount(log, name) = 0
      BY <2>2 DEF Amount
    <3>. QED BY <1>2, <1>3, <2>2, <3>1
  <2>. QED BY <2>1, <2>2
<1>4. LogTyped(log)
  BY DEF TypedReceipt
<1>5. /\ \A x : EventNames(log) = <<x>> =>
            LogSum(receipt, W, i) = IF own THEN Amount(log, x) ELSE 0
      /\ \A x, y : EventNames(log) = <<x, y>> =>
            LogSum(receipt, W, i) = (IF own THEN Amount(log, x) ELSE 0)
                                  + (IF own THEN Amount(log, y) ELSE 0)
  BY <1>1, <1>3, LogSumOfNames
<1>. HIDE DEF W, log, own
<1>6. CASE log.event = "Transfer"
  <2>1. log.value \in Nat
    BY <1>4, <1>6 DEF LogTyped
  <2>0. /\ log.dst \in BurnAddresses <=> log.dst \in BurnAccounts
        /\ log.src \in BurnAddresses <=> log.src \in BurnAccounts
        /\ log.dst \in BurnAddresses => log.src \notin BurnAddresses
    <3>1. Dead \notin {log.src, log.dst} /\ {log.src, log.dst} # {Zero}
      BY <1>6 DEF Agreed, log
    <3>2. LowerDead \notin {log.src, log.dst}
      BY <1>4, <1>6 DEF LogTyped
    <3>. QED BY <3>1, <3>2 DEF BurnAddresses, BurnAccounts
  <2>2. /\ Amount(log, "MintFungibleEvent") = log.value
        /\ Amount(log, "BurnFungibleEvent") = -log.value
        /\ Amount(log, "TransferFungibleEvent") = 0
    BY DEF Amount
  <2>3. EventNames(log) = Erc20Transfer(log)
    BY <1>6 DEF EventNames
  <2>4. CASE log.dst \in BurnAddresses
    <3>1. EventNames(log) = <<"BurnFungibleEvent", "TransferFungibleEvent">>
      BY <2>3, <2>4 DEF Erc20Transfer, TransferNames
    <3>2. LogSum(receipt, W, i) = Counted(own, -log.value)
      BY <1>5, <2>1, <2>2, <3>1 DEF Counted
    <3>3. Circulation(log) = -log.value
      BY <1>6, <2>0, <2>1, <2>4 DEF Circulation, Counted
    <3>. QED BY <3>2, <3>3 DEF W, log, own
  <2>5. CASE log.dst \notin BurnAddresses /\ log.src \in BurnAddresses
    <3>1. EventNames(log) = <<"MintFungibleEvent", "TransferFungibleEvent">>
      BY <2>3, <2>5 DEF Erc20Transfer, TransferNames
    <3>2. LogSum(receipt, W, i) = Counted(own, log.value)
      BY <1>5, <2>1, <2>2, <3>1 DEF Counted
    <3>3. Circulation(log) = log.value
      BY <1>6, <2>0, <2>1, <2>5 DEF Circulation, Counted
    <3>. QED BY <3>2, <3>3 DEF W, log, own
  <2>6. CASE log.dst \notin BurnAddresses /\ log.src \notin BurnAddresses
    <3>1. EventNames(log) = <<"TransferFungibleEvent">>
      BY <2>3, <2>6 DEF Erc20Transfer, TransferNames
    <3>2. LogSum(receipt, W, i) = 0
      BY <1>5, <2>2, <3>1
    <3>3. Circulation(log) = 0
      BY <1>6, <2>0, <2>6 DEF Circulation, Counted
    <3>. QED BY <3>2, <3>3 DEF W, log, own, Counted
  <2>. QED BY <2>4, <2>5, <2>6
<1>7. CASE log.event = "Issue"
  <2>1. EventNames(log) = <<"MintFungibleEvent">> /\ Circulation(log) = log.value
    BY <1>7 DEF EventNames, Erc20Supply, Circulation
  <2>2. Amount(log, "MintFungibleEvent") = log.value
    BY DEF Amount
  <2>. QED BY <1>5, <2>1, <2>2 DEF W, log, own, Counted
<1>8. CASE log.event = "Redeem"
  <2>1. EventNames(log) = <<"BurnFungibleEvent">> /\ Circulation(log) = -log.value
    BY <1>8 DEF EventNames, Erc20Supply, Circulation
  <2>2. Amount(log, "BurnFungibleEvent") = -log.value
    BY DEF Amount
  <2>. QED BY <1>5, <2>1, <2>2 DEF W, log, own, Counted
<1>9. CASE log.event = "TransferToken"
  <2>1. Circulation(log) = 0
    BY <1>9 DEF Circulation
  <2>2. EventNames(log) = Erc721Transfer(log)
    BY <1>9 DEF EventNames
  <2>3. /\ Amount(log, "MintNonFungibleEvent") = 0
        /\ Amount(log, "BurnNonFungibleEvent") = 0
        /\ Amount(log, "TransferNonFungibleEvent") = 0
    BY DEF Amount
  <2>4. LogSum(receipt, W, i) = 0
    BY <1>5, <2>2, <2>3 DEF Erc721Transfer, TransferNames
  <2>. QED BY <2>1, <2>4 DEF W, log, own, Counted
<1>10. CASE log.event \in {"Mint", "Burn", "Swap", "PairCreated"}
  <2>1. Circulation(log) = 0
    BY <1>10 DEF Circulation
  <2>2. EventNames(log) \in {<<"MintPairEvent">>, <<"BurnPairEvent">>,
                             <<"SwapPairEvent">>, <<"PairCreatedEvent">>}
    BY <1>10 DEF EventNames, PairTrade, PairCreation
  <2>3. /\ Amount(log, "MintPairEvent") = 0 /\ Amount(log, "BurnPairEvent") = 0
        /\ Amount(log, "SwapPairEvent") = 0 /\ Amount(log, "PairCreatedEvent") = 0
    BY DEF Amount
  <2>4. LogSum(receipt, W, i) = 0
    BY <1>5, <2>2, <2>3
  <2>. QED BY <2>1, <2>4 DEF W, log, own, Counted
<1>. QED BY <1>6, <1>7, <1>8, <1>9, <1>10 DEF MappedEvents, log

LEMMA NoRelevantValue ==
    ASSUME NEW address, NEW category, NEW allowed, NEW receipt, Len(receipt) \in Nat,
           NEW V \in [Seen(receipt) -> Int],
           \A e \in Seen(receipt) : e.name \in allowed => V[e] = 0
    PROVE  ValueSum(ContractEvents(address, category, allowed, receipt), V) = 0
<1>. DEFINE R == {e \in Seen(receipt) : Relevant(address, receipt, allowed, e)}
            s == ContractEvents(address, category, allowed, receipt)
<1>1. s \in Seq(R)
  <2>1. RelevantIn(EventsOf(category, receipt), address, receipt, allowed) \in Seq(R)
    BY EventsOfType, SelectRelevant
  <2>. QED BY <2>1 DEF ContractEvents, RelevantIn
<1>2. \A e \in R : V[e] = 0
  BY DEF Relevant
<1>. HIDE DEF R, s
<1>3. Len(s) \in Nat /\ \A k \in 1 .. Len(s) : s[k] \in R
  BY <1>1, LenProperties, ElementOfSeq
<1>4. \A k \in 1 .. Len(s) : Values(s, V)[k] = 0
  BY <1>2, <1>3 DEF Values
<1>5. SumTo(Values(s, V), Len(s)) = 0
  BY <1>3, <1>4, SumToZero
<1>. QED BY <1>5 DEF ValueSum, s

(* Where the code agrees on every log, the supply change of a contract is  *)
(* that of the circulation of a token of which mint and burn events are    *)
(* stored, and 0 if neither is.                                            *)
LEMMA SupplyIsCirculation ==
    ASSUME NEW address, NEW category \in Categories, NEW allowed,
           NEW receipt, TypedReceipt(receipt),
           \A i \in 1 .. Len(receipt) : Agreed(receipt[i]),
           \/ {"MintFungibleEvent", "BurnFungibleEvent"} \subseteq allowed
           \/ {"MintFungibleEvent", "BurnFungibleEvent"} \cap allowed = {}
    PROVE  AmountChanged(ContractEvents(address, category, allowed, receipt), receipt)
              \in {0, CirculationChange(address, receipt)}
<1>. DEFINE s == ContractEvents(address, category, allowed, receipt)
            V == Amounts(receipt)
            L == Len(receipt)
            c == [i \in 1 .. L |-> Counted(receipt[i].address = address,
                                           Circulation(receipt[i]))]
            g == ContractSums(address, category, allowed, receipt, V)
<1>1. L \in Nat /\ DOMAIN receipt = 1 .. L /\ V \in [Seen(receipt) -> Int]
  BY AmountsType DEF TypedReceipt
<1>2. /\ s \in Seq(Seen(receipt)) /\ ValueSum(s, V) = SumTo(g, L)
      /\ AmountChanged(s, receipt) = ValueSum(s, V)
  BY <1>1, ContractEventsSum, AmountChangedIsSum
<1>3. CASE {"MintFungibleEvent", "BurnFungibleEvent"} \cap allowed = {}
  <2>1. ASSUME NEW e \in Seen(receipt), e.name \in allowed PROVE V[e] = 0
    BY <1>3, <2>1 DEF Amounts, Amount
  <2>. HIDE DEF V
  <2>2. ValueSum(s, V) = 0
    BY <1>1, <2>1, NoRelevantValue
  <2>. QED BY <1>2, <2>2
<1>4. CASE {"MintFungibleEvent", "BurnFungibleEvent"} \subseteq allowed
  <2>0. c = [i \in DOMAIN receipt |-> Counted(receipt[i].address = address,
                                              Circulation(receipt[i]))]
    BY <1>1
  <2>1. CirculationChange(address, receipt) = SumTo(c, L)
    <3>1. c = [k \in 1 .. L |-> c[k]]
      OBVIOUS
    <3>. HIDE DEF c
    <3>. QED BY <2>0, <3>1 DEF CirculationChange, SumOf, SumTo
  <2>2. ASSUME NEW i \in 1 .. L, Wanted(category, Len(Mappers(category)), receipt[i].event)
        PROVE  g[i] = c[i]
    <3>1. receipt[i].event \in MappedEvents
      <4>1. Len(Mappers(category)) \in 0 .. Len(Mappers(category))
        BY MappersType, LenProperties
      <4>. QED BY <2>2, <4>1, WantedIsMapped
    <3>2. LogSum(receipt, Weighted(V, address, receipt, allowed), i) = c[i]
      BY <1>4, <3>1, LogAmount
    <3>. QED BY <2>2, <3>2 DEF ContractSums, WantedSums
  <2>3. \A i \in 1 .. L : ~Wanted(category, Len(Mappers(category)), receipt[i].event)
                             => g[i] = 0
    BY DEF ContractSums, WantedSums
  <2>4. CASE category = "erc20"
    <3>1. ASSUME NEW i \in 1 .. L, ~Wanted(category, Len(Mappers(category)), receipt[i].event)
          PROVE  c[i] = 0
      <4>1. receipt[i].event \notin {"Transfer", "Issue", "Redeem"}
        BY <2>4, <3>1 DEF Wanted, Mappers
      <4>2. Circulation(receipt[i]) = 0
        BY <4>1 DEF Circulation
      <4>. QED BY <4>2 DEF Counted
    <3>. HIDE DEF c, g
    <3>2. \A i \in 1 .. L : g[i] = c[i]
      BY <2>2, <2>3, <3>1
    <3>3. SumTo(g, L) = SumTo(c, L)
      BY <3>2, SumToEqual
    <3>. QED BY <1>2, <2>1, <3>3
  <2>5. CASE category # "erc20"
    <3>1. ASSUME NEW i \in 1 .. L, Wanted(category, Len(Mappers(category)), receipt[i].event)
          PROVE  c[i] = 0
      <4>1. receipt[i].event \in {"TransferToken", "Mint", "Burn", "Swap", "PairCreated"}
        BY <2>5, <3>1 DEF Wanted, Mappers, Categories
      <4>2. Circulation(receipt[i]) = 0
        BY <4>1 DEF Circulation
      <4>. QED BY <4>2 DEF Counted
    <3>. HIDE DEF c, g
    <3>2. \A i \in 1 .. L : g[i] = 0
      BY <2>2, <2>3, <3>1
    <3>3. SumTo(g, L) = 0
      BY <1>1, <3>2, SumToZero
    <3>. QED BY <1>2, <3>3
  <2>. QED BY <2>4, <2>5
<1>. QED BY <1>3, <1>4

(* ... and those of the pair events, which are what a log changes in the   *)
(* reserves when mints, burns and swaps are stored.                        *)
PairNames == {"MintPairEvent", "BurnPairEvent", "SwapPairEvent"}

PairAmounts(receipt, j) ==
    [e \in Seen(receipt) |-> PairAmount(receipt[e.index], e.name, j)]

LEMMA PairAmountsType ==
    ASSUME NEW receipt, TypedReceipt(receipt), NEW j \in 1 .. 2
    PROVE  PairAmounts(receipt, j) \in [Seen(receipt) -> Int]
<1>1. ASSUME NEW e \in Seen(receipt) PROVE PairAmount(receipt[e.index], e.name, j) \in Int
  <2>. DEFINE log == receipt[e.index]
  <2>1. /\ log.event \in MappedEvents /\ e.name \in NamesFor(log.event)
        /\ LogTyped(log)
    BY DEF Seen, TypedReceipt
  <2>. HIDE DEF log
  <2>2. e.name \in {"MintPairEvent", "BurnPairEvent", "SwapPairEvent"} =>
            log.event \in {"Mint", "Burn", "Swap"}
    BY <2>1 DEF MappedEvents, NamesFor
  <2>3. e.name \in {"MintPairEvent", "BurnPairEvent", "SwapPairEvent"} =>
            log.in[j] \in Nat /\ log.out[j] \in Nat
    BY <2>1, <2>2 DEF LogTyped
  <2>4. PairAmount(log, e.name, j) \in Int
    BY <2>3 DEF PairAmount
  <2>. QED BY <2>4 DEF log
<1>. QED BY <1>1 DEF PairAmounts

LEMMA PairAmountChangedIsSum ==
    ASSUME NEW receipt, NEW events \in Seq(Seen(receipt)), NEW j
    PROVE  PairAmountChanged(events, receipt, j) = ValueSum(events, PairAmounts(receipt, j))
<1>1. Len(events) \in Nat /\ DOMAIN events = 1 .. Len(events)
      /\ \A k \in 1 .. Len(events) : events[k] \in Seen(receipt)
  BY LenProperties, ElementOfSeq
<1>. DEFINE f == [k \in 1 .. Len(events) |-> Values(events, PairAmounts(receipt, j))[k]]
<1>2. [k \in DOMAIN events |->
          PairAmount(receipt[events[k].index], events[k].name, j)] = f
  BY <1>1 DEF Values, PairAmounts
<1>. HIDE DEF f
<1>3. PairAmountChanged(events, receipt, j) = SumOver(f)
  BY <1>2 DEF PairAmountChanged, SumOf
<1>. QED BY <1>3 DEF ValueSum, SumTo, f

LEMMA LogPairAmount ==
    ASSUME NEW receipt, TypedReceipt(receipt), NEW address, NEW allowed, NEW j \in 1 .. 2,
           {"MintPairEvent", "BurnPairEvent", "SwapPairEvent"} \subseteq allowed,
           NEW i \in 1 .. Len(receipt), receipt[i].event \in {"Mint", "Burn", "Swap"}
    PROVE  LogSum(receipt, Weighted(PairAmounts(receipt, j), address, receipt, allowed), i) =
               Counted(receipt[i].address = address, Reserves(receipt[i], j))
<1>. DEFINE W == Weighted(PairAmounts(receipt, j), address, receipt, allowed)
            log == receipt[i]
            own == log.address = address
<1>1. W \in [Seen(receipt) -> Int]
  BY PairAmountsType, WeightedType
<1>2. log.event \in MappedEvents
  BY DEF MappedEvents
<1>3. ASSUME NEW name \in allowed, At(name, i) \in Seen(receipt)
      PROVE  W[At(name, i)] = IF own THEN PairAmount(log, name, j) ELSE 0
  BY <1>3 DEF Weighted, PairAmounts, Relevant, At
<1>4. log.in[j] \in Nat /\ log.out[j] \in Nat
  BY DEF TypedReceipt, LogTyped
<1>5. \A x \in allowed : EventNames(log) = <<x>> =>
          LogSum(receipt, W, i) = IF own THEN PairAmount(log, x, j) ELSE 0
  BY <1>1, <1>2, <1>3, LogSumOfNames
<1>6. log.event \in {"Mint", "Burn", "Swap"} /\ EventNames(log) = PairTrade(log)
  BY DEF EventNames
<1>. HIDE DEF W, log, own
<1>7. CASE log.event = "Mint"
  <2>1. EventNames(log) = <<"MintPairEvent">>
    BY <1>6, <1>7 DEF PairTrade
  <2>2. PairAmount(log, "MintPairEvent", j) = log.in[j] /\ Reserves(log, j) = log.in[j]
    BY <1>4, <1>7 DEF PairAmount, Reserves, Counted
  <2>. QED BY <1>5, <2>1, <2>2 DEF W, log, own, Counted
<1>8. CASE log.event = "Burn"
  <2>1. EventNames(log) = <<"BurnPairEvent">>
    BY <1>6, <1>8 DEF PairTrade
  <2>2. PairAmount(log, "BurnPairEvent", j) = -log.out[j] /\ Reserves(log, j) = -log.out[j]
    BY <1>4, <1>8 DEF PairAmount, Reserves, Counted
  <2>. QED BY <1>5, <2>1, <2>2 DEF W, log, own, Counted
<1>9. CASE log.event = "Swap"
  <2>1. EventNames(log) = <<"SwapPairEvent">>
    BY <1>6, <1>9 DEF PairTrade
  <2>2. /\ PairAmount(log, "SwapPairEvent", j) = log.in[j] - log.out[j]
        /\ Reserves(log, j) = log.in[j] - log.out[j]
    BY <1>4, <1>9 DEF PairAmount, Reserves, Counted
  <2>. QED BY <1>5, <2>1, <2>2 DEF W, log, own, Counted
<1>. QED BY <1>6, <1>7, <1>8, <1>9

LEMMA NoPairAmount ==
    ASSUME NEW receipt, NEW address, NEW allowed, NEW j, NEW i \in 1 .. Len(receipt),
           receipt[i].event \in MappedEvents \ {"Mint", "Burn", "Swap"}
    PROVE  LogSum(receipt, Weighted(PairAmounts(receipt, j), address, receipt, allowed), i) = 0
<1>. DEFINE W == Weighted(PairAmounts(receipt, j), address, receipt, allowed)
            s == LogEvents(receipt, i)
<1>1. s \in Seq(Seen(receipt))
  BY LogEventsType
<1>2. Len(s) \in Nat /\ \A n \in 1 .. Len(s) : s[n] \in Seen(receipt)
  BY <1>1, LenProperties, ElementOfSeq
<1>3. Len(s) = Len(EventNames(receipt[i])) /\ \A n \in 1 .. Len(s) : s[n].index = i
  <2>1. Len(EventNames(receipt[i])) \in Nat
    BY EventNamesType, LenProperties
  <2>. QED BY <2>1 DEF LogEvents, At
<1>. HIDE DEF s
<1>4. ASSUME NEW n \in 1 .. Len(s) PROVE Values(s, W)[n] = 0
  <2>1. s[n] \in Seen(receipt) /\ s[n].index = i
    BY <1>2, <1>3
  <2>2. s[n].name \in NamesFor(receipt[i].event)
    BY <2>1 DEF Seen
  <2>3. s[n].name \notin {"MintPairEvent", "BurnPairEvent", "SwapPairEvent"}
    BY <2>2 DEF NamesFor, MappedEvents
  <2>4. W[s[n]] = 0
    BY <2>1, <2>3 DEF Weighted, PairAmounts, PairAmount
  <2>. QED BY <2>4 DEF Values
<1>. HIDE DEF W
<1>5. SumTo(Values(s, W), Len(s)) = 0
  BY <1>2, <1>4, SumToZero
<1>. QED BY <1>5 DEF LogSum, ValueSum, s, W

(* Of a pair whose events are stored, the liquidity changes are those of   *)
(* the reserves; other contracts have none.                                *)
LEMMA LiquidityIsReserves ==
    ASSUME NEW address, NEW category \in Categories, NEW allowed,
           NEW receipt, TypedReceipt(receipt), NEW j \in 1 .. 2,
           PairNames \subseteq allowed \/ PairNames \cap allowed = {}
    PROVE  PairAmountChanged(ContractEvents(address, category, allowed, receipt), receipt, j)
              = IF category = "pair" /\ PairNames \subseteq allowed
                THEN ReservesChange(address, receipt, j) ELSE 0
<1>. DEFINE s == ContractEvents(address, category, allowed, receipt)
            V == PairAmounts(receipt, j)
            L == Len(receipt)
            c == [i \in 1 .. L |-> Counted(receipt[i].address = address,
                                           Reserves(receipt[i], j))]
            g == ContractSums(address, category, allowed, receipt, V)
            wanted(i) == Wanted(category, Len(Mappers(category)), receipt[i].event)
<1>1. L \in Nat /\ DOMAIN receipt = 1 .. L /\ V \in [Seen(receipt) -> Int]
  BY PairAmountsType DEF TypedReceipt
<1>2. /\ s \in Seq(Seen(receipt)) /\ ValueSum(s, V) = SumTo(g, L)
      /\ PairAmountChanged(s, receipt, j) = ValueSum(s, V)
  BY <1>1, ContractEventsSum, PairAmountChangedIsSum
<1>3. CASE PairNames \cap allowed = {}
  <2>1. ASSUME NEW e \in Seen(receipt), e.name \in allowed PROVE V[e] = 0
    BY <1>3, <2>1 DEF PairAmounts, PairAmount, PairNames
  <2>. HIDE DEF V
  <2>2. ValueSum(s, V) = 0
    BY <1>1, <2>1, NoRelevantValue
  <2>3. ~(PairNames \subseteq allowed)
    BY <1>3 DEF PairNames
  <2>. QED BY <1>2, <2>2, <2>3
<1>4. CASE PairNames \subseteq allowed /\ category = "pair"
  <2>0. c = [i \in DOMAIN receipt |-> Counted(receipt[i].address = address,
                                              Reserves(receipt[i], j))]
    BY <1>1
  <2>1. ReservesChange(address, receipt, j) = SumTo(c, L)
    <3>1. c = [k \in 1 .. L |-> c[k]]
      OBVIOUS
    <3>. HIDE DEF c
    <3>. QED BY <2>0, <3>1 DEF ReservesChange, SumOf, SumTo
  <2>2. ASSUME NEW i \in 1 .. L PROVE wanted(i) <=> receipt[i].event \in {"Mint", "Burn", "Swap"}
    BY <1>4 DEF Wanted, Mappers
  <2>3. ASSUME NEW i \in 1 .. L PROVE g[i] = c[i]
    <3>1. CASE wanted(i)
      <4>1. LogSum(receipt, Weighted(V, address, receipt, allowed), i) = c[i]
        BY <1>4, <2>2, <3>1, LogPairAmount DEF PairNames
      <4>. QED BY <3>1, <4>1 DEF ContractSums, WantedSums
    <3>2. CASE ~wanted(i)
      <4>1. Reserves(receipt[i], j) = 0
        BY <2>2, <3>2 DEF Reserves, Counted
      <4>2. c[i] = 0
        BY <4>1 DEF Counted
      <4>3. g[i] = 0
        BY <3>2 DEF ContractSums, WantedSums
      <4>. QED BY <4>2, <4>3
    <3>. QED BY <3>1, <3>2
  <2>. HIDE DEF c, g
  <2>4. SumTo(g, L) = SumTo(c, L)
    BY <2>3, SumToEqual
  <2>. QED BY <1>2, <1>4, <2>1, <2>4
<1>5. CASE category # "pair"
  <2>1. ASSUME NEW i \in 1 .. L PROVE g[i] = 0
    <3>1. CASE wanted(i)
      <4>1. receipt[i].event \in MappedEvents \ {"Mint", "Burn", "Swap"}
        BY <1>5, <3>1 DEF Wanted, Mappers, Categories, MappedEvents
      <4>. QED BY <4>1, NoPairAmount DEF ContractSums, WantedSums
    <3>2. CASE ~wanted(i)
      BY <3>2 DEF ContractSums, WantedSums
    <3>. QED BY <3>1, <3>2
  <2>. HIDE DEF g
  <2>2. SumTo(g, L) = 0
    BY <1>1, <2>1, SumToZero
  <2>. QED BY <1>2, <1>5, <2>2
<1>. QED BY <1>3, <1>4, <1>5
=============================================================================
