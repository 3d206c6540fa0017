------------------------ MODULE PMDeviceList_proofs ------------------------
(***************************************************************************)
(* Reference counts are exact, and walks miss nobody, for every number of  *)
(* blocks, names, classes and threads.                                     *)
(*                                                                         *)
(* The invariant is IInv of PMDeviceList.  A step moves the frames of one  *)
(* thread, so what it does to the claims on a block is what it does to the *)
(* frames of that thread, to the children and to the lists (RefsKeep).     *)
(* Most steps take a reference to a listed device, or none, or give one    *)
(* back: Take and Give say that such steps keep the invariant, and each    *)
(* action is shown to be one of them.                                      *)
(***************************************************************************)
EXTENDS PMDeviceList, FiniteSetTheorems, SequenceTheorems, WellFoundedInduction, TLAPS

-----------------------------------------------------------------------------
(***************************************************************************)
(* Sequences: the least place, a frame pushed, an element taken out.       *)
(***************************************************************************)
LEMMA LeastOf ==
    ASSUME NEW S \in SUBSET Nat, S # {}
    PROVE  Min(S) \in S /\ \A y \in S : Min(S) <= y
<1> DEFINE Less == OpToRel(<, Nat)
<1>1. \E x \in S : \A y \in S : ~ (<<y, x>> \in Less)
  BY NatLessThanWellFounded, WFMin
<1>2. Less = {ss \in Nat \X Nat : ss[1] < ss[2]}
  BY DEF OpToRel
<1> HIDE DEF Less
<1>3. \A x, y \in Nat : <<y, x>> \in Less <=> y < x
  BY <1>2
<1>4. \E x \in S : \A y \in S : x <= y
  <2>1. PICK x \in S : \A y \in S : <<y, x>> \notin Less
    BY <1>1
  <2>2. ASSUME NEW y \in S PROVE x <= y
    <3>1. x \in Nat /\ y \in Nat
      OBVIOUS
    <3>2. <<y, x>> \notin Less
      BY <2>1
    <3>3. ~ (y < x)
      BY <1>3, <3>1, <3>2
    <3> QED BY <3>1, <3>3
  <2> QED BY <2>2
<1> QED BY <1>4 DEF Min

(* How many frames of a stack hold a block. *)
Held(s, b) == Cardinality({i \in DOMAIN s : Holds(s[i], b)})
One(P) == IF P THEN 1 ELSE 0

LEMMA DomainFinite ==
    ASSUME NEW S, NEW s \in Seq(S), NEW D \in SUBSET DOMAIN s
    PROVE  IsFiniteSet(D) /\ Cardinality(D) \in Nat
<1>1. DOMAIN s = 1 .. Len(s) /\ Len(s) \in Nat
  BY LenProperties
<1>2. IsFiniteSet(1 .. Len(s))
  BY <1>1, FS_Interval
<1> QED BY <1>1, <1>2, FS_Subset, FS_CardinalityType

LEMMA PushedAt ==
    ASSUME NEW S, NEW s \in Seq(S), NEW f \in S
    PROVE  /\ <<f>> \o s \in Seq(S) /\ Len(<<f>> \o s) = Len(s) + 1
           /\ (<<f>> \o s)[1] = f
           /\ \A i \in 1 .. Len(s) : (<<f>> \o s)[i + 1] = s[i]
           /\ \A i \in 2 .. Len(s) + 1 : (<<f>> \o s)[i] = s[i - 1]
           /\ Head(<<f>> \o s) = f /\ Tail(<<f>> \o s) = s
BY ConcatProperties, LenProperties

LEMMA HeldPushed ==
    ASSUME NEW S, NEW s \in Seq(S), NEW f \in S, NEW b
    PROVE  Held(<<f>> \o s, b) = One(Holds(f, b)) + Held(s, b)
<1> DEFINE T == {i \in DOMAIN s : Holds(s[i], b)}
           U == {i \in DOMAIN (<<f>> \o s) : Holds((<<f>> \o s)[i], b)}
           V == {i \in U : i > 1}
<1>1. DOMAIN s = 1 .. Len(s) /\ Len(s) \in Nat /\ DOMAIN (<<f>> \o s) = 1 .. Len(s) + 1
  BY PushedAt, LenProperties
<1>2. T \in SUBSET (1 .. Len(s)) /\ U \in SUBSET (1 .. Len(s) + 1)
  BY <1>1
<1>3. Cardinality(V) = Cardinality(T)
  <2> DEFINE F == [i \in T |-> i + 1]
  <2>1. F \in [T -> V]
    BY <1>1, PushedAt
  <2>2. \A i, j \in T : F[i] = F[j] => i = j
    BY <1>2
  <2>3. \A j \in V : \E i \in T : F[i] = j
    <3> SUFFICES ASSUME NEW j \in V PROVE \E i \in T : F[i] = j
      OBVIOUS
    <3>1. j \in 2 .. Len(s) + 1 /\ Holds((<<f>> \o s)[j], b)
      BY <1>1
    <3>2. j - 1 \in T
      BY <1>1, <3>1, PushedAt
    <3> QED BY <3>1, <3>2
  <2>4. F \in Bijection(T, V)
    BY <2>1, <2>2, <2>3 DEF Bijection, Injection, Surjection, IsInjective
  <2>5. IsFiniteSet(T)
    BY DomainFinite
  <2> QED BY <2>4, <2>5, FS_Bijection DEF ExistsBijection
<1>4. U = V \cup (IF Holds(f, b) THEN {1} ELSE {})
  BY <1>1, PushedAt
<1>5. IsFiniteSet(V) /\ Cardinality(V) \in Nat /\ 1 \notin V
  <2>1. <<f>> \o s \in Seq(S) /\ V \in SUBSET DOMAIN (<<f>> \o s)
    BY PushedAt
  <2>2. 1 \notin V
    OBVIOUS
  <2> HIDE DEF V
  <2>3. IsFiniteSet(V) /\ Cardinality(V) \in Nat
    BY <2>1, DomainFinite
  <2> QED BY <2>2, <2>3
<1>6. Cardinality(U) = One(Holds(f, b)) + Cardinality(V)
  <2>1. CASE Holds(f, b)
    <3>1. U = V \cup {1} /\ One(Holds(f, b)) = 1
      BY <1>4, <2>1 DEF One
    <3>2. Cardinality(V \cup {1}) = Cardinality(V) + 1
      BY <1>5, FS_AddElement
    <3> HIDE DEF U, V
    <3> QED BY <1>5, <3>1, <3>2
  <2>2. CASE ~ Holds(f, b)
    <3>1. U = V /\ One(Holds(f, b)) = 0
      BY <1>4, <2>2 DEF One
    <3> HIDE DEF U, V
    <3> QED BY <1>5, <3>1
  <2> QED BY <2>1, <2>2
<1> QED BY <1>3, <1>6 DEF Held

-----------------------------------------------------------------------------
(***************************************************************************)
(* The lists.                                                              *)
(***************************************************************************)
LEMMA ListedIs ==
    ASSUME NEW b
    PROVE  b \in Listed <=> \E c \in Classes : \E i \in DOMAIN list[c] : list[c][i] = b
BY DEF Listed, ToSet

LEMMA ClassType ==
    /\ DOMAIN Class = 1 .. Len(Class) /\ Len(Class) \in Nat
    /\ \A k \in DOMAIN Class : Class[k] \in Classes
BY ClassAssumption, LenProperties, ElementOfSeq

LEMMA NameType == ASSUME NEW n \in Name PROVE ClassOf[n] \in Classes
BY ClassAssumption

LEMMA ListType ==
    ASSUME TypeOK, NEW c \in Classes
    PROVE  /\ list[c] \in Seq(Block) /\ DOMAIN list[c] = 1 .. Len(list[c]) /\ Len(list[c]) \in Nat
           /\ \A i \in DOMAIN list[c] : list[c][i] \in Block /\ list[c][i] \in Listed
<1>1. list[c] \in Seq(Block)
  BY DEF TypeOK
<1>2. DOMAIN list[c] = 1 .. Len(list[c]) /\ Len(list[c]) \in Nat
  BY <1>1, LenProperties
<1>3. \A i \in DOMAIN list[c] : list[c][i] \in Block
  BY <1>1, <1>2, ElementOfSeq
<1> QED BY <1>1, <1>2, <1>3, ListedIs

LEMMA ListedBlocks == ASSUME TypeOK PROVE Listed \subseteq Block /\ NoBlock \notin Listed
BY ListType, ListedIs, BlockAssumption

LEMMA FirstListed ==
    ASSUME TypeOK, NEW c \in Classes
    PROVE  /\ First(list[c]) \in Listed \cup {NoBlock}
           /\ First(list[c]) = NoBlock => list[c] = <<>>
           /\ First(list[c]) # NoBlock => list[c] # <<>> /\ First(list[c]) = list[c][1]
<1>1. CASE list[c] = <<>>
  BY <1>1 DEF First
<1>2. CASE list[c] # <<>>
  <2>1. 1 \in DOMAIN list[c]
    BY <1>2, ListType, EmptySeq
  <2> QED BY <1>2, <2>1, ListType, BlockAssumption DEF First
<1> QED BY <1>1, <1>2

LEMMA FindListed ==
    ASSUME TypeOK, NEW n \in Name
    PROVE  /\ Find(n) \in Listed \cup {NoBlock}
           /\ Find(n) # NoBlock => name[Find(n)] = n
<1> DEFINE s == list[ClassOf[n]]
<1>1. ClassOf[n] \in Classes /\ DOMAIN s \subseteq Nat
  BY NameType, ListType
<1>2. CASE Named(n) = {}
  BY <1>2 DEF Find
<1>3. CASE Named(n) # {}
  <2>1. Named(n) \in SUBSET Nat
    BY <1>1 DEF Named
  <2>2. Min(Named(n)) \in Named(n)
    BY <1>3, <2>1, LeastOf
  <2>3. Min(Named(n)) \in DOMAIN s /\ name[s[Min(Named(n))]] = n
    BY <2>2 DEF Named
  <2>4. Find(n) = s[Min(Named(n))]
    BY <1>3 DEF Find
  <2> HIDE DEF s
  <2> QED BY <1>1, <2>3, <2>4, ListType DEF s
<1> QED BY <1>2, <1>3

LEMMA PlaceOnList ==
    ASSUME TypeOK, ListsOK, NEW b \in Listed
    PROVE  LET s == list[ClassOf[name[b]]]
           IN /\ b \in Block /\ ClassOf[name[b]] \in Classes
              /\ PlaceOf(b, s) \in DOMAIN s /\ s[PlaceOf(b, s)] = b
              /\ \A i \in DOMAIN s : s[i] = b => i = PlaceOf(b, s)
<1> DEFINE c == ClassOf[name[b]]
           s == list[c]
<1>1. PICK d \in Classes : \E i \in DOMAIN list[d] : list[d][i] = b
  BY ListedIs
<1>2. c = d
  BY <1>1 DEF ListsOK
<1>3. b \in Block
  BY ListedBlocks
<1>4. \E j \in DOMAIN s : s[j] = b
  BY <1>1, <1>2
<1>5. PlaceOf(b, s) \in DOMAIN s /\ s[PlaceOf(b, s)] = b
  BY <1>4 DEF PlaceOf
<1>6. c \in Classes
  BY <1>2
<1> QED BY <1>3, <1>5, <1>6 DEF ListsOK

LEMMA NextListed ==
    ASSUME TypeOK, ListsOK, NEW b
    PROVE  NextOf(b) \in Listed \cup {NoBlock}
<1> DEFINE c == ClassOf[name[b]]
           s == list[c]
           p == PlaceOf(b, s)
<1>1. CASE b \notin Listed \/ p = Len(s)
  BY <1>1 DEF NextOf
<1>2. CASE b \in Listed /\ p # Len(s)
  <2>1. c \in Classes /\ p \in DOMAIN s
    BY <1>2, PlaceOnList
  <2>2. NextOf(b) = s[p + 1]
    BY <1>2 DEF NextOf
  <2> HIDE DEF p, c
  <2>3. p + 1 \in DOMAIN s
    BY <1>2, <2>1, ListType
  <2> QED BY <2>1, <2>2, <2>3, ListType
<1> QED BY <1>1, <1>2

(* An element taken out of a sequence. *)
LEMMA TakenOut ==
    ASSUME NEW S, NEW s \in Seq(S), NEW p \in DOMAIN s
    PROVE  /\ RemoveAt(s, p) \in Seq(S) /\ Len(RemoveAt(s, p)) = Len(s) - 1
           /\ \A i \in 1 .. Len(s) - 1 :
                RemoveAt(s, p)[i] = IF i < p THEN s[i] ELSE s[i + 1]
<1> DEFINE u == SubSeq(s, 1, p - 1)
           v == SubSeq(s, p + 1, Len(s))
<1>1. DOMAIN s = 1 .. Len(s) /\ Len(s) \in Nat /\ p \in 1 .. Len(s)
      /\ \A i \in 1 .. Len(s) : s[i] \in S
  BY LenProperties, ElementOfSeq
<1>2. u \in Seq(S) /\ Len(u) = p - 1 /\ \A i \in 1 .. p - 1 : u[i] = s[i]
  <2>1. \A i \in 1 .. p - 1 : s[i] \in S
    BY <1>1
  <2>2. 1 \in Int /\ p - 1 \in Int
    BY <1>1
  <2>3. /\ u \in Seq(S) /\ Len(u) = IF 1 <= p - 1 THEN (p - 1) - 1 + 1 ELSE 0
        /\ \A i \in 1 .. (p - 1) - 1 + 1 : u[i] = s[1 + i - 1]
    BY <2>1, <2>2, SubSeqProperties
  <2> QED BY <1>1, <2>3
<1>3. /\ v \in Seq(S) /\ Len(v) = Len(s) - p
      /\ \A i \in 1 .. Len(s) - p : v[i] = s[p + i]
  <2>1. \A i \in p + 1 .. Len(s) : s[i] \in S
    BY <1>1
  <2>2. p + 1 \in Int /\ Len(s) \in Int
    BY <1>1
  <2>3. /\ v \in Seq(S)
        /\ Len(v) = IF p + 1 <= Len(s) THEN Len(s) - (p + 1) + 1 ELSE 0
        /\ \A i \in 1 .. Len(s) - (p + 1) + 1 : v[i] = s[(p + 1) + i - 1]
    BY <2>1, <2>2, SubSeqProperties
  <2>4. p \in Nat /\ Len(s) \in Nat /\ p <= Len(s)
    BY <1>1
  <2>5. Len(v) = Len(s) - p
    BY <2>3, <2>4
  <2>6. ASSUME NEW i \in 1 .. Len(s) - p PROVE v[i] = s[p + i]
    <3>1. i \in 1 .. Len(s) - (p + 1) + 1 /\ (p + 1) + i - 1 = p + i
      BY <2>4
    <3>2. v[i] = s[(p + 1) + i - 1]
      BY <2>3, <3>1
    <3> QED BY <3>1, <3>2
  <2> QED BY <2>3, <2>5, <2>6
<1> HIDE DEF u, v
<1>4. /\ u \o v \in Seq(S) /\ Len(u \o v) = Len(u) + Len(v)
      /\ \A i \in 1 .. Len(u) + Len(v) : (u \o v)[i] = IF i <= Len(u) THEN u[i] ELSE v[i - Len(u)]
  BY <1>2, <1>3, ConcatProperties
<1>5. RemoveAt(s, p) = u \o v
  BY DEF RemoveAt, u, v
<1>6. ASSUME NEW i \in 1 .. Len(s) - 1
      PROVE  RemoveAt(s, p)[i] = IF i < p THEN s[i] ELSE s[i + 1]
  <2>1. CASE i < p
    BY <1>1, <1>2, <1>3, <1>4, <1>5, <2>1
  <2>2. CASE ~ (i < p)
    <3>1. (u \o v)[i] = v[i - (p - 1)] /\ i - (p - 1) \in 1 .. Len(s) - p
      BY <1>1, <1>2, <1>3, <1>4, <2>2
    <3>2. v[i - (p - 1)] = s[p + (i - (p - 1))]
      BY <1>3, <3>1
    <3>3. p + (i - (p - 1)) = i + 1
      BY <1>1
    <3> QED BY <1>5, <2>2, <3>1, <3>2, <3>3
  <2> QED BY <2>1, <2>2
<1>7. Len(RemoveAt(s, p)) = Len(s) - 1
  <2>1. p \in Nat /\ Len(s) \in Nat
    BY <1>1
  <2>2. Len(u \o v) = (p - 1) + (Len(s) - p)
    BY <1>2, <1>3, <1>4
  <2> QED BY <1>5, <2>1, <2>2
<1> QED BY <1>4, <1>5, <1>6, <1>7

-----------------------------------------------------------------------------
(***************************************************************************)
(* The holders of a block: those of one thread, and those of the others.   *)
(***************************************************************************)
Places(s, b) == {i \in DOMAIN s : Holds(s[i], b)}
AllHolders(st, b) == UNION {{<<t, i>> : i \in Places(st[t], b)} : t \in Thread}

LEMMA OwnHolders ==
    ASSUME NEW st \in [Thread -> Seq(FrameType)], NEW t \in Thread, NEW b
    PROVE  LET O == {h \in AllHolders(st, b) : h[1] # t}
           IN /\ IsFiniteSet(AllHolders(st, b)) /\ Cardinality(O) \in Nat
              /\ Held(st[t], b) \in Nat
              /\ Cardinality(AllHolders(st, b)) = Cardinality(O) + Held(st[t], b)
<1> DEFINE H == AllHolders(st, b)
           O == {h \in H : h[1] # t}
           Of(u) == {<<u, i>> : i \in Places(st[u], b)}
<1>1. ASSUME NEW u \in Thread
      PROVE  IsFiniteSet(Of(u)) /\ Cardinality(Of(u)) = Held(st[u], b) /\ Held(st[u], b) \in Nat
  <2> DEFINE P == Places(st[u], b)
             F == [i \in P |-> <<u, i>>]
  <2>1. IsFiniteSet(P) /\ Cardinality(P) \in Nat
    BY DomainFinite DEF Places
  <2>2. F \in Bijection(P, Of(u))
    BY DEF Bijection, Injection, Surjection, IsInjective
  <2>3. IsFiniteSet(Of(u)) /\ Cardinality(Of(u)) = Cardinality(P)
    BY <2>1, <2>2, FS_Bijection DEF ExistsBijection
  <2> QED BY <2>1, <2>3 DEF Held, Places
<1>2. IsFiniteSet(H)
  <2> DEFINE G == {Of(u) : u \in Thread}
  <2>1. IsFiniteSet(G)
    <3> DEFINE F == [u \in Thread |-> Of(u)]
    <3>1. F \in [Thread -> G] /\ \A T \in G : \E u \in Thread : F[u] = T
      <4> HIDE DEF Of
      <4> QED OBVIOUS
    <3> HIDE DEF F, G
    <3>2. F \in Surjection(Thread, G)
      BY <3>1 DEF Surjection
    <3> QED BY <3>2, ThreadAssumption, FS_Surjection
  <2>2. \A T \in G : IsFiniteSet(T)
    BY <1>1
  <2> HIDE DEF G
  <2>3. IsFiniteSet(UNION G)
    BY <2>1, <2>2, FS_UNION
  <2> QED BY <2>3 DEF G, AllHolders
<1>3. H = O \cup Of(t) /\ O \cap Of(t) = {}
  BY DEF AllHolders
<1>4. IsFiniteSet(O) /\ Cardinality(O) \in Nat
  BY <1>2, FS_Subset, FS_CardinalityType
<1>5. Cardinality(O \cap Of(t)) = 0
  BY <1>3, FS_EmptySet
<1> HIDE DEF H, O, Of
<1>6. Cardinality(O \cup Of(t)) = Cardinality(O) + Cardinality(Of(t)) - Cardinality(O \cap Of(t))
  BY <1>1, <1>4, FS_Union
<1>7. Cardinality(H) = Cardinality(O) + Held(st[t], b)
  BY <1>1, <1>3, <1>4, <1>5, <1>6
<1> QED BY <1>1, <1>2, <1>4, <1>7 DEF H, O

-----------------------------------------------------------------------------
(***************************************************************************)
(* What a step of one thread does to the claims on a block.                *)
(***************************************************************************)
Children(b) == {c \in alive : parent[c] = b}
Kids(b) == Cardinality(Children(b))
OnList(b) == IF b \in Listed THEN 1 ELSE 0
OthersStay(t) == \A u \in Thread \ {t} : stack'[u] = stack[u]

LEMMA KidsFinite ==
    ASSUME TypeOK, NEW b
    PROVE  IsFiniteSet(alive) /\ IsFiniteSet(Children(b)) /\ Kids(b) \in Nat
           /\ (Kids(b) = 0 <=> Children(b) = {})
<1>1. IsFiniteSet(alive)
  BY BlockAssumption, FS_Subset DEF TypeOK
<1>2. IsFiniteSet(Children(b)) /\ Cardinality(Children(b)) \in Nat
  BY <1>1, FS_Subset, FS_CardinalityType DEF Children
<1> QED BY <1>1, <1>2, FS_EmptySet DEF Kids

LEMMA HoldersAll == \A b : Holders(b) = AllHolders(stack, b)
BY DEF Holders, AllHolders, Places

LEMMA HoldersFinite ==
    ASSUME TypeOK, NEW b
    PROVE  IsFiniteSet(Holders(b)) /\ Cardinality(Holders(b)) \in Nat
<1>1. stack \in [Thread -> Seq(FrameType)]
  BY DEF TypeOK
<1>2. CASE Thread = {}
  <2>1. Holders(b) = {}
    BY <1>2 DEF Holders
  <2> QED BY <2>1, FS_EmptySet
<1>3. CASE Thread # {}
  <2>1. PICK t : t \in Thread
    BY <1>3
  <2>2. IsFiniteSet(AllHolders(stack, b))
    BY <1>1, <2>1, OwnHolders
  <2> QED BY <2>2, HoldersAll, FS_CardinalityType
<1> QED BY <1>2, <1>3

LEMMA HoldersStep ==
    ASSUME TypeOK, TypeOK', NEW t \in Thread, OthersStay(t), NEW b
    PROVE  /\ Held(stack[t], b) \in Nat /\ Held(stack'[t], b) \in Nat
           /\ Cardinality(Holders(b)) \in Nat
           /\ Cardinality(Holders(b)') + Held(stack[t], b)
                = Cardinality(Holders(b)) + Held(stack'[t], b)
<1> DEFINE O == {h \in AllHolders(stack, b) : h[1] # t}
           P == {h \in AllHolders(stack', b) : h[1] # t}
<1>1. stack \in [Thread -> Seq(FrameType)] /\ stack' \in [Thread -> Seq(FrameType)]
  BY DEF TypeOK
<1>2. /\ Cardinality(O) \in Nat /\ Held(stack[t], b) \in Nat
      /\ Cardinality(AllHolders(stack, b)) = Cardinality(O) + Held(stack[t], b)
  BY <1>1, OwnHolders
<1>3. /\ Cardinality(P) \in Nat /\ Held(stack'[t], b) \in Nat
      /\ Cardinality(AllHolders(stack', b)) = Cardinality(P) + Held(stack'[t], b)
  BY <1>1, OwnHolders
<1>4. O = P
  BY DEF AllHolders, OthersStay
<1>5. Holders(b) = AllHolders(stack, b) /\ Holders(b)' = AllHolders(stack', b)
  BY DEF Holders, AllHolders, Places
<1> HIDE DEF O, P
<1> QED BY <1>2, <1>3, <1>4, <1>5

LEMMA RefsKeep ==
    ASSUME TypeOK, TypeOK', RefsExact, NEW t \in Thread, OthersStay(t),
           \A b \in Block : ref'[b] + Held(stack[t], b) + Kids(b) + OnList(b)
                              = ref[b] + Held(stack'[t], b) + Kids(b)' + OnList(b)'
    PROVE  RefsExact'
<1> SUFFICES ASSUME NEW b \in Block
             PROVE  ref'[b] = Cardinality(Holders(b)') + Kids(b)' + OnList(b)'
  BY DEF RefsExact, Kids, Children, OnList
<1>1. ref[b] = Cardinality(Holders(b)) + Kids(b) + OnList(b)
  BY DEF RefsExact, Kids, Children, OnList
<1>2. /\ Held(stack[t], b) \in Nat /\ Held(stack'[t], b) \in Nat
      /\ Cardinality(Holders(b)) \in Nat
      /\ Cardinality(Holders(b)') + Held(stack[t], b)
           = Cardinality(Holders(b)) + Held(stack'[t], b)
  BY HoldersStep
<1>3. ref'[b] + Held(stack[t], b) + Kids(b) + OnList(b)
        = ref[b] + Held(stack'[t], b) + Kids(b)' + OnList(b)'
  OBVIOUS
<1>4. Kids(b) \in Nat /\ OnList(b) \in Nat /\ OnList(b)' \in Nat
  BY KidsFinite DEF OnList
<1>5. Kids(b)' \in Nat /\ Cardinality(Holders(b)') \in Nat
  <2>1. IsFiniteSet(Children(b)') /\ Cardinality(Children(b)') \in Nat
    <3>1. IsFiniteSet(alive')
      BY BlockAssumption, FS_Subset DEF TypeOK
    <3> QED BY <3>1, FS_Subset, FS_CardinalityType DEF Children
  <2>2. stack' \in [Thread -> Seq(FrameType)]
    BY DEF TypeOK
  <2>3. IsFiniteSet(AllHolders(stack', b))
    BY <2>2, OwnHolders
  <2>4. Holders(b)' = AllHolders(stack', b)
    BY DEF Holders, AllHolders, Places
  <2> QED BY <2>1, <2>3, <2>4, FS_CardinalityType DEF Kids
<1>6. ref'[b] \in Nat
  BY DEF TypeOK
<1> QED BY <1>1, <1>2, <1>3, <1>4, <1>5, <1>6

LEMMA HolderIn ==
    ASSUME NEW b, NEW t \in Thread, NEW i \in DOMAIN stack[t], Holds(stack[t][i], b)
    PROVE  <<t, i>> \in Holders(b)
BY DEF Holders

(* A block that a list, a child or a frame refers to is counted. *)
LEMMA Claimed ==
    ASSUME Core, NEW b \in Block,
           \/ b \in Listed
           \/ \E c \in alive : parent[c] = b
           \/ \E t \in Thread : \E i \in DOMAIN stack[t] : Holds(stack[t][i], b)
    PROVE  ref[b] > 0 /\ b \in alive
<1>1. ref[b] = Cardinality(Holders(b)) + Kids(b) + OnList(b) /\ TypeOK
  BY DEF Core, RefsExact, Kids, Children, OnList
<1>2. Cardinality(Holders(b)) \in Nat /\ Kids(b) \in Nat /\ OnList(b) \in Nat
      /\ IsFiniteSet(Holders(b))
  BY <1>1, KidsFinite, HoldersFinite DEF OnList
<1>3. CASE b \in Listed
  BY <1>1, <1>2, <1>3 DEF OnList, Core, LifeOK
<1>4. CASE \E c \in alive : parent[c] = b
  <2>1. Kids(b) # 0
    BY <1>1, <1>4, KidsFinite DEF Children
  <2> QED BY <1>1, <1>2, <2>1 DEF Core, LifeOK
<1>5. CASE \E t \in Thread : \E i \in DOMAIN stack[t] : Holds(stack[t][i], b)
  <2>1. Holders(b) # {}
    BY <1>5, HolderIn
  <2>2. Cardinality(Holders(b)) # 0
    BY <1>2, <2>1, FS_EmptySet
  <2> QED BY <1>1, <1>2, <2>2 DEF Core, LifeOK
<1> QED BY <1>3, <1>4, <1>5

LEMMA ListedAndHeld ==
    ASSUME Core, NEW b \in Block, b \in Listed,
           NEW t \in Thread, NEW i \in DOMAIN stack[t], Holds(stack[t][i], b)
    PROVE  ref[b] > 1
<1>1. ref[b] = Cardinality(Holders(b)) + Kids(b) + OnList(b) /\ TypeOK
  BY DEF Core, RefsExact, Kids, Children, OnList
<1>2. Cardinality(Holders(b)) \in Nat /\ Kids(b) \in Nat /\ IsFiniteSet(Holders(b))
  BY <1>1, KidsFinite, HoldersFinite
<1>3. Holders(b) # {}
  BY HolderIn
<1>4. Cardinality(Holders(b)) # 0
  BY <1>2, <1>3, FS_EmptySet
<1> QED BY <1>1, <1>2, <1>4 DEF OnList

(* Only the thread that adds a device knows it. *)
LEMMA InsertAlone ==
    ASSUME Core, NEW u \in Thread, At(u, "insert"), NEW b, b = Me(u).dev
    PROVE  /\ b \in Block /\ b \notin Listed /\ \A c \in alive : parent[c] # b
           /\ \A t \in Thread \ {u} : \A i \in DOMAIN stack[t] : ~ Holds(stack[t][i], b)
<1>1. 1 \in DOMAIN stack[u] /\ stack[u][1] = Me(u)
  <2>1. stack[u] \in Seq(FrameType) /\ stack[u] # <<>>
    BY DEF Core, TypeOK, At
  <2> QED BY <2>1, EmptySeq, LenProperties DEF Me
<1>2. Me(u).pc = "insert" /\ b \in Block
  BY <1>1 DEF At, Me, Core, StackOK, FrameOK
<1>3. <<u, 1>> \in Holders(b)
  BY <1>1, <1>2 DEF Holders, Holds
<1>4. ref[b] = Cardinality(Holders(b)) + Kids(b) + OnList(b) /\ TypeOK /\ ref[b] = 1
  BY <1>2 DEF Core, RefsExact, Kids, Children, OnList, LifeOK
<1>5. Cardinality(Holders(b)) \in Nat /\ Kids(b) \in Nat /\ IsFiniteSet(Holders(b))
  BY <1>4, KidsFinite, HoldersFinite
<1>6. Cardinality(Holders(b)) # 0
  BY <1>3, <1>5, FS_EmptySet
<1>7. Cardinality(Holders(b)) = 1 /\ Kids(b) = 0 /\ b \notin Listed
  BY <1>4, <1>5, <1>6 DEF OnList
<1>8. PICK x : Holders(b) = {x}
  BY <1>5, <1>7, FS_Singleton
<1>9. ASSUME NEW t \in Thread \ {u}, NEW i \in DOMAIN stack[t], Holds(stack[t][i], b) PROVE FALSE
  <2>1. <<t, i>> \in Holders(b)
    BY <1>9 DEF Holders
  <2>2. <<t, i>> = <<u, 1>>
    BY <1>3, <1>8, <2>1
  <2> QED BY <2>2
<1>10. Children(b) = {}
  BY <1>4, <1>7, KidsFinite
<1> QED BY <1>2, <1>7, <1>9, <1>10 DEF Children

-----------------------------------------------------------------------------
(***************************************************************************)
(* Stacks of frames.                                                       *)
(***************************************************************************)
Sound(r) == r \in Seq(FrameType) /\ \A i \in DOMAIN r : FrameOK(r[i]) /\ r[i].pc \in Below
TopFree(f) == f.pc = "add" => f.parent = NoBlock

LEMMA EmptySound == Sound(<<>>)
BY EmptySeq DEF Sound

LEMMA CallStack ==
    ASSUME TypeOK, NEW t \in Thread, StackOK(t), stack[t] # <<>>
    PROVE  /\ Me(t) \in FrameType /\ FrameOK(Me(t)) /\ Sound(Rest(t))
           /\ 1 \in DOMAIN stack[t] /\ stack[t][1] = Me(t)
           /\ Len(stack[t]) = Len(Rest(t)) + 1
           /\ \A i \in 1 .. Len(Rest(t)) : Rest(t)[i] = stack[t][i + 1]
           /\ \A b : Held(stack[t], b) = One(Holds(Me(t), b)) + Held(Rest(t), b)
           /\ \A b : Held(Rest(t), b) \in Nat
<1>1. stack[t] \in Seq(FrameType)
  BY DEF TypeOK
<1>2. /\ Me(t) \in FrameType /\ Rest(t) \in Seq(FrameType) /\ Len(Rest(t)) = Len(stack[t]) - 1
      /\ \A i \in 1 .. Len(Rest(t)) : Rest(t)[i] = stack[t][i + 1]
  BY <1>1, HeadTailProperties DEF Me, Rest
<1>3. Len(stack[t]) \in Nat \ {0} /\ DOMAIN stack[t] = 1 .. Len(stack[t])
      /\ DOMAIN Rest(t) = 1 .. Len(Rest(t)) /\ stack[t][1] = Me(t)
  BY <1>1, <1>2, EmptySeq, LenProperties DEF Me
<1>4. stack[t] = <<Me(t)>> \o Rest(t)
  <2> DEFINE s == <<Me(t)>> \o Rest(t)
  <2>1. /\ s \in Seq(FrameType) /\ Len(s) = Len(Rest(t)) + 1 /\ s[1] = Me(t)
        /\ \A i \in 2 .. Len(Rest(t)) + 1 : s[i] = Rest(t)[i - 1]
    BY <1>2, PushedAt
  <2> HIDE DEF s
  <2>2. Len(s) = Len(stack[t])
    BY <1>2, <1>3, <2>1
  <2>3. ASSUME NEW i \in 1 .. Len(s) PROVE s[i] = stack[t][i]
    <3>1. CASE i = 1
      BY <1>3, <2>1, <3>1
    <3>2. CASE i # 1
      <4>1. i - 1 \in 1 .. Len(Rest(t)) /\ i \in 2 .. Len(Rest(t)) + 1
        BY <1>2, <1>3, <2>1, <3>2
      <4>2. s[i] = Rest(t)[i - 1] /\ Rest(t)[i - 1] = stack[t][(i - 1) + 1]
        BY <1>2, <2>1, <4>1
      <4> QED BY <4>1, <4>2
    <3> QED BY <3>1, <3>2
  <2>4. s = stack[t]
    BY <1>1, <2>1, <2>2, <2>3, SeqEqual
  <2> QED BY <2>4 DEF s
<1>5. Sound(Rest(t))
  <2> SUFFICES ASSUME NEW i \in 1 .. Len(Rest(t))
               PROVE  FrameOK(Rest(t)[i]) /\ Rest(t)[i].pc \in Below
    BY <1>2, <1>3 DEF Sound
  <2>1. i + 1 \in DOMAIN stack[t] /\ i + 1 > 1 /\ Rest(t)[i] = stack[t][i + 1]
    BY <1>2, <1>3
  <2> QED BY <2>1 DEF StackOK
<1>6. FrameOK(Me(t))
  BY <1>3 DEF StackOK
<1>7. \A b : Held(stack[t], b) = One(Holds(Me(t), b)) + Held(Rest(t), b)
  BY <1>2, <1>4, HeldPushed
<1>8. \A b : Held(Rest(t), b) \in Nat
  BY <1>2, DomainFinite DEF Held
<1> QED BY <1>2, <1>3, <1>5, <1>6, <1>7, <1>8

(* A stack to go on with: nothing but what was below, or one frame more. *)
LEMMA PushSound ==
    ASSUME NEW r, Sound(r), NEW f \in FrameType, FrameOK(f), f.pc \in Below
    PROVE  Sound(<<f>> \o r)
<1>1. /\ r \in Seq(FrameType) /\ DOMAIN r = 1 .. Len(r) /\ Len(r) \in Nat
      /\ \A i \in DOMAIN r : FrameOK(r[i]) /\ r[i].pc \in Below
  BY LenProperties DEF Sound
<1> DEFINE s == <<f>> \o r
<1>2. /\ s \in Seq(FrameType) /\ Len(s) = Len(r) + 1 /\ s[1] = f
      /\ \A i \in 2 .. Len(r) + 1 : s[i] = r[i - 1]
  BY <1>1, PushedAt
<1>3. DOMAIN s = 1 .. Len(r) + 1
  BY <1>2, LenProperties
<1> HIDE DEF s
<1>4. ASSUME NEW i \in DOMAIN s PROVE FrameOK(s[i]) /\ s[i].pc \in Below
  <2>1. CASE i = 1
    BY <1>2, <2>1
  <2>2. CASE i # 1
    <3>1. i \in 2 .. Len(r) + 1 /\ i - 1 \in DOMAIN r
      BY <1>1, <1>3, <2>2
    <3> QED BY <1>1, <1>2, <3>1
  <2> QED BY <2>1, <2>2
<1> QED BY <1>2, <1>4 DEF Sound, s

LEMMA RestAlone ==
    ASSUME NEW t \in Thread, NEW r, Sound(r), stack'[t] = r
    PROVE  /\ stack'[t] \in Seq(FrameType) /\ StackOK(t)'
           /\ \A pc : At(t, pc)' => pc \in Below
<1>1. /\ r \in Seq(FrameType) /\ \A i \in DOMAIN r : FrameOK(r[i]) /\ r[i].pc \in Below
  BY DEF Sound
<1>2. ASSUME NEW pc, At(t, pc)' PROVE pc \in Below
  <2>1. r # <<>> /\ Head(r).pc = pc
    BY <1>2 DEF At
  <2>2. 1 \in DOMAIN r /\ Head(r) = r[1]
    BY <1>1, <2>1, EmptySeq, LenProperties
  <2> QED BY <1>1, <2>1, <2>2
<1>3. ~ At(t, "add")'
  BY <1>2 DEF Below
<1>4. \A i \in DOMAIN stack'[t] : FrameOK(stack'[t][i]) /\ (i > 1 => stack'[t][i].pc \in Below)
  BY <1>1
<1> QED BY <1>1, <1>2, <1>3, <1>4 DEF StackOK

LEMMA OneOnTop ==
    ASSUME NEW t \in Thread, NEW r, Sound(r), NEW f \in FrameType, FrameOK(f), TopFree(f),
           stack'[t] = <<f>> \o r
    PROVE  /\ stack'[t] \in Seq(FrameType) /\ StackOK(t)'
           /\ \A pc : At(t, pc)' <=> pc = f.pc
           /\ Me(t)' = f
           /\ \A b : Held(stack'[t], b) = One(Holds(f, b)) + Held(r, b)
           /\ Len(stack'[t]) = Len(r) + 1
<1>1. /\ r \in Seq(FrameType) /\ DOMAIN r = 1 .. Len(r) /\ Len(r) \in Nat
      /\ \A i \in DOMAIN r : FrameOK(r[i]) /\ r[i].pc \in Below
  BY LenProperties DEF Sound
<1> DEFINE s == <<f>> \o r
<1>2. /\ s \in Seq(FrameType) /\ Len(s) = Len(r) + 1 /\ s[1] = f
      /\ \A i \in 2 .. Len(r) + 1 : s[i] = r[i - 1]
      /\ Head(s) = f
  BY <1>1, PushedAt
<1>3. DOMAIN s = 1 .. Len(r) + 1 /\ s # <<>>
  BY <1>1, <1>2, LenProperties, EmptySeq
<1> HIDE DEF s
<1>4. stack'[t] = s
  BY DEF s
<1>5. ASSUME NEW i \in DOMAIN s PROVE FrameOK(s[i]) /\ (i > 1 => s[i].pc \in Below)
  <2>1. CASE i = 1
    BY <1>2, <2>1
  <2>2. CASE i # 1
    <3>1. i \in 2 .. Len(r) + 1 /\ i - 1 \in DOMAIN r
      BY <1>1, <1>3, <2>2
    <3> QED BY <1>1, <1>2, <3>1
  <2> QED BY <2>1, <2>2
<1>6. \A pc : At(t, pc)' <=> pc = f.pc
  BY <1>2, <1>3, <1>4 DEF At
<1>7. Me(t)' = f
  BY <1>2, <1>4 DEF Me
<1>8. At(t, "add")' => Me(t)'.parent = NoBlock
  BY <1>6, <1>7 DEF TopFree
<1>9. StackOK(t)'
  BY <1>4, <1>5, <1>8 DEF StackOK
<1>10. \A b : Held(stack'[t], b) = One(Holds(f, b)) + Held(r, b)
  BY <1>1, HeldPushed
<1> QED BY <1>2, <1>4, <1>6, <1>7, <1>9, <1>10

-----------------------------------------------------------------------------
(***************************************************************************)
(* Steps that take a reference to a device on a list, or none, and steps   *)
(* that give one back.                                                     *)
(***************************************************************************)
BoundsOK ==
    /\ handle \in [Client -> [dev : Pointer, name : Name]]
    /\ unseen \in [Reader -> SUBSET Block]
    /\ overlap \in BOOLEAN /\ calls \in Nat

LEMMA Resumed ==
    ASSUME TypeOK, NEW t \in Thread, NEW fs, Resume(t, fs)
    PROVE  stack'[t] = fs /\ OthersStay(t)
           /\ (fs \in Seq(FrameType) => stack' \in [Thread -> Seq(FrameType)])
BY DEF TypeOK, Resume, OthersStay

LEMMA OthersAt ==
    ASSUME NEW t \in Thread, OthersStay(t), NEW u \in Thread \ {t}
    PROVE  /\ Me(u)' = Me(u) /\ \A pc : At(u, pc)' <=> At(u, pc)
           /\ StackOK(u) => StackOK(u)'
BY DEF OthersStay, Me, At, StackOK

LEMMA LifeKeep ==
    ASSUME Core, TypeOK', NEW t \in Thread, OthersStay(t), alive' = alive,
           ~ At(t, "destroy"), ~ At(t, "insert")',
           \A b \in Block : ref'[b] # ref[b] =>
             \/ b \in Listed
             \/ \E c \in alive : parent[c] = b
             \/ \E i \in DOMAIN stack[t] : Holds(stack[t][i], b),
           \A b \in Block : ref[b] > 0 /\ ref'[b] = 0 => At(t, "destroy")' /\ Me(t)'.dev = b,
           At(t, "destroy")' => /\ Me(t)'.dev \in Block
                                /\ ref[Me(t)'.dev] > 0 /\ ref'[Me(t)'.dev] = 0
    PROVE  LifeOK'
<1>1. TypeOK /\ LifeOK /\ alive \subseteq Block
  BY DEF Core, TypeOK
<1>2. \A b \in Block : ref'[b] # ref[b] => ref[b] > 0 /\ b \in alive
  BY Claimed
<1>3. \A u \in Thread \ {t} : Me(u)' = Me(u) /\ \A pc : At(u, pc)' <=> At(u, pc)
  BY OthersAt
<1>4. \A b \in Block : ref'[b] > 0 => b \in alive'
  BY <1>1, <1>2 DEF LifeOK
<1>5. ASSUME NEW b \in alive', ref'[b] = 0
      PROVE  \E u \in Thread : At(u, "destroy")' /\ Me(u)'.dev = b
  <2>1. ref[b] \in Nat /\ b \in Block
    BY <1>1 DEF TypeOK
  <2>2. CASE ref[b] = 0
    <3>1. PICK u \in Thread : At(u, "destroy") /\ Me(u).dev = b
      BY <1>1, <2>2 DEF LifeOK
    <3> QED BY <1>3, <3>1
  <2>3. CASE ref[b] > 0
    BY <1>5, <2>1, <2>3
  <2> QED BY <2>1, <2>2, <2>3
<1>6. ASSUME NEW u \in Thread, At(u, "destroy")'
      PROVE  Me(u)'.dev \in alive' /\ ref'[Me(u)'.dev] = 0
  <2>1. CASE u = t
    BY <1>1, <1>6, <2>1 DEF LifeOK
  <2>2. CASE u # t
    <3>1. At(u, "destroy") /\ Me(u)'.dev = Me(u).dev
      BY <1>3, <1>6, <2>2
    <3>2. Me(u).dev \in alive /\ Me(u).dev \in Block /\ ref[Me(u).dev] = 0
      BY <1>1, <3>1 DEF LifeOK
    <3>3. ref'[Me(u).dev] = 0
      BY <1>2, <3>2
    <3> QED BY <3>1, <3>2, <3>3
  <2> QED BY <2>1, <2>2
<1>7. ASSUME NEW u \in Thread, NEW v \in Thread, At(u, "destroy")', At(v, "destroy")',
             Me(u)'.dev = Me(v)'.dev
      PROVE  u = v
  <2>1. ASSUME NEW w \in Thread \ {t}, At(w, "destroy")' PROVE ref[Me(w)'.dev] = 0
    BY <1>1, <1>3, <2>1 DEF LifeOK
  <2>2. CASE u = t \/ v = t
    BY <1>7, <2>1, <2>2
  <2>3. CASE u # t /\ v # t
    BY <1>1, <1>3, <1>7, <2>3 DEF LifeOK
  <2> QED BY <2>2, <2>3
<1>8. ASSUME NEW u \in Thread, At(u, "insert")' PROVE ref'[Me(u)'.dev] = 1
  <2>1. u # t /\ At(u, "insert") /\ Me(u)' = Me(u)
    BY <1>3, <1>8
  <2>2. ref[Me(u).dev] = 1
    BY <1>1, <2>1 DEF LifeOK
  <2>3. ref'[Me(u).dev] = ref[Me(u).dev]
    BY <2>1, InsertAlone
  <2> QED BY <2>1, <2>2, <2>3
<1> QED BY <1>4, <1>5, <1>6, <1>7, <1>8 DEF LifeOK

LEMMA ListsKeep ==
    ASSUME ListsOK, UNCHANGED <<list, name>>
    PROVE  ListsOK' /\ Listed' = Listed
<1>1. ListsOK'
  BY DEF ListsOK
<1> QED BY <1>1 DEF Listed

LEMMA KidsSame ==
    ASSUME UNCHANGED <<list, alive, parent>>
    PROVE  \A b : Kids(b)' = Kids(b) /\ OnList(b)' = OnList(b)
BY DEF Kids, Children, OnList, Listed

LEMMA Take ==
    ASSUME Core, BoundsOK', NEW t \in Thread, NEW fs, Resume(t, fs), fs \in Seq(FrameType),
           StackOK(t)', NEW x \in Listed \cup {NoBlock}, Count({x}, {}),
           UNCHANGED <<list, alive, name, parent>>,
           ~ At(t, "destroy"), ~ At(t, "destroy")', ~ At(t, "insert")',
           \A b \in Block : Held(stack'[t], b) = Held(stack[t], b) + One(b = x)
    PROVE  Core'
<1>1. TypeOK /\ RefsExact /\ ListsOK /\ LifeOK
  BY DEF Core
<1>2. OthersStay(t) /\ stack' \in [Thread -> Seq(FrameType)]
  BY <1>1, Resumed
<1>3. \A b \in Block : ref'[b] = ref[b] + One(b = x)
  BY <1>1 DEF Count, One, TypeOK
<1>4. ref' \in [Block -> Nat]
  <2>1. ref \in [Block -> Nat]
    BY <1>1 DEF TypeOK
  <2> QED BY <1>3, <2>1 DEF Count, One
<1>5. TypeOK'
  BY <1>1, <1>2, <1>4 DEF TypeOK, BoundsOK
<1>6. RefsExact'
  <2>1. ASSUME NEW b \in Block
        PROVE  ref'[b] + Held(stack[t], b) + Kids(b) + OnList(b)
                 = ref[b] + Held(stack'[t], b) + Kids(b)' + OnList(b)'
    <3>1. Kids(b)' = Kids(b) /\ OnList(b)' = OnList(b)
      BY KidsSame
    <3>2. Held(stack[t], b) \in Nat /\ ref[b] \in Nat /\ Kids(b) \in Nat /\ OnList(b) \in Nat
      BY <1>1, <1>2, <1>5, HoldersStep, KidsFinite DEF TypeOK, OnList
    <3>3. One(b = x) \in Nat
      BY DEF One
    <3>4. Held(stack'[t], b) = Held(stack[t], b) + One(b = x) /\ ref'[b] = ref[b] + One(b = x)
      BY <1>3
    <3> QED BY <3>1, <3>2, <3>3, <3>4
  <2> QED BY <1>1, <1>2, <1>5, <2>1, RefsKeep
<1>7. ListsOK'
  BY <1>1, ListsKeep
<1>8. LifeOK'
  <2>1. \A b \in Block : ref'[b] # ref[b] => b \in Listed
    <3>1. \A b \in Block : b # x => ref'[b] = ref[b]
      BY <1>1, <1>3 DEF One, TypeOK
    <3> QED BY <3>1, BlockAssumption
  <2>2. \A b \in Block : ref[b] > 0 => ref'[b] # 0
    <3>1. \A b \in Block : ref[b] \in Nat /\ One(b = x) \in Nat
      BY <1>1 DEF One, TypeOK
    <3> QED BY <1>3, <3>1
  <2> QED BY <1>2, <1>5, <2>1, <2>2, LifeKeep
<1>9. \A u \in Thread : StackOK(u)'
  BY <1>2, OthersAt DEF Core
<1> QED BY <1>5, <1>6, <1>7, <1>8, <1>9 DEF Core

(* The last reference to a block makes its thread destroy it. *)
LEMMA DestroyingStack ==
    ASSUME TypeOK, NEW t \in Thread, NEW x \in Pointer, NEW fs, Sound(fs),
           stack'[t] = Destroying(x) \o fs
    PROVE  /\ stack'[t] \in Seq(FrameType) /\ StackOK(t)'
           /\ \A b : Held(stack'[t], b) = Held(fs, b)
           /\ At(t, "destroy")' <=> x \in Block /\ ref[x] = 1
           /\ At(t, "destroy")' => Me(t)'.dev = x /\ Len(stack'[t]) = Len(fs) + 1
           /\ ~ At(t, "destroy")' => stack'[t] = fs
           /\ ~ At(t, "insert")'
<1>1. CASE x \in Block /\ ref[x] = 1
  <2> DEFINE f == [Frame("destroy", name[x]) EXCEPT !.dev = x]
  <2>1. name[x] \in Name
    BY <1>1 DEF TypeOK
  <2>2. f \in FrameType /\ f.pc = "destroy" /\ f.dev = x
    BY <2>1 DEF FrameType, Frame, Pc, Pointer
  <2>3. stack'[t] = <<f>> \o fs
    BY <1>1 DEF Destroying
  <2> HIDE DEF f
  <2>4. FrameOK(f) /\ TopFree(f) /\ \A b : One(Holds(f, b)) = 0
    BY <1>1, <2>2 DEF FrameOK, TopFree, Holds, One
  <2>5. \A b : Held(fs, b) \in Nat
    BY DomainFinite DEF Sound, Held
  <2>6. /\ stack'[t] \in Seq(FrameType) /\ StackOK(t)'
        /\ \A pc : At(t, pc)' <=> pc = f.pc
        /\ Me(t)' = f
        /\ \A b : Held(stack'[t], b) = One(Holds(f, b)) + Held(fs, b)
        /\ Len(stack'[t]) = Len(fs) + 1
    BY <2>2, <2>3, <2>4, OneOnTop
  <2>7. ASSUME NEW b PROVE Held(stack'[t], b) = Held(fs, b)
    BY <2>4, <2>5, <2>6
  <2> QED BY <1>1, <2>2, <2>6, <2>7
<1>2. CASE ~ (x \in Block /\ ref[x] = 1)
  <2>1. Destroying(x) = <<>>
    BY <1>2 DEF Destroying
  <2>2. stack'[t] = fs
    BY <2>1, ConcatEmptySeq DEF Sound
  <2>3. stack'[t] \in Seq(FrameType) /\ StackOK(t)' /\ \A pc : At(t, pc)' => pc \in Below
    BY <2>2, RestAlone
  <2>4. ~ At(t, "destroy")' /\ ~ At(t, "insert")'
    BY <2>3 DEF Below
  <2> QED BY <1>2, <2>2, <2>3, <2>4
<1> QED BY <1>1, <1>2

(* A reference that somebody holds is given back, the frames fs are left,   *)
(* and device y is held in its place.                                      *)
Gives(t, x, y) ==
    /\ x \in Block => \/ \E c \in alive : parent[c] = x
                      \/ \E i \in DOMAIN stack[t] : Holds(stack[t][i], x)
    /\ x \in Block /\ ref[x] = 1 => x # y
Balanced(t, fs, x, y) ==
    \A b \in Block : Held(fs, b) + Kids(b)' + One(b = x) = Held(stack[t], b) + Kids(b) + One(b = y)

LEMMA Give ==
    ASSUME Core, BoundsOK', NEW t \in Thread, NEW fs, Sound(fs), NEW x \in Pointer,
           Resume(t, Destroying(x) \o fs), NEW y \in Listed \cup {NoBlock}, Count({y}, {x}),
           UNCHANGED <<list, alive, name>>, parent' \in [Block -> Pointer],
           ~ At(t, "destroy"),
           Gives(t, x, y), Balanced(t, fs, x, y)
    PROVE  Core'
<1>1. TypeOK /\ RefsExact /\ ListsOK /\ LifeOK
  BY DEF Core
<1>2. stack'[t] = Destroying(x) \o fs /\ OthersStay(t)
  BY <1>1, Resumed
<1>3. /\ stack'[t] \in Seq(FrameType) /\ StackOK(t)'
      /\ \A b : Held(stack'[t], b) = Held(fs, b)
      /\ At(t, "destroy")' <=> x \in Block /\ ref[x] = 1
      /\ At(t, "destroy")' => Me(t)'.dev = x /\ Len(stack'[t]) = Len(fs) + 1
      /\ ~ At(t, "destroy")' => stack'[t] = fs
      /\ ~ At(t, "insert")'
  BY <1>1, <1>2, DestroyingStack
<1>4. stack' \in [Thread -> Seq(FrameType)]
  BY <1>1, <1>2, <1>3, Resumed
<1>5. x \in Block => ref[x] > 0
  BY Claimed DEF Gives
<1>6. \A b \in Block : ref[b] \in Nat
  BY <1>1 DEF TypeOK
<1>7. \A b \in Block : ref'[b] = ref[b] + One(b = y) - One(b = x)
  BY <1>6 DEF Count, One
<1>8. \A b \in Block : ref'[b] \in Nat
  BY <1>5, <1>6, <1>7 DEF One
<1>9. TypeOK'
  <2>1. ref' \in [Block -> Nat]
    BY <1>8 DEF Count
  <2> QED BY <1>1, <1>4, <2>1 DEF TypeOK, BoundsOK
<1>10. RefsExact'
  <2>1. ASSUME NEW b \in Block
        PROVE  ref'[b] + Held(stack[t], b) + Kids(b) + OnList(b)
                 = ref[b] + Held(stack'[t], b) + Kids(b)' + OnList(b)'
    <3>1. OnList(b)' = OnList(b) /\ OnList(b) \in Nat
      BY DEF OnList, Listed
    <3>2. Held(stack[t], b) \in Nat /\ Kids(b) \in Nat /\ Held(fs, b) \in Nat
      BY <1>1, <1>2, <1>3, <1>9, HoldersStep, KidsFinite
    <3>3. Kids(b)' \in Nat
      <4>1. IsFiniteSet(alive')
        BY <1>1, KidsFinite
      <4> QED BY <4>1, FS_Subset, FS_CardinalityType DEF Kids, Children
    <3>4. One(b = x) \in Nat /\ One(b = y) \in Nat
      BY DEF One
    <3>5. /\ Held(stack'[t], b) = Held(fs, b) /\ ref'[b] = ref[b] + One(b = y) - One(b = x)
          /\ Held(fs, b) + Kids(b)' + One(b = x) = Held(stack[t], b) + Kids(b) + One(b = y)
      BY <1>3, <1>7 DEF Balanced
    <3> QED BY <1>6, <3>1, <3>2, <3>3, <3>4, <3>5
  <2> QED BY <1>1, <1>2, <1>9, <2>1, RefsKeep
<1>11. ListsOK'
  BY <1>1, ListsKeep
<1>12. LifeOK'
  <2>1. ASSUME NEW b \in Block, ref'[b] # ref[b]
        PROVE  \/ b \in Listed
               \/ \E c \in alive : parent[c] = b
               \/ \E i \in DOMAIN stack[t] : Holds(stack[t][i], b)
    <3>1. b = x \/ b = y
      BY <1>6, <1>7, <2>1 DEF One
    <3> QED BY <3>1, BlockAssumption DEF Gives
  <2>2. ASSUME NEW b \in Block, ref[b] > 0, ref'[b] = 0
        PROVE  At(t, "destroy")' /\ Me(t)'.dev = b
    <3>1. ref'[b] = ref[b] + One(b = y) - One(b = x) /\ ref[b] \in Nat
      BY <1>6, <1>7
    <3>2. b = x /\ ref[x] = 1
      BY <2>2, <3>1 DEF One
    <3> QED BY <1>3, <3>2
  <2>3. At(t, "destroy")' => /\ Me(t)'.dev \in Block
                             /\ ref[Me(t)'.dev] > 0 /\ ref'[Me(t)'.dev] = 0
    <3> SUFFICES ASSUME At(t, "destroy")' PROVE x \in Block /\ ref[x] > 0 /\ ref'[x] = 0
      BY <1>3
    <3>1. x \in Block /\ ref[x] = 1 /\ x # y
      BY <1>3 DEF Gives
    <3> QED BY <1>7, <3>1 DEF One
  <2> QED BY <1>2, <1>3, <1>9, <2>1, <2>2, <2>3, LifeKeep
<1>13. \A u \in Thread : StackOK(u)'
  BY <1>2, <1>3, OthersAt DEF Core
<1> QED BY <1>9, <1>10, <1>11, <1>12, <1>13 DEF Core

-----------------------------------------------------------------------------
(***************************************************************************)
(* The same for the shapes that steps have: a call begins, the running     *)
(* frame goes on, returns, or calls a function.                            *)
(***************************************************************************)
LEMMA StillCounted ==
    ASSUME TypeOK, UNCHANGED ref
    PROVE  Count({NoBlock}, {})
<1>1. ref \in [Block -> Nat] /\ NoBlock \notin Block
  BY BlockAssumption DEF TypeOK
<1>2. \A b \in Block : (ref[b] + (IF b \in {NoBlock} THEN 1 ELSE 0)) - (IF b \in {} THEN 1 ELSE 0)
                         = ref[b]
  BY <1>1
<1> QED BY <1>1, <1>2 DEF Count

LEMMA TakeOver ==
    ASSUME Core, BoundsOK', NEW t \in Thread, NEW r, Sound(r),
           NEW g \in FrameType, FrameOK(g), TopFree(g), g.pc \notin {"destroy", "insert"},
           Resume(t, <<g>> \o r), NEW x \in Listed \cup {NoBlock}, Count({x}, {}),
           UNCHANGED <<list, alive, name, parent>>, ~ At(t, "destroy"),
           \A b \in Block : One(Holds(g, b)) + Held(r, b) = Held(stack[t], b) + One(b = x)
    PROVE  Core'
<1>1. TypeOK
  BY DEF Core
<1>2. stack'[t] = <<g>> \o r
  BY <1>1, Resumed
<1>3. /\ stack'[t] \in Seq(FrameType) /\ StackOK(t)'
      /\ \A pc : At(t, pc)' <=> pc = g.pc
      /\ Me(t)' = g
      /\ \A b : Held(stack'[t], b) = One(Holds(g, b)) + Held(r, b)
      /\ Len(stack'[t]) = Len(r) + 1
  BY <1>2, OneOnTop
<1>4. ~ At(t, "destroy")' /\ ~ At(t, "insert")'
  BY <1>3
<1>5. <<g>> \o r \in Seq(FrameType)
  BY <1>2, <1>3
<1>6. \A b \in Block : Held(stack'[t], b) = Held(stack[t], b) + One(b = x)
  BY <1>3
<1> QED BY <1>3, <1>4, <1>5, <1>6, Take

LEMMA TakeBegin ==
    ASSUME Core, BoundsOK', NEW t \in Thread, NEW g \in FrameType, FrameOK(g), TopFree(g),
           g.pc \notin {"destroy", "insert"}, Begin(t, g),
           NEW x \in Listed \cup {NoBlock}, Count({x}, {}),
           UNCHANGED <<list, alive, name, parent>>,
           \A b \in Block : One(Holds(g, b)) = One(b = x)
    PROVE  Core'
<1> DEFINE none == <<>>
<1>1. stack[t] = <<>> /\ ~ At(t, "destroy") /\ Resume(t, <<g>>)
  BY DEF Begin, At
<1>2. Resume(t, <<g>> \o none)
  <2>1. <<g>> \in Seq(FrameType)
    BY ConcatEmptySeq
  <2>2. <<g>> \o <<>> = <<g>>
    BY <2>1, ConcatEmptySeq
  <2> QED BY <1>1, <2>2
<1>3. \A b : Held(none, b) = 0
  BY FS_EmptySet DEF Held
<1>4. \A b \in Block : One(Holds(g, b)) + Held(none, b) = Held(stack[t], b) + One(b = x)
  <2>1. \A b \in Block : One(b = x) \in Nat
    BY DEF One
  <2> QED BY <1>1, <1>3, <2>1
<1>5. Sound(none)
  BY EmptySound
<1> HIDE DEF none
<1> QED BY <1>1, <1>2, <1>4, <1>5, TakeOver

LEMMA TakeOn ==
    ASSUME Core, BoundsOK', NEW t \in Thread, stack[t] # <<>>, Me(t).pc # "destroy",
           NEW g \in FrameType, FrameOK(g), TopFree(g), g.pc \notin {"destroy", "insert"},
           Resume(t, <<g>> \o Rest(t)), NEW x \in Listed \cup {NoBlock}, Count({x}, {}),
           UNCHANGED <<list, alive, name, parent>>,
           \A b \in Block : One(Holds(g, b)) = One(Holds(Me(t), b)) + One(b = x)
    PROVE  Core'
<1>1. TypeOK /\ StackOK(t) /\ ~ At(t, "destroy")
  BY DEF Core, At, Me
<1>2. Sound(Rest(t)) /\ \A b : Held(Rest(t), b) \in Nat
  BY <1>1, CallStack
<1>3. \A b \in Block : Held(stack[t], b) = One(Holds(Me(t), b)) + Held(Rest(t), b)
  BY <1>1, CallStack
<1>4. ASSUME NEW b \in Block
      PROVE  One(Holds(g, b)) + Held(Rest(t), b) = Held(stack[t], b) + One(b = x)
  <2>1. One(b = x) \in Nat /\ One(Holds(Me(t), b)) \in Nat /\ Held(Rest(t), b) \in Nat
    BY <1>2 DEF One
  <2>2. One(Holds(g, b)) = One(Holds(Me(t), b)) + One(b = x)
    OBVIOUS
  <2> QED BY <1>3, <2>1, <2>2
<1> QED BY <1>1, <1>2, <1>4, TakeOver

LEMMA TakeReturn ==
    ASSUME Core, BoundsOK', NEW t \in Thread, stack[t] # <<>>, Me(t).pc # "destroy",
           Resume(t, Rest(t)), UNCHANGED <<list, ref, alive, name, parent>>,
           \A b \in Block : ~ Holds(Me(t), b)
    PROVE  Core'
<1>1. TypeOK /\ StackOK(t) /\ ~ At(t, "destroy")
  BY DEF Core, At, Me
<1>2. Sound(Rest(t)) /\ Rest(t) \in Seq(FrameType) /\ \A b : Held(Rest(t), b) \in Nat
  BY <1>1, CallStack DEF Sound
<1>3. stack'[t] = Rest(t)
  BY <1>1, Resumed
<1>4. StackOK(t)' /\ \A pc : At(t, pc)' => pc \in Below
  BY <1>2, <1>3, RestAlone
<1>5. ~ At(t, "destroy")' /\ ~ At(t, "insert")'
  BY <1>4 DEF Below
<1>6. ASSUME NEW b \in Block
      PROVE  Held(stack'[t], b) = Held(stack[t], b) + One(b = NoBlock)
  <2>1. One(b = NoBlock) = 0 /\ One(Holds(Me(t), b)) = 0
    BY BlockAssumption DEF One
  <2>2. Held(stack[t], b) = One(Holds(Me(t), b)) + Held(Rest(t), b) /\ Held(Rest(t), b) \in Nat
    BY <1>1, CallStack
  <2> QED BY <1>3, <2>1, <2>2
<1>7. Count({NoBlock}, {})
  BY <1>1, StillCounted
<1> QED BY <1>1, <1>2, <1>4, <1>5, <1>6, <1>7, Take

(* A function is called: what the frames hold, and whom a child is added for. *)
Shares(f, g, h, x) ==
    /\ \A b \in Block : One(Holds(g, b)) + One(Holds(h, b)) = One(Holds(f, b)) + One(b = x)
    /\ TopFree(g) \/ (h.pc = "registered" /\ h.parent = g.parent)

LEMMA TakeCall ==
    ASSUME Core, BoundsOK', NEW t \in Thread, stack[t] # <<>>, Me(t).pc # "destroy",
           NEW g \in FrameType, FrameOK(g), g.pc \notin {"destroy", "insert"},
           NEW h \in FrameType, FrameOK(h), h.pc \in Below,
           Resume(t, <<g>> \o (<<h>> \o Rest(t))),
           NEW x \in Listed \cup {NoBlock}, Count({x}, {}),
           UNCHANGED <<list, alive, name, parent>>, Shares(Me(t), g, h, x)
    PROVE  Core'
<1> DEFINE r == <<h>> \o Rest(t)
           s == <<g>> \o r
<1>1. TypeOK /\ StackOK(t) /\ ~ At(t, "destroy")
  BY DEF Core, At, Me
<1>2. Sound(Rest(t)) /\ Rest(t) \in Seq(FrameType) /\ \A b : Held(Rest(t), b) \in Nat
  BY <1>1, CallStack DEF Sound
<1>3. /\ Sound(r) /\ r[1] = h /\ Len(r) = Len(Rest(t)) + 1
      /\ \A b : Held(r, b) = One(Holds(h, b)) + Held(Rest(t), b)
  BY <1>2, PushSound, PushedAt, HeldPushed
<1>4. Len(Rest(t)) \in Nat /\ r \in Seq(FrameType) /\ DOMAIN r = 1 .. Len(r)
      /\ \A i \in DOMAIN r : FrameOK(r[i]) /\ r[i].pc \in Below
  BY <1>2, <1>3, LenProperties DEF Sound
<1> HIDE DEF r
<1>5. /\ s \in Seq(FrameType) /\ Len(s) = Len(r) + 1 /\ s[1] = g /\ Head(s) = g
      /\ \A i \in 2 .. Len(r) + 1 : s[i] = r[i - 1]
      /\ \A b : Held(s, b) = One(Holds(g, b)) + Held(r, b)
  BY <1>4, PushedAt, HeldPushed
<1>6. DOMAIN s = 1 .. Len(r) + 1 /\ s # <<>>
  BY <1>4, <1>5, LenProperties, EmptySeq
<1>7. stack'[t] = s
  BY <1>1, Resumed DEF r
<1> HIDE DEF s
<1>8. \A pc : At(t, pc)' <=> pc = g.pc
  BY <1>5, <1>6, <1>7 DEF At
<1>9. StackOK(t)'
  <2>1. ASSUME NEW i \in DOMAIN s PROVE FrameOK(s[i]) /\ (i > 1 => s[i].pc \in Below)
    <3>1. CASE i = 1
      BY <1>5, <3>1
    <3>2. CASE i # 1
      <4>1. i \in 2 .. Len(r) + 1 /\ i - 1 \in DOMAIN r
        BY <1>3, <1>4, <1>6, <3>2
      <4> QED BY <1>4, <1>5, <4>1
    <3> QED BY <3>1, <3>2
  <2>2. Me(t)' = g /\ s[2] = h /\ Len(s) > 1
    <3>1. 2 \in 2 .. Len(r) + 1 /\ 2 - 1 = 1
      BY <1>3, <1>4
    <3>2. s[2] = r[1]
      BY <1>5, <3>1
    <3> QED BY <1>3, <1>4, <1>5, <1>7, <3>2 DEF Me
  <2>3. At(t, "add")' /\ Me(t)'.parent # NoBlock => s[2].pc = "registered" /\ s[2].parent = Me(t)'.parent
    BY <1>8, <2>2 DEF TopFree, Shares
  <2> QED BY <1>7, <2>1, <2>2, <2>3 DEF StackOK
<1>10. ASSUME NEW b \in Block PROVE Held(stack'[t], b) = Held(stack[t], b) + One(b = x)
  <2>1. /\ One(Holds(g, b)) \in Nat /\ One(Holds(h, b)) \in Nat /\ One(Holds(Me(t), b)) \in Nat
        /\ One(b = x) \in Nat /\ Held(Rest(t), b) \in Nat
    BY <1>2 DEF One
  <2>2. Held(stack[t], b) = One(Holds(Me(t), b)) + Held(Rest(t), b)
    BY <1>1, CallStack
  <2>3. Held(stack'[t], b) = One(Holds(g, b)) + (One(Holds(h, b)) + Held(Rest(t), b))
    BY <1>3, <1>5, <1>7
  <2>4. One(Holds(g, b)) + One(Holds(h, b)) = One(Holds(Me(t), b)) + One(b = x)
    BY DEF Shares
  <2> QED BY <2>1, <2>2, <2>3, <2>4
<1>11. Resume(t, s) /\ ~ At(t, "destroy")' /\ ~ At(t, "insert")'
  BY <1>8 DEF s, r
<1> QED BY <1>1, <1>5, <1>9, <1>10, <1>11, Take

-----------------------------------------------------------------------------
(***************************************************************************)
(* The running frame keeps what it holds, or gets hold of a device.        *)
(***************************************************************************)
LEMMA MyFrame ==
    ASSUME Core, NEW t \in Thread, NEW pc, At(t, pc)
    PROVE  /\ stack[t] # <<>> /\ Me(t) \in FrameType /\ FrameOK(Me(t)) /\ Me(t).pc = pc
           /\ Sound(Rest(t)) /\ 1 \in DOMAIN stack[t] /\ stack[t][1] = Me(t)
           /\ \A b : Held(stack[t], b) = One(Holds(Me(t), b)) + Held(Rest(t), b)
           /\ \A b : Held(Rest(t), b) \in Nat
<1>1. TypeOK /\ StackOK(t) /\ stack[t] # <<>> /\ Me(t).pc = pc
  BY DEF Core, At, Me
<1> QED BY <1>1, CallStack

LEMMA BeginBounds ==
    ASSUME TypeOK, NEW t \in Thread, NEW f, Begin(t, f)
    PROVE  overlap' \in BOOLEAN /\ calls' \in Nat
<1>1. overlap \in BOOLEAN /\ calls \in Nat /\ calls' = calls + 1
  BY DEF TypeOK, Begin
<1>2. overlap' \in BOOLEAN
  BY Zenon DEF Begin
<1> QED BY <1>1, <1>2

LEMMA SameBounds ==
    ASSUME TypeOK, UNCHANGED <<handle, unseen, callVars>>
    PROVE  BoundsOK'
BY DEF TypeOK, BoundsOK, callVars

LEMMA GoOn ==
    ASSUME Core, BoundsOK', NEW t \in Thread, stack[t] # <<>>, Me(t).pc # "destroy",
           NEW g \in FrameType, FrameOK(g), TopFree(g), g.pc \notin {"destroy", "insert"},
           Resume(t, <<g>> \o Rest(t)), UNCHANGED <<list, ref, alive, name, parent>>,
           \A b \in Block : Holds(g, b) <=> Holds(Me(t), b)
    PROVE  Core'
<1>1. Count({NoBlock}, {})
  BY StillCounted DEF Core
<1>2. \A b \in Block : One(Holds(g, b)) = One(Holds(Me(t), b)) + One(b = NoBlock)
  BY BlockAssumption DEF One
<1> DEFINE x == NoBlock
<1>3. x \in Listed \cup {NoBlock} /\ Count({x}, {})
      /\ \A b \in Block : One(Holds(g, b)) = One(Holds(Me(t), b)) + One(b = x)
  BY <1>1, <1>2
<1>4. UNCHANGED <<list, alive, name, parent>>
  OBVIOUS
<1> HIDE DEF x
<1> QED BY <1>3, <1>4, TakeOn

LEMMA Grab ==
    ASSUME Core, BoundsOK', NEW t \in Thread, stack[t] # <<>>, Me(t).pc # "destroy",
           NEW g \in FrameType, FrameOK(g), TopFree(g), g.pc \notin {"destroy", "insert"},
           Resume(t, <<g>> \o Rest(t)), NEW x \in Listed \cup {NoBlock}, Count({x}, {}),
           UNCHANGED <<list, alive, name, parent>>,
           \A b \in Block : ~ Holds(Me(t), b) /\ (Holds(g, b) <=> b = x)
    PROVE  Core'
<1>2. \A b \in Block : One(Holds(g, b)) = One(Holds(Me(t), b)) + One(b = x)
  BY DEF One
<1> QED BY <1>2, TakeOn

(* A reference to no device is none. *)
LEMMA CountNone ==
    ASSUME TypeOK, Count({NoBlock}, {})
    PROVE  UNCHANGED ref
<1>1. ref \in [Block -> Nat] /\ NoBlock \notin Block
  BY BlockAssumption DEF TypeOK
<1>2. \A b \in Block : (ref[b] + (IF b \in {NoBlock} THEN 1 ELSE 0)) - (IF b \in {} THEN 1 ELSE 0)
                         = ref[b]
  BY <1>1
<1> QED BY <1>1, <1>2 DEF Count

-----------------------------------------------------------------------------
(* Calls. *)
LEMMA ProcessPnPMsgQueueCore ==
    ASSUME Core, NEW t \in Pnp, NEW n \in Name, ProcessPnPMsgQueue(t, n)
    PROVE  Core'
<1>1. PICK attached \in BOOLEAN : Begin(t, Frame(IF attached THEN "add" ELSE "remove", n))
  BY DEF ProcessPnPMsgQueue
<1> DEFINE g == Frame(IF attached THEN "add" ELSE "remove", n)
<1>2. t \in Thread /\ TypeOK
  BY DEF Thread, Core
<1>3. /\ g \in FrameType /\ FrameOK(g) /\ TopFree(g) /\ g.pc \notin {"destroy", "insert"}
      /\ g.dev = NoBlock /\ g.pc # "registered"
  BY DEF FrameType, Frame, Pc, Pointer, FrameOK, TopFree
<1>4. Begin(t, g)
  BY <1>1
<1> HIDE DEF g
<1>5. BoundsOK'
  BY <1>2, <1>4, BeginBounds DEF ProcessPnPMsgQueue, TypeOK, BoundsOK
<1>6. UNCHANGED <<list, ref, alive, name, parent>>
  BY DEF ProcessPnPMsgQueue, blockVars
<1>7. \A b \in Block : One(Holds(g, b)) = One(b = NoBlock)
  BY <1>3, BlockAssumption DEF One, Holds
<1> QED BY <1>2, <1>3, <1>4, <1>5, <1>6, <1>7, StillCounted, TakeBegin

LEMMA PmRegisterPowerRelationshipCore ==
    ASSUME Core, NEW t \in Client, NEW n \in Name, NEW p \in Name,
           PmRegisterPowerRelationship(t, n, p)
    PROVE  Core'
<1> DEFINE g == Registration(n, p)
<1>2. t \in Thread /\ TypeOK
  BY DEF Thread, Core
<1>3. /\ g \in FrameType /\ FrameOK(g) /\ TopFree(g) /\ g.pc \notin {"destroy", "insert"}
      /\ g.dev = NoBlock /\ g.pc # "registered"
  BY DEF FrameType, Frame, Registration, Pc, Pointer, FrameOK, TopFree
<1>4. Begin(t, g)
  BY DEF PmRegisterPowerRelationship
<1> HIDE DEF g
<1>5. BoundsOK'
  BY <1>2, <1>4, BeginBounds DEF PmRegisterPowerRelationship, TypeOK, BoundsOK
<1>6. UNCHANGED <<list, ref, alive, name, parent>>
  BY DEF PmRegisterPowerRelationship, blockVars
<1>7. \A b \in Block : One(Holds(g, b)) = One(b = NoBlock)
  BY <1>3, BlockAssumption DEF One, Holds
<1> QED BY <1>2, <1>3, <1>4, <1>5, <1>6, <1>7, StillCounted, TakeBegin

LEMMA NameOfNoHandle == NoHandle \in [dev : Pointer, name : Name]
<1>1. (CHOOSE n \in Name : TRUE) \in Name
  BY ClassAssumption
<1> QED BY <1>1 DEF NoHandle, Pointer

LEMMA PmReleasePowerRelationshipCore ==
    ASSUME Core, NEW t \in Client, PmReleasePowerRelationship(t)
    PROVE  Core'
<1> DEFINE h == handle[t]
           g == [Frame("release", h.name) EXCEPT !.dev = h.dev]
<1>1. t \in Thread /\ TypeOK /\ h \in [dev : Pointer, name : Name]
  BY DEF Thread, Core, TypeOK
<1>2. handle' \in [Client -> [dev : Pointer, name : Name]] /\ UNCHANGED <<list, alive, name, parent, unseen>>
  BY <1>1, NameOfNoHandle DEF PmReleasePowerRelationship, TypeOK
<1>3. CASE h.dev \in Listed
  <2>1. /\ g \in FrameType /\ FrameOK(g) /\ TopFree(g) /\ g.pc = "release"
        /\ g.dev = h.dev
    BY <1>1 DEF FrameType, Frame, Pc, Pointer, FrameOK, TopFree
  <2>2. Begin(t, g) /\ Count({h.dev}, {})
    BY <1>3 DEF PmReleasePowerRelationship
  <2> HIDE DEF g
  <2>3. BoundsOK'
    BY <1>1, <1>2, <2>2, BeginBounds DEF TypeOK, BoundsOK
  <2>4. \A b \in Block : One(Holds(g, b)) = One(b = h.dev)
    BY <2>1 DEF One, Holds
  <2> HIDE DEF h
  <2> QED BY <1>1, <1>2, <1>3, <2>1, <2>2, <2>3, <2>4, TakeBegin
<1>4. CASE h.dev \notin Listed
  <2>1. UNCHANGED <<ref, stack, callVars>>
    BY <1>4 DEF PmReleasePowerRelationship
  <2>2. TypeOK'
    BY <1>1, <1>2, <2>1 DEF TypeOK, callVars
  <2>3. RefsExact' /\ LifeOK' /\ \A u \in Thread : StackOK(u)'
    BY <1>2, <2>1 DEF Core, RefsExact, Holders, Listed, LifeOK, StackOK, At, Me
  <2>4. ListsOK'
    BY <1>2, ListsKeep DEF Core
  <2> QED BY <2>2, <2>3, <2>4 DEF Core
<1> QED BY <1>3, <1>4

LEMMA PmGetDevicePowerCore ==
    ASSUME Core, NEW t \in Reader, NEW n \in Name, PmGetDevicePower(t, n)
    PROVE  Core'
<1> DEFINE x == Find(n)
           g == [Frame("drop", n) EXCEPT !.dev = x]
<1>1. t \in Thread /\ TypeOK
  BY DEF Thread, Core
<1>2. x \in Listed \cup {NoBlock} /\ x \in Pointer
  BY <1>1, FindListed, ListedBlocks DEF Pointer
<1>3. Begin(t, g) /\ Count({x}, {}) /\ UNCHANGED <<list, alive, name, parent, handle, unseen>>
  BY DEF PmGetDevicePower
<1> HIDE DEF x
<1>4. /\ g \in FrameType /\ FrameOK(g) /\ TopFree(g) /\ g.pc = "drop" /\ g.dev = x
  BY <1>2 DEF FrameType, Frame, Pc, Pointer, FrameOK, TopFree
<1> HIDE DEF g
<1>5. BoundsOK'
  BY <1>1, <1>3, BeginBounds DEF TypeOK, BoundsOK
<1>6. \A b \in Block : One(Holds(g, b)) = One(b = x)
  BY <1>4 DEF One, Holds
<1> QED BY <1>1, <1>2, <1>3, <1>4, <1>5, <1>6, TakeBegin

LEMMA UpdateAllDeviceStatesCore ==
    ASSUME Core, NEW t \in Reader, UpdateAllDeviceStates(t)
    PROVE  Core'
<1> DEFINE g == [Frame("class", NoHandle.name) EXCEPT !.class = 1]
<1>1. t \in Thread /\ TypeOK /\ NoHandle.name \in Name
  BY NameOfNoHandle DEF Thread, Core
<1>2. Begin(t, g) /\ UNCHANGED <<list, blockVars, handle, unseen>>
  BY DEF UpdateAllDeviceStates
<1>3. /\ g \in FrameType /\ FrameOK(g) /\ TopFree(g) /\ g.pc = "class" /\ g.dev = NoBlock
  BY <1>1 DEF FrameType, Frame, Pc, Pointer, FrameOK, TopFree
<1> HIDE DEF g
<1>4. BoundsOK'
  BY <1>1, <1>2, BeginBounds DEF TypeOK, BoundsOK
<1>5. UNCHANGED <<list, ref, alive, name, parent>>
  BY <1>2 DEF blockVars
<1>6. \A b \in Block : One(Holds(g, b)) = One(b = NoBlock)
  BY <1>3, BlockAssumption DEF One, Holds
<1> QED BY <1>1, <1>2, <1>3, <1>4, <1>5, <1>6, StillCounted, TakeBegin

-----------------------------------------------------------------------------
(* AddDevice and RemoveDevice, up to the changes of the lists. *)
LEMMA MovedFrame ==
    ASSUME NEW f \in FrameType, NEW pc \in Pc
    PROVE  /\ [f EXCEPT !.pc = pc] \in FrameType
           /\ [f EXCEPT !.pc = pc].pc = pc
           /\ [f EXCEPT !.pc = pc].dev = f.dev
           /\ [f EXCEPT !.pc = pc].parent = f.parent
           /\ [f EXCEPT !.pc = pc].class = f.class
BY DEF FrameType

LEMMA UsingFrame ==
    ASSUME NEW f \in FrameType, NEW pc \in Pc, NEW b \in Pointer
    PROVE  /\ [f EXCEPT !.pc = pc, !.dev = b] \in FrameType
           /\ [f EXCEPT !.pc = pc, !.dev = b].pc = pc
           /\ [f EXCEPT !.pc = pc, !.dev = b].dev = b
           /\ [f EXCEPT !.pc = pc, !.dev = b].parent = f.parent
           /\ [f EXCEPT !.pc = pc, !.dev = b].class = f.class
BY DEF FrameType

LEMMA SomePcs == {"drop", "unlink", "discard", "probe", "insert", "parent", "update", "orphan", "walk"} \subseteq Pc
BY DEF Pc

LEMMA FindDuplicateFound ==
    ASSUME Core, NEW t \in Thread, FindDuplicate(t), Find(Me(t).name) # NoBlock
    PROVE  Core'
<1> DEFINE x == Find(Me(t).name)
           g == [Me(t) EXCEPT !.pc = "drop", !.dev = x]
<1>1. At(t, "add") /\ TypeOK
  BY DEF FindDuplicate, Core
<1>2. /\ stack[t] # <<>> /\ Me(t) \in FrameType /\ FrameOK(Me(t)) /\ Me(t).pc = "add"
  BY <1>1, MyFrame
<1>3. x \in Listed \cup {NoBlock} /\ x \in Pointer
  BY <1>1, <1>2, FindListed, ListedBlocks DEF Pointer, FrameType
<1>4. /\ Resume(t, <<g>> \o Rest(t)) /\ Count({x}, {})
      /\ UNCHANGED <<list, alive, name, parent, handle, unseen, callVars>>
  BY DEF FindDuplicate, Using
<1> HIDE DEF x
<1>5. g \in FrameType /\ g.pc = "drop" /\ g.dev = x
  BY <1>2, <1>3, SomePcs DEF FrameType
<1> HIDE DEF g
<1>6. FrameOK(g) /\ TopFree(g)
  BY <1>5 DEF FrameOK, TopFree
<1>7. \A b \in Block : ~ Holds(Me(t), b) /\ (Holds(g, b) <=> b = x)
  BY <1>2, <1>5, BlockAssumption DEF Holds, FrameOK
<1>8. BoundsOK'
  BY <1>1, <1>4, SameBounds
<1> QED BY <1>1, <1>2, <1>3, <1>4, <1>5, <1>6, <1>7, <1>8, Grab

LEMMA FindDuplicateNoMemory ==
    ASSUME Core, NEW t \in Thread, At(t, "add"), Resume(t, Rest(t)),
           UNCHANGED <<list, blockVars, handle, unseen, callVars>>
    PROVE  Core'
<1>1. BoundsOK' /\ UNCHANGED <<list, ref, alive, name, parent>>
  BY SameBounds DEF Core, blockVars
<1>2. stack[t] # <<>> /\ FrameOK(Me(t)) /\ Me(t).pc = "add"
  BY MyFrame
<1>3. \A b \in Block : ~ Holds(Me(t), b)
  BY <1>2, BlockAssumption DEF Holds, FrameOK
<1> QED BY <1>1, <1>2, <1>3, TakeReturn

LEMMA ProbeDeviceCore ==
    ASSUME Core, NEW t \in Thread, ProbeDevice(t)
    PROVE  Core'
<1>1. At(t, "probe") /\ TypeOK
  BY DEF ProbeDevice, Core
<1>2. stack[t] # <<>> /\ Me(t) \in FrameType /\ FrameOK(Me(t)) /\ Me(t).pc = "probe"
  BY <1>1, MyFrame
<1>3. BoundsOK' /\ UNCHANGED <<list, ref, alive, name, parent>>
  BY <1>1, SameBounds DEF ProbeDevice, blockVars
<1>4. ASSUME NEW pc \in {"discard", "drop"}, Resume(t, Goto(t, pc)) PROVE Core'
  <2> DEFINE g == [Me(t) EXCEPT !.pc = pc]
  <2>1. g \in FrameType /\ g.pc = pc /\ g.dev = Me(t).dev
    BY <1>2, MovedFrame, SomePcs
  <2>2. Resume(t, <<g>> \o Rest(t))
    BY <1>4 DEF Goto
  <2> HIDE DEF g
  <2>3. FrameOK(g) /\ TopFree(g) /\ \A b \in Block : Holds(g, b) <=> Holds(Me(t), b)
    BY <1>2, <2>1 DEF FrameOK, TopFree, Holds
  <2> QED BY <1>2, <1>3, <2>1, <2>2, <2>3, GoOn
<1>5. ASSUME NEW n \in Name, Resume(t, <<Registration(n, Me(t).name)>> \o Goto(t, "drop"))
      PROVE  Core'
  <2> DEFINE g == Registration(n, Me(t).name)
             h == [Me(t) EXCEPT !.pc = "drop"]
  <2>1. h \in FrameType /\ h.pc = "drop" /\ h.dev = Me(t).dev
    BY <1>2, MovedFrame, SomePcs
  <2>2. /\ g \in FrameType /\ FrameOK(g) /\ TopFree(g) /\ g.pc = "register" /\ g.dev = NoBlock
    BY <1>2 DEF FrameType, Frame, Registration, Pc, Pointer, FrameOK, TopFree
  <2>3. Resume(t, <<g>> \o (<<h>> \o Rest(t)))
    BY <1>5 DEF Goto
  <2> HIDE DEF g, h
  <2>4. FrameOK(h) /\ h.pc \in Below
    BY <2>1 DEF FrameOK, Below
  <2> DEFINE x == NoBlock
  <2>5. x \in Listed \cup {NoBlock} /\ Count({x}, {})
    BY <1>1, <1>3, StillCounted
  <2>6. Shares(Me(t), g, h, x)
    BY <1>2, <2>1, <2>2, BlockAssumption DEF One, Holds, Shares
  <2> HIDE DEF x
  <2>7. UNCHANGED <<list, alive, name, parent>>
    BY <1>3
  <2> QED BY <1>2, <1>3, <2>1, <2>2, <2>3, <2>4, <2>5, <2>6, <2>7, TakeCall
<1> QED BY <1>4, <1>5 DEF ProbeDevice

LEMMA FindDeviceCore ==
    ASSUME Core, NEW t \in Thread, FindDevice(t)
    PROVE  Core'
<1> DEFINE x == Find(Me(t).name)
           g == [Me(t) EXCEPT !.pc = "unlink", !.dev = x]
<1>1. At(t, "remove") /\ TypeOK
  BY DEF FindDevice, Core
<1>2. stack[t] # <<>> /\ Me(t) \in FrameType /\ FrameOK(Me(t)) /\ Me(t).pc = "remove"
  BY <1>1, MyFrame
<1>3. x \in Listed \cup {NoBlock} /\ x \in Pointer
  BY <1>1, <1>2, FindListed, ListedBlocks DEF Pointer, FrameType
<1>4. /\ Resume(t, IF x = NoBlock THEN Rest(t) ELSE <<g>> \o Rest(t)) /\ Count({x}, {})
      /\ UNCHANGED <<list, alive, name, parent, handle, unseen, callVars>>
  BY DEF FindDevice, Using
<1> HIDE DEF x
<1>5. g \in FrameType /\ g.pc = "unlink" /\ g.dev = x
  BY <1>2, <1>3, SomePcs DEF FrameType
<1> HIDE DEF g
<1>6. BoundsOK'
  BY <1>1, <1>4, SameBounds
<1>7. \A b \in Block : ~ Holds(Me(t), b)
  BY <1>2, BlockAssumption DEF Holds, FrameOK
<1>8. CASE x = NoBlock
  <2>1. UNCHANGED ref
    BY <1>1, <1>4, <1>8, CountNone
  <2> QED BY <1>2, <1>4, <1>6, <1>7, <1>8, <2>1, TakeReturn
<1>9. CASE x # NoBlock
  <2>1. FrameOK(g) /\ TopFree(g)
    BY <1>3, <1>5, <1>9 DEF FrameOK, TopFree, Pointer
  <2>2. \A b \in Block : Holds(g, b) <=> b = x
    BY <1>5 DEF Holds
  <2> QED BY <1>2, <1>3, <1>4, <1>5, <1>6, <1>7, <1>9, <2>1, <2>2, Grab
<1> QED BY <1>8, <1>9

LEMMA NextClassCore ==
    ASSUME Core, NEW t \in Thread, NextClass(t)
    PROVE  Core'
<1> DEFINE k == Me(t).class + 1
           g == [Me(t) EXCEPT !.pc = "drop"]
           h == [Me(t) EXCEPT !.class = k, !.cur = First(Members(k))]
<1>1. At(t, "walk") /\ TypeOK
  BY DEF NextClass, Core
<1>2. stack[t] # <<>> /\ Me(t) \in FrameType /\ FrameOK(Me(t)) /\ Me(t).pc = "walk"
  BY <1>1, MyFrame
<1>3. Resume(t, IF k > Len(Class) THEN <<g>> \o Rest(t) ELSE <<h>> \o Rest(t))
  BY DEF NextClass, Goto
<1>4. BoundsOK' /\ UNCHANGED <<list, ref, alive, name, parent>>
  BY <1>1, SameBounds DEF NextClass, blockVars
<1>5. CASE k > Len(Class)
  <2>1. g \in FrameType /\ g.pc = "drop" /\ g.dev = Me(t).dev
    BY <1>2, MovedFrame, SomePcs
  <2>2. FrameOK(g) /\ TopFree(g) /\ \A b \in Block : Holds(g, b) <=> Holds(Me(t), b)
    BY <1>2, <2>1 DEF FrameOK, TopFree, Holds
  <2>3. Resume(t, <<g>> \o Rest(t))
    BY <1>3, <1>5
  <2> HIDE DEF g
  <2> QED BY <1>2, <1>4, <2>1, <2>2, <2>3, GoOn
<1>6. CASE ~ (k > Len(Class))
  <2>1. k \in Nat /\ k \in DOMAIN Class /\ Class[k] \in Classes
    BY <1>2, <1>6, ClassType DEF FrameType
  <2>2. First(Members(k)) \in Pointer
    BY <1>1, <2>1, FirstListed, ListedBlocks DEF Members, Pointer
  <2>3. h \in FrameType /\ h.pc = "walk" /\ h.dev = Me(t).dev
    BY <1>2, <2>1, <2>2 DEF FrameType
  <2>4. FrameOK(h) /\ TopFree(h) /\ \A b \in Block : Holds(h, b) <=> Holds(Me(t), b)
    BY <1>2, <2>3 DEF FrameOK, TopFree, Holds
  <2>5. Resume(t, <<h>> \o Rest(t))
    BY <1>3, <1>6
  <2> HIDE DEF h
  <2> QED BY <1>2, <1>4, <2>3, <2>4, <2>5, GoOn
<1> QED BY <1>5, <1>6

LEMMA VisitDeviceCore ==
    ASSUME Core, NEW t \in Thread, VisitDevice(t)
    PROVE  Core'
<1> DEFINE c == Me(t).cur
           h == [Me(t) EXCEPT !.cur = NextOf(c)]
           g == Frame("remove", name[c])
<1>1. At(t, "walk") /\ TypeOK /\ ListsOK /\ c \in Block
  BY DEF VisitDevice, Core, TypeOK
<1>2. stack[t] # <<>> /\ Me(t) \in FrameType /\ FrameOK(Me(t)) /\ Me(t).pc = "walk"
  BY <1>1, MyFrame
<1>3. Resume(t, IF parent[c] = Me(t).dev THEN <<g>> \o (<<h>> \o Rest(t)) ELSE <<h>> \o Rest(t))
  BY DEF VisitDevice
<1>4. BoundsOK' /\ UNCHANGED <<list, ref, alive, name, parent>>
  BY <1>1, SameBounds DEF VisitDevice, blockVars
<1>5. NextOf(c) \in Pointer
  BY <1>1, NextListed, ListedBlocks DEF Pointer
<1>6. h \in FrameType /\ h.pc = "walk" /\ h.dev = Me(t).dev
  BY <1>2, <1>5 DEF FrameType
<1>7. name[c] \in Name
  BY <1>1 DEF TypeOK
<1>8. /\ g \in FrameType /\ FrameOK(g) /\ TopFree(g) /\ g.pc = "remove" /\ g.dev = NoBlock
  BY <1>7 DEF FrameType, Frame, Pc, Pointer, FrameOK, TopFree
<1> HIDE DEF g, h
<1>9. FrameOK(h) /\ TopFree(h) /\ h.pc \in Below /\ \A b \in Block : Holds(h, b) <=> Holds(Me(t), b)
  BY <1>2, <1>6 DEF FrameOK, TopFree, Holds, Below
<1>10. CASE parent[c] # Me(t).dev
  BY <1>2, <1>3, <1>4, <1>6, <1>9, <1>10, GoOn
<1>11. CASE parent[c] = Me(t).dev
  <2> DEFINE x == NoBlock
  <2>1. x \in Listed \cup {NoBlock} /\ Count({x}, {})
    BY <1>1, <1>4, StillCounted
  <2>2. Shares(Me(t), g, h, x)
    BY <1>8, <1>9, BlockAssumption DEF One, Holds, Shares
  <2>3. Resume(t, <<g>> \o (<<h>> \o Rest(t)))
    BY <1>3, <1>11
  <2> HIDE DEF x
  <2>4. UNCHANGED <<list, alive, name, parent>>
    BY <1>4
  <2> QED BY <1>2, <1>4, <1>6, <1>8, <1>9, <2>1, <2>2, <2>3, <2>4, TakeCall
<1> QED BY <1>10, <1>11

-----------------------------------------------------------------------------
(* Parents and children, and the walk of an update. *)
LEMMA TwoOnTop ==
    ASSUME NEW S, NEW s \in Seq(S), NEW f \in S, NEW g \in S
    PROVE  <<f, g>> \o s = <<f>> \o (<<g>> \o s)
<1> DEFINE u == <<f, g>> \o s
           v == <<g>> \o s
           w == <<f>> \o v
<1>1. <<f, g>> \in Seq(S) /\ Len(s) \in Nat
  BY LenProperties
<1>2. /\ u \in Seq(S) /\ Len(u) = 2 + Len(s) /\ u[1] = f /\ u[2] = g
      /\ \A i \in 3 .. Len(s) + 2 : u[i] = s[i - 2]
  BY <1>1, ConcatProperties
<1>3. /\ v \in Seq(S) /\ Len(v) = Len(s) + 1 /\ v[1] = g
      /\ \A i \in 2 .. Len(s) + 1 : v[i] = s[i - 1]
  BY PushedAt
<1> HIDE DEF v
<1>4. /\ w \in Seq(S) /\ Len(w) = Len(v) + 1 /\ w[1] = f
      /\ \A i \in 2 .. Len(v) + 1 : w[i] = v[i - 1]
  BY <1>3, PushedAt
<1> HIDE DEF u, w
<1>5. ASSUME NEW i \in 1 .. Len(u) PROVE u[i] = w[i]
  <2>1. CASE i = 1
    BY <1>2, <1>4, <2>1
  <2>2. CASE i = 2
    BY <1>1, <1>2, <1>3, <1>4, <2>2
  <2>3. CASE i > 2
    <3>1. i \in 3 .. Len(s) + 2 /\ i - 1 \in 2 .. Len(s) + 1 /\ i \in 2 .. Len(v) + 1
      BY <1>1, <1>2, <1>3, <2>3
    <3>2. u[i] = s[i - 2] /\ w[i] = v[i - 1] /\ v[i - 1] = s[(i - 1) - 1]
      BY <1>2, <1>3, <1>4, <3>1
    <3> QED BY <3>1, <3>2
  <2> QED BY <2>1, <2>2, <2>3
<1>6. u = w
  BY <1>1, <1>2, <1>3, <1>4, <1>5, SeqEqual
<1> QED BY <1>6 DEF u, v, w

LEMMA RememberType ==
    ASSUME TypeOK, NEW t \in Thread, Me(t) \in FrameType, NEW b \in Pointer,
           Remember(t, b) \/ UNCHANGED handle, UNCHANGED <<unseen, callVars>>
    PROVE  BoundsOK'
<1>1. handle' \in [Client -> [dev : Pointer, name : Name]]
  BY DEF TypeOK, Remember, FrameType
<1> QED BY <1>1 DEF TypeOK, BoundsOK, callVars

LEMMA CheckChildCore ==
    ASSUME Core, NEW t \in Thread, CheckChild(t)
    PROVE  Core'
<1> DEFINE x == Find(Me(t).name)
           g == [Me(t) EXCEPT !.pc = "drop", !.dev = x]
           h == [Me(t) EXCEPT !.pc = "parent"]
<1>1. At(t, "register") /\ TypeOK
  BY DEF CheckChild, Core
<1>2. stack[t] # <<>> /\ Me(t) \in FrameType /\ FrameOK(Me(t)) /\ Me(t).pc = "register"
  BY <1>1, MyFrame
<1>3. x \in Listed \cup {NoBlock} /\ x \in Pointer
  BY <1>1, <1>2, FindListed, ListedBlocks DEF Pointer, FrameType
<1>4. /\ Count({x}, {}) /\ UNCHANGED <<list, alive, name, parent, unseen, callVars>>
      /\ x = NoBlock => Resume(t, <<h>> \o Rest(t))
      /\ x # NoBlock => Resume(t, <<g>> \o Rest(t))
      /\ Remember(t, x) \/ UNCHANGED handle
  BY DEF CheckChild, Using, Goto
<1> HIDE DEF x
<1>5. g \in FrameType /\ g.pc = "drop" /\ g.dev = x
  BY <1>2, <1>3, SomePcs DEF FrameType
<1>6. h \in FrameType /\ h.pc = "parent" /\ h.dev = Me(t).dev
  BY <1>2, SomePcs DEF FrameType
<1> HIDE DEF g, h
<1>7. BoundsOK'
  BY <1>1, <1>2, <1>3, <1>4, RememberType
<1>8. CASE x = NoBlock
  <2>1. UNCHANGED ref
    BY <1>1, <1>4, <1>8, CountNone
  <2>2. FrameOK(h) /\ TopFree(h) /\ \A b \in Block : Holds(h, b) <=> Holds(Me(t), b)
    BY <1>2, <1>6 DEF FrameOK, TopFree, Holds
  <2>3. UNCHANGED <<list, ref, alive, name, parent>>
    BY <1>4, <2>1
  <2> QED BY <1>2, <1>4, <1>6, <1>7, <1>8, <2>2, <2>3, GoOn
<1>9. CASE x # NoBlock
  <2>1. FrameOK(g) /\ TopFree(g)
    BY <1>5 DEF FrameOK, TopFree
  <2>2. \A b \in Block : ~ Holds(Me(t), b) /\ (Holds(g, b) <=> b = x)
    BY <1>2, <1>5, BlockAssumption DEF Holds, FrameOK
  <2>3. UNCHANGED <<list, alive, name, parent>>
    BY <1>4
  <2> QED BY <1>2, <1>3, <1>4, <1>5, <1>7, <1>9, <2>1, <2>2, <2>3, Grab
<1> QED BY <1>8, <1>9

LEMMA FindParentCore ==
    ASSUME Core, NEW t \in Thread, FindParent(t)
    PROVE  Core'
<1> DEFINE x == Find(Me(t).of)
           g == [Frame("add", Me(t).name) EXCEPT !.parent = x]
           h == [Me(t) EXCEPT !.pc = "registered", !.parent = x]
<1>1. At(t, "parent") /\ TypeOK
  BY DEF FindParent, Core
<1>2. stack[t] # <<>> /\ Me(t) \in FrameType /\ FrameOK(Me(t)) /\ Me(t).pc = "parent"
      /\ Rest(t) \in Seq(FrameType)
  BY <1>1, MyFrame DEF Sound
<1>3. x \in Listed \cup {NoBlock} /\ x \in Pointer
  BY <1>1, <1>2, FindListed, ListedBlocks DEF Pointer, FrameType
<1>4. /\ Count({x}, {}) /\ UNCHANGED <<list, alive, name, parent, handle, unseen, callVars>>
      /\ x = NoBlock => Resume(t, Rest(t))
      /\ x # NoBlock => Resume(t, <<g, h>> \o Rest(t))
  BY DEF FindParent
<1> HIDE DEF x
<1>5. g \in FrameType /\ g.pc = "add" /\ g.dev = NoBlock /\ g.parent = x
  BY <1>2, <1>3 DEF FrameType, Frame, Pc, Pointer
<1>6. h \in FrameType /\ h.pc = "registered" /\ h.dev = Me(t).dev /\ h.parent = x
  BY <1>2, <1>3 DEF FrameType, Pc
<1> HIDE DEF g, h
<1>7. BoundsOK'
  BY <1>1, <1>4, SameBounds
<1>8. \A b \in Block : ~ Holds(Me(t), b)
  BY <1>2, BlockAssumption DEF Holds, FrameOK
<1>9. CASE x = NoBlock
  <2>1. UNCHANGED ref
    BY <1>1, <1>4, <1>9, CountNone
  <2> QED BY <1>2, <1>4, <1>7, <1>8, <1>9, <2>1, TakeReturn
<1>10. CASE x # NoBlock
  <2>1. FrameOK(g) /\ FrameOK(h) /\ h.pc \in Below
    BY <1>5, <1>6 DEF FrameOK, Below
  <2>2. Shares(Me(t), g, h, x)
    <3>1. ASSUME NEW b \in Block
          PROVE  One(Holds(g, b)) + One(Holds(h, b)) = One(Holds(Me(t), b)) + One(b = x)
      BY <1>5, <1>6, <1>8, BlockAssumption DEF One, Holds
    <3> QED BY <1>5, <1>6, <3>1 DEF Shares
  <2>3. Resume(t, <<g>> \o (<<h>> \o Rest(t)))
    <3>1. <<g, h>> \o Rest(t) = <<g>> \o (<<h>> \o Rest(t))
      BY <1>2, <1>5, <1>6, TwoOnTop
    <3> QED BY <1>4, <1>10, <3>1
  <2>4. UNCHANGED <<list, alive, name, parent>>
    BY <1>4
  <2> QED BY <1>2, <1>3, <1>4, <1>5, <1>6, <1>7, <2>1, <2>2, <2>3, <2>4, TakeCall
<1> QED BY <1>9, <1>10

LEMMA FindChildCore ==
    ASSUME Core, NEW t \in Thread, FindChild(t)
    PROVE  Core'
<1> DEFINE x == Find(Me(t).name)
           g == [Me(t) EXCEPT !.pc = "drop", !.dev = x]
           h == [Me(t) EXCEPT !.pc = "drop", !.dev = Me(t).parent]
<1>1. At(t, "registered") /\ TypeOK
  BY DEF FindChild, Core
<1>2. stack[t] # <<>> /\ Me(t) \in FrameType /\ FrameOK(Me(t)) /\ Me(t).pc = "registered"
      /\ Rest(t) \in Seq(FrameType)
  BY <1>1, MyFrame DEF Sound
<1>3. x \in Listed \cup {NoBlock} /\ x \in Pointer
  BY <1>1, <1>2, FindListed, ListedBlocks DEF Pointer, FrameType
<1>4. /\ Count({x}, {}) /\ UNCHANGED <<list, alive, name, parent, unseen, callVars>>
      /\ x = NoBlock => Resume(t, <<h>> \o Rest(t))
      /\ x # NoBlock => Resume(t, <<g>> \o (<<h>> \o Rest(t)))
      /\ Remember(t, x) \/ UNCHANGED handle
  BY DEF FindChild, Using
<1> HIDE DEF x
<1>5. g \in FrameType /\ g.pc = "drop" /\ g.dev = x
  BY <1>2, <1>3, SomePcs DEF FrameType
<1>6. h \in FrameType /\ h.pc = "drop" /\ h.dev = Me(t).parent
  BY <1>2, SomePcs DEF FrameType
<1> HIDE DEF g, h
<1>7. BoundsOK'
  BY <1>1, <1>2, <1>3, <1>4, RememberType
<1>8. FrameOK(g) /\ FrameOK(h) /\ TopFree(g) /\ TopFree(h) /\ h.pc \in Below
  BY <1>5, <1>6 DEF FrameOK, TopFree, Below
<1>9. \A b \in Block : Holds(h, b) <=> Holds(Me(t), b)
  BY <1>2, <1>6 DEF Holds
<1>10. CASE x = NoBlock
  <2>1. UNCHANGED ref
    BY <1>1, <1>4, <1>10, CountNone
  <2>2. UNCHANGED <<list, ref, alive, name, parent>>
    BY <1>4, <2>1
  <2> QED BY <1>2, <1>4, <1>6, <1>7, <1>8, <1>9, <1>10, <2>2, GoOn
<1>11. CASE x # NoBlock
  <2>1. Shares(Me(t), g, h, x)
    <3>1. ASSUME NEW b \in Block
          PROVE  One(Holds(g, b)) + One(Holds(h, b)) = One(Holds(Me(t), b)) + One(b = x)
      BY <1>5, <1>9 DEF One, Holds
    <3> QED BY <1>8, <3>1 DEF Shares
  <2>2. UNCHANGED <<list, alive, name, parent>>
    BY <1>4
  <2> QED BY <1>2, <1>3, <1>4, <1>5, <1>6, <1>7, <1>8, <1>11, <2>1, <2>2, TakeCall
<1> QED BY <1>10, <1>11

LEMMA ReleaseDeviceCore ==
    ASSUME Core, NEW t \in Thread, ReleaseDevice(t)
    PROVE  Core'
<1> DEFINE g == Frame("remove", name[Me(t).dev])
           h == [Me(t) EXCEPT !.pc = "drop"]
<1>1. At(t, "release") /\ TypeOK /\ Me(t).dev \in Listed
  BY DEF ReleaseDevice, Core
<1>2. stack[t] # <<>> /\ Me(t) \in FrameType /\ FrameOK(Me(t)) /\ Me(t).pc = "release"
  BY <1>1, MyFrame
<1>3. BoundsOK' /\ UNCHANGED <<list, ref, alive, name, parent>>
  BY <1>1, SameBounds DEF ReleaseDevice, blockVars
<1>4. h \in FrameType /\ h.pc = "drop" /\ h.dev = Me(t).dev
  BY <1>2, SomePcs DEF FrameType
<1>5. name[Me(t).dev] \in Name
  BY <1>1, ListedBlocks DEF TypeOK
<1>6. /\ g \in FrameType /\ FrameOK(g) /\ TopFree(g) /\ g.pc = "remove" /\ g.dev = NoBlock
  BY <1>5 DEF FrameType, Frame, Pc, Pointer, FrameOK, TopFree
<1>7. Resume(t, <<g>> \o (<<h>> \o Rest(t)))
  BY DEF ReleaseDevice, Goto
<1> HIDE DEF g, h
<1>8. FrameOK(h) /\ h.pc \in Below
  BY <1>4 DEF FrameOK, Below
<1> DEFINE x == NoBlock
<1>9. x \in Listed \cup {NoBlock} /\ Count({x}, {})
  BY <1>1, <1>3, StillCounted
<1>10. Shares(Me(t), g, h, x)
  BY <1>2, <1>4, <1>6, BlockAssumption DEF One, Holds, Shares
<1>11. UNCHANGED <<list, alive, name, parent>>
  BY <1>3
<1> HIDE DEF x
<1> QED BY <1>2, <1>3, <1>4, <1>6, <1>7, <1>8, <1>9, <1>10, <1>11, TakeCall

LEMMA StartClassCore ==
    ASSUME Core, NEW t \in Reader, StartClass(t)
    PROVE  Core'
<1> DEFINE k == Me(t).class
           x == First(Members(k))
           g == [Me(t) EXCEPT !.pc = "update", !.dev = x]
           h == [Me(t) EXCEPT !.class = k + 1]
<1>1. At(t, "class") /\ TypeOK /\ t \in Thread
  BY DEF StartClass, Core, Thread
<1>2. stack[t] # <<>> /\ Me(t) \in FrameType /\ FrameOK(Me(t)) /\ Me(t).pc = "class"
  BY <1>1, MyFrame
<1>3. UNCHANGED <<list, alive, name, parent, handle, callVars>>
  BY DEF StartClass
<1>4. \A b \in Block : ~ Holds(Me(t), b)
  BY <1>2, BlockAssumption DEF Holds, FrameOK
<1>5. k \in Nat /\ k > 0
  BY <1>2 DEF FrameOK, FrameType
<1>6. CASE k > Len(Class)
  <2>1. Resume(t, Rest(t)) /\ UNCHANGED <<ref, unseen>>
    BY <1>6 DEF StartClass
  <2>2. BoundsOK'
    BY <1>1, <1>3, <2>1, SameBounds
  <2> QED BY <1>1, <1>2, <1>3, <1>4, <2>1, <2>2, TakeReturn
<1>7. CASE ~ (k > Len(Class)) /\ x = NoBlock
  <2>1. Resume(t, <<h>> \o Rest(t)) /\ UNCHANGED <<ref, unseen>>
    BY <1>7 DEF StartClass
  <2>2. BoundsOK'
    BY <1>1, <1>3, <2>1, SameBounds
  <2>3. h \in FrameType /\ h.pc = "class" /\ h.dev = Me(t).dev /\ h.class = k + 1
    BY <1>2 DEF FrameType
  <2> HIDE DEF h
  <2>4. FrameOK(h) /\ TopFree(h) /\ \A b \in Block : Holds(h, b) <=> Holds(Me(t), b)
    BY <1>2, <1>5, <2>3 DEF FrameOK, TopFree, Holds
  <2>5. UNCHANGED <<list, ref, alive, name, parent>>
    BY <1>3, <2>1
  <2> QED BY <1>1, <1>2, <2>1, <2>2, <2>3, <2>4, <2>5, GoOn
<1>8. CASE ~ (k > Len(Class)) /\ x # NoBlock
  <2>1. Resume(t, <<g>> \o Rest(t)) /\ Count({x}, {})
        /\ unseen' = [unseen EXCEPT ![t] = ToSet(Members(k))]
    BY <1>8 DEF StartClass, Using
  <2>2. k \in DOMAIN Class /\ Class[k] \in Classes
    BY <1>5, <1>8, ClassType
  <2>3. x \in Listed \cup {NoBlock} /\ x \in Pointer /\ x \in Block
    BY <1>1, <1>8, <2>2, FirstListed, ListedBlocks DEF Members, Pointer
  <2>4. ToSet(Members(k)) \subseteq Block
    BY <1>1, <2>2, ListType DEF Members, ToSet
  <2>5. BoundsOK'
    BY <1>1, <1>3, <2>1, <2>4 DEF TypeOK, BoundsOK, callVars
  <2> HIDE DEF x
  <2>6. g \in FrameType /\ g.pc = "update" /\ g.dev = x /\ g.class = k
    BY <1>2, <2>3, SomePcs DEF FrameType
  <2> HIDE DEF g
  <2>7. FrameOK(g) /\ TopFree(g)
    BY <2>2, <2>3, <2>6 DEF FrameOK, TopFree
  <2>8. \A b \in Block : ~ Holds(Me(t), b) /\ (Holds(g, b) <=> b = x)
    BY <1>4, <2>6 DEF Holds
  <2>9. UNCHANGED <<list, alive, name, parent>>
    BY <1>3
  <2> QED BY <1>1, <1>2, <2>1, <2>3, <2>5, <2>6, <2>7, <2>8, <2>9, Grab
<1> QED BY <1>6, <1>7, <1>8

LEMMA EnterUpdateCore ==
    ASSUME Core, NEW t \in Reader, EnterUpdate(t)
    PROVE  Core'
<1> DEFINE g == [Me(t) EXCEPT !.pc = "driver", !.parent = parent[Me(t).dev]]
<1>1. At(t, "update") /\ TypeOK /\ t \in Thread
  BY DEF EnterUpdate, Core, Thread
<1>2. stack[t] # <<>> /\ Me(t) \in FrameType /\ FrameOK(Me(t)) /\ Me(t).pc = "update"
  BY <1>1, MyFrame
<1>3. BoundsOK' /\ UNCHANGED <<list, ref, alive, name, parent>>
  BY <1>1, SameBounds DEF EnterUpdate, blockVars
<1>4. Resume(t, <<g>> \o Rest(t))
  BY DEF EnterUpdate
<1>5. parent[Me(t).dev] \in Pointer
  BY <1>1, <1>2 DEF TypeOK, FrameOK
<1>6. g \in FrameType /\ g.pc = "driver" /\ g.dev = Me(t).dev /\ g.class = Me(t).class
  BY <1>2, <1>5 DEF FrameType, Pc
<1> HIDE DEF g
<1>7. FrameOK(g) /\ TopFree(g) /\ \A b \in Block : Holds(g, b) <=> Holds(Me(t), b)
  BY <1>2, <1>6 DEF FrameOK, TopFree, Holds
<1> QED BY <1>1, <1>2, <1>3, <1>4, <1>6, <1>7, GoOn

-----------------------------------------------------------------------------
(* A reference is given back. *)
LEMMA CountMinus ==
    ASSUME TypeOK, NEW x, Count({}, {x})
    PROVE  Count({NoBlock}, {x})
BY BlockAssumption DEF Count, TypeOK

LEMMA DropCore ==
    ASSUME Core, NEW t \in Thread, Drop(t)
    PROVE  Core'
<1> DEFINE x == Me(t).dev
           fs == Rest(t)
           y == NoBlock
<1>1. At(t, "drop") /\ TypeOK
  BY DEF Drop, Core
<1>2. /\ stack[t] # <<>> /\ Me(t) \in FrameType /\ Me(t).pc = "drop" /\ Sound(fs)
      /\ 1 \in DOMAIN stack[t] /\ stack[t][1] = Me(t)
      /\ \A b : Held(stack[t], b) = One(Holds(Me(t), b)) + Held(fs, b)
      /\ \A b : Held(fs, b) \in Nat
  BY <1>1, MyFrame
<1>3. Resume(t, Destroying(x) \o fs) /\ Count({}, {x})
      /\ UNCHANGED <<list, alive, name, parent, handle, unseen, callVars>>
  BY DEF Drop, DeviceStateDecRef
<1>4. Count({y}, {x}) /\ y \in Listed \cup {NoBlock}
  BY <1>1, <1>3, CountMinus
<1>5. x \in Pointer
  BY <1>2 DEF FrameType
<1>6. BoundsOK' /\ parent' \in [Block -> Pointer] /\ UNCHANGED <<list, alive, name>>
  BY <1>1, <1>3, SameBounds DEF TypeOK
<1>7. ~ At(t, "destroy")
  BY <1>1 DEF At
<1>8. x \in Block => \/ \E c \in alive : parent[c] = x
                     \/ \E i \in DOMAIN stack[t] : Holds(stack[t][i], x)
  BY <1>2 DEF Holds
<1>9. x \in Block /\ ref[x] = 1 => x # y
  BY BlockAssumption
<1>10. ASSUME NEW b \in Block
       PROVE  Held(fs, b) + Kids(b)' + One(b = x) = Held(stack[t], b) + Kids(b) + One(b = y)
  <2>1. Kids(b)' = Kids(b) /\ Kids(b) \in Nat
    BY <1>1, <1>3, KidsSame, KidsFinite
  <2>2. Held(stack[t], b) = One(Holds(Me(t), b)) + Held(fs, b) /\ Held(fs, b) \in Nat
    BY <1>2
  <2>3. One(Holds(Me(t), b)) = One(b = x) /\ One(b = y) = 0 /\ One(b = x) \in Nat
    BY <1>2, BlockAssumption DEF One, Holds
  <2> HIDE DEF x, y, fs
  <2> QED BY <2>1, <2>2, <2>3
<1>11. Gives(t, x, y) /\ Balanced(t, fs, x, y)
  BY <1>8, <1>9, <1>10 DEF Gives, Balanced
<1> HIDE DEF x, y, fs
<1> QED BY <1>2, <1>3, <1>4, <1>5, <1>6, <1>7, <1>11, Give

LEMMA LeaveParentCore ==
    ASSUME Core, NEW t \in Thread, LeaveParent(t)
    PROVE  Core'
<1> DEFINE d == Me(t).dev
           x == parent[d]
           g == [Me(t) EXCEPT !.pc = AfterUnlink(d)]
           fs == <<g>> \o Rest(t)
           y == NoBlock
<1>1. At(t, "orphan") /\ TypeOK
  BY DEF LeaveParent, Core
<1>2. /\ stack[t] # <<>> /\ Me(t) \in FrameType /\ FrameOK(Me(t)) /\ Me(t).pc = "orphan"
      /\ Sound(Rest(t)) /\ 1 \in DOMAIN stack[t] /\ stack[t][1] = Me(t)
      /\ \A b : Held(stack[t], b) = One(Holds(Me(t), b)) + Held(Rest(t), b)
      /\ \A b : Held(Rest(t), b) \in Nat
  BY <1>1, MyFrame
<1>3. Resume(t, Destroying(x) \o fs) /\ Count({}, {x}) /\ parent' = [parent EXCEPT ![d] = NoBlock]
      /\ UNCHANGED <<list, alive, name, handle, unseen, callVars>>
  BY DEF LeaveParent, DeviceStateDecRef, Goto
<1>4. Count({y}, {x}) /\ y \in Listed \cup {NoBlock}
  BY <1>1, <1>3, CountMinus
<1>5. d \in Block /\ x \in Pointer
  BY <1>1, <1>2 DEF FrameOK, TypeOK
<1>6. BoundsOK' /\ parent' \in [Block -> Pointer] /\ UNCHANGED <<list, alive, name>>
  BY <1>1, <1>3, SameBounds DEF TypeOK, Pointer
<1>7. ~ At(t, "destroy")
  BY <1>1 DEF At
<1>8. d \in alive
  <2>1. Holds(stack[t][1], d)
    BY <1>2 DEF Holds
  <2> QED BY <1>2, <1>5, <2>1, Claimed
<1>9. x \in Block => \/ \E c \in alive : parent[c] = x
                     \/ \E i \in DOMAIN stack[t] : Holds(stack[t][i], x)
  BY <1>8
<1>10. x \in Block /\ ref[x] = 1 => x # y
  BY BlockAssumption
<1>11. AfterUnlink(d) \in {"walk", "drop"}
  BY DEF AfterUnlink
<1>12. g \in FrameType /\ g.pc \in {"walk", "drop"} /\ g.dev = d
  BY <1>2, <1>11, SomePcs DEF FrameType
<1> HIDE DEF g
<1>13. FrameOK(g) /\ g.pc \in Below /\ \A b \in Block : Holds(g, b) <=> Holds(Me(t), b)
  BY <1>2, <1>5, <1>12 DEF FrameOK, Below, Holds
<1>14. Sound(fs) /\ \A b : Held(fs, b) = One(Holds(g, b)) + Held(Rest(t), b)
  BY <1>2, <1>12, <1>13, PushSound, HeldPushed DEF Sound
<1>15. ASSUME NEW b \in Block
       PROVE  Kids(b)' + One(b = x) = Kids(b) /\ Kids(b) \in Nat /\ Kids(b)' \in Nat
  <2>1. Kids(b) \in Nat /\ IsFiniteSet(Children(b))
    BY <1>1, KidsFinite
  <2>2. \A c \in alive : parent'[c] = IF c = d THEN NoBlock ELSE parent[c]
    BY <1>1, <1>3, <1>5 DEF TypeOK
  <2>3. CASE b = x
    <3>1. Children(b)' = Children(b) \ {d} /\ d \in Children(b)
      BY <1>3, <1>8, <2>2, <2>3, BlockAssumption DEF Children
    <3>2. Cardinality(Children(b) \ {d}) = Cardinality(Children(b)) - 1
      BY <2>1, <3>1, FS_RemoveElement
    <3>3. IsFiniteSet(Children(b)') /\ Cardinality(Children(b)') \in Nat
      BY <2>1, <3>1, FS_Subset, FS_CardinalityType
    <3>4. Kids(b)' = Kids(b) - 1 /\ Kids(b)' \in Nat
      BY <3>1, <3>2, <3>3 DEF Kids
    <3> QED BY <2>1, <2>3, <3>4 DEF One
  <2>4. CASE b # x
    <3>1. Children(b)' = Children(b)
      BY <1>3, <2>2, <2>4, BlockAssumption DEF Children
    <3>2. Kids(b)' = Kids(b)
      BY <3>1 DEF Kids
    <3> QED BY <2>1, <2>4, <3>2 DEF One
  <2> QED BY <2>3, <2>4
<1>16. ASSUME NEW b \in Block
       PROVE  Held(fs, b) + Kids(b)' + One(b = x) = Held(stack[t], b) + Kids(b) + One(b = y)
  <2>1. Kids(b)' + One(b = x) = Kids(b) /\ Kids(b) \in Nat /\ Kids(b)' \in Nat
    BY <1>15
  <2>2. Held(fs, b) = Held(stack[t], b)
    BY <1>2, <1>13, <1>14 DEF One
  <2>3. Held(fs, b) \in Nat /\ One(b = y) = 0 /\ One(b = x) \in Nat
    BY <1>2, <1>14, BlockAssumption DEF One
  <2> HIDE DEF x, y, fs
  <2> QED BY <2>1, <2>2, <2>3
<1>17. Gives(t, x, y) /\ Balanced(t, fs, x, y)
  BY <1>9, <1>10, <1>16 DEF Gives, Balanced
<1> HIDE DEF x, y, fs
<1> QED BY <1>3, <1>4, <1>5, <1>6, <1>7, <1>14, <1>17, Give

LEMMA NextDeviceCore ==
    ASSUME Core, NEW t \in Reader, NextDevice(t)
    PROVE  Core'
<1> DEFINE x == Me(t).dev
           y == NextAfter(x, Me(t).class)
           g == IF y = NoBlock
                  THEN [Me(t) EXCEPT !.pc = "class", !.class = @ + 1, !.dev = NoBlock,
                                     !.parent = NoBlock]
                  ELSE [Me(t) EXCEPT !.pc = "update", !.dev = y, !.parent = NoBlock]
           fs == <<g>> \o Rest(t)
<1>1. At(t, "driver") /\ TypeOK /\ ListsOK /\ t \in Thread
  BY DEF NextDevice, Core, Thread
<1>2. /\ stack[t] # <<>> /\ Me(t) \in FrameType /\ FrameOK(Me(t)) /\ Me(t).pc = "driver"
      /\ Sound(Rest(t)) /\ 1 \in DOMAIN stack[t] /\ stack[t][1] = Me(t)
      /\ \A b : Held(stack[t], b) = One(Holds(Me(t), b)) + Held(Rest(t), b)
      /\ \A b : Held(Rest(t), b) \in Nat
  BY <1>1, MyFrame
<1>3. Resume(t, Destroying(x) \o fs) /\ Count({y}, {x})
      /\ unseen' = [unseen EXCEPT ![t] = @ \ {x}]
      /\ UNCHANGED <<list, alive, name, parent, handle, callVars>>
  <2>1. (IF y = NoBlock
           THEN <<[Me(t) EXCEPT !.pc = "class", !.class = @ + 1, !.dev = NoBlock,
                                !.parent = NoBlock]>> \o Rest(t)
           ELSE <<[Me(t) EXCEPT !.pc = "update", !.dev = y, !.parent = NoBlock]>>
                \o Rest(t)) = fs
    OBVIOUS
  <2> QED BY <2>1 DEF NextDevice
<1>4. x \in Block /\ Me(t).class \in DOMAIN Class /\ Class[Me(t).class] \in Classes /\ x \in Pointer
  BY <1>2, ClassType DEF FrameOK, Pointer
<1>5. y \in Listed \cup {NoBlock} /\ y \in Pointer
  BY <1>1, <1>4, NextListed, FirstListed, ListedBlocks DEF NextAfter, Members, Pointer
<1>6. BoundsOK' /\ parent' \in [Block -> Pointer] /\ UNCHANGED <<list, alive, name>>
  BY <1>1, <1>3 DEF TypeOK, BoundsOK, callVars
<1>7. ~ At(t, "destroy")
  BY <1>1 DEF At
<1>8. Holds(stack[t][1], x)
  BY <1>2 DEF Holds
<1>9. x \in Block => \/ \E c \in alive : parent[c] = x
                     \/ \E i \in DOMAIN stack[t] : Holds(stack[t][i], x)
  BY <1>2, <1>8
<1>10. x \in Block /\ ref[x] = 1 => x # y
  <2> SUFFICES ASSUME x = y, ref[x] = 1 PROVE FALSE
    OBVIOUS
  <2>1. x \in Listed
    BY <1>4, <1>5, BlockAssumption
  <2>2. ref[x] > 1
    BY <1>1, <1>2, <1>4, <1>8, <2>1, ListedAndHeld
  <2> QED BY <2>2
<1> HIDE DEF y
<1>11. g \in FrameType /\ g.dev = y /\ g.pc \in {"class", "update"} /\ FrameOK(g)
  <2>1. Me(t).class + 1 \in Nat /\ Me(t).class + 1 > 0
    BY <1>2 DEF FrameType
  <2>2. CASE y = NoBlock
    <3> DEFINE h == [Me(t) EXCEPT !.pc = "class", !.class = @ + 1, !.dev = NoBlock,
                                  !.parent = NoBlock]
    <3>1. h \in FrameType /\ h.pc = "class" /\ h.dev = NoBlock /\ h.class = Me(t).class + 1
      BY <1>2, <2>1 DEF FrameType, Pointer, Pc
    <3>2. g = h
      BY <2>2
    <3> HIDE DEF g, h
    <3> QED BY <2>1, <2>2, <3>1, <3>2 DEF FrameOK
  <2>3. CASE y # NoBlock
    <3> DEFINE h == [Me(t) EXCEPT !.pc = "update", !.dev = y, !.parent = NoBlock]
    <3>1. h \in FrameType /\ h.pc = "update" /\ h.dev = y /\ h.class = Me(t).class
      BY <1>2, <1>5 DEF FrameType, Pointer, Pc
    <3>2. g = h
      BY <2>3
    <3> HIDE DEF g, h
    <3> QED BY <1>4, <1>5, <2>3, <3>1, <3>2 DEF FrameOK, Pointer
  <2> QED BY <2>2, <2>3
<1> HIDE DEF g
<1>12. g.pc \in Below /\ \A b \in Block : Holds(g, b) <=> b = y
  BY <1>11 DEF Below, Holds
<1>13. Sound(fs) /\ \A b : Held(fs, b) = One(Holds(g, b)) + Held(Rest(t), b)
  BY <1>2, <1>11, <1>12, PushSound, HeldPushed DEF Sound
<1>14. ASSUME NEW b \in Block
       PROVE  Held(fs, b) + Kids(b)' + One(b = x) = Held(stack[t], b) + Kids(b) + One(b = y)
  <2>1. Kids(b)' = Kids(b) /\ Kids(b) \in Nat
    BY <1>1, <1>3, KidsSame, KidsFinite
  <2>2. /\ Held(stack[t], b) = One(Holds(Me(t), b)) + Held(Rest(t), b) /\ Held(Rest(t), b) \in Nat
        /\ Held(fs, b) = One(Holds(g, b)) + Held(Rest(t), b)
    BY <1>2, <1>13
  <2>3. /\ One(Holds(Me(t), b)) = One(b = x) /\ One(Holds(g, b)) = One(b = y)
        /\ One(b = x) \in Nat /\ One(b = y) \in Nat
    BY <1>2, <1>12 DEF One, Holds
  <2> HIDE DEF x, y, fs
  <2> QED BY <2>1, <2>2, <2>3
<1>15. Gives(t, x, y) /\ Balanced(t, fs, x, y)
  BY <1>9, <1>10, <1>14 DEF Gives, Balanced
<1> HIDE DEF x, fs
<1> QED BY <1>1, <1>3, <1>4, <1>5, <1>6, <1>7, <1>13, <1>15, Give

-----------------------------------------------------------------------------
(***************************************************************************)
(* A device comes on its list, or leaves it.                               *)
(***************************************************************************)
LEMMA ListedNext ==
    ASSUME NEW b
    PROVE  b \in Listed' <=> \E c \in Classes : \E i \in DOMAIN list'[c] : list'[c][i] = b
BY DEF Listed, ToSet

LEMMA OneReplaced ==
    ASSUME NEW A, NEW B, NEW f \in [A -> B], NEW a \in A, NEW v \in B
    PROVE  /\ [f EXCEPT ![a] = v] \in [A -> B] /\ [f EXCEPT ![a] = v][a] = v
           /\ \A d \in A \ {a} : [f EXCEPT ![a] = v][d] = f[d]
OBVIOUS

LEMMA ListLonger ==
    ASSUME TypeOK, ListsOK, NEW b \in Block, b \notin Listed, UNCHANGED name,
           list' = [list EXCEPT ![ClassOf[name[b]]] = <<b>> \o @]
    PROVE  list' \in [Classes -> Seq(Block)] /\ ListsOK' /\ Listed' = Listed \cup {b}
<1> DEFINE c == ClassOf[name[b]]
           s == list[c]
           r == <<b>> \o s
<1>1. list \in [Classes -> Seq(Block)] /\ c \in Classes
  BY NameType DEF TypeOK
<1>2. s \in Seq(Block) /\ DOMAIN s = 1 .. Len(s) /\ Len(s) \in Nat
  BY <1>1, ListType
<1>3. /\ r \in Seq(Block) /\ Len(r) = Len(s) + 1 /\ r[1] = b
      /\ \A i \in 2 .. Len(s) + 1 : r[i] = s[i - 1]
      /\ \A i \in 1 .. Len(s) : r[i + 1] = s[i]
  BY <1>2, PushedAt
<1>4. DOMAIN r = 1 .. Len(s) + 1
  BY <1>3, LenProperties
<1>5. list' = [list EXCEPT ![c] = r]
  OBVIOUS
<1> HIDE DEF r
<1> HIDE DEF c
<1>6. list' \in [Classes -> Seq(Block)] /\ list'[c] = r /\ \A d \in Classes \ {c} : list'[d] = list[d]
  <2>1. r \in Seq(Block)
    BY <1>3
  <2> DEFINE B == Seq(Block)
  <2>2. list \in [Classes -> B] /\ r \in B
    BY <1>1, <2>1
  <2> HIDE DEF B
  <2>3. [list EXCEPT ![c] = r] \in [Classes -> B] /\ [list EXCEPT ![c] = r][c] = r
        /\ \A d \in Classes \ {c} : [list EXCEPT ![c] = r][d] = list[d]
    BY <1>1, <2>2, OneReplaced
  <2> QED BY <1>5, <2>3 DEF B
<1>7. \A i \in DOMAIN s : s[i] # b
  BY <1>1, ListedIs
<1>8. \A i \in DOMAIN r : i = 1 \/ (i - 1 \in DOMAIN s /\ r[i] = s[i - 1])
  BY <1>2, <1>3, <1>4
<1>9. ASSUME NEW d \in Classes, NEW i \in DOMAIN list'[d] PROVE ClassOf[name'[list'[d][i]]] = d
  <2>1. CASE d # c
    BY <1>6, <2>1 DEF ListsOK
  <2>2. CASE d = c /\ i = 1
    BY <1>3, <1>6, <2>2 DEF c
  <2>3. CASE d = c /\ i # 1
    <3>1. i - 1 \in DOMAIN s /\ list'[d][i] = s[i - 1]
      BY <1>6, <1>8, <2>3
    <3> QED BY <1>1, <2>3, <3>1 DEF ListsOK
  <2> QED BY <2>1, <2>2, <2>3
<1>10. ASSUME NEW d \in Classes, NEW i \in DOMAIN list'[d], NEW j \in DOMAIN list'[d],
              list'[d][i] = list'[d][j]
       PROVE  i = j
  <2>1. CASE d # c
    BY <1>6, <1>10, <2>1 DEF ListsOK
  <2>2. CASE d = c
    <3>1. i \in DOMAIN r /\ j \in DOMAIN r /\ r[i] = r[j]
      BY <1>6, <1>10, <2>2
    <3>2. CASE i = 1 \/ j = 1
      BY <1>3, <1>7, <1>8, <3>1, <3>2
    <3>3. CASE i # 1 /\ j # 1
      <4>1. i - 1 \in DOMAIN s /\ j - 1 \in DOMAIN s /\ s[i - 1] = s[j - 1]
        BY <1>8, <3>1, <3>3
      <4>2. i - 1 = j - 1
        BY <1>1, <4>1 DEF ListsOK
      <4> QED BY <1>2, <1>4, <3>1, <4>2
    <3> QED BY <3>2, <3>3
  <2> QED BY <2>1, <2>2
<1>11. ASSUME NEW x PROVE x \in Listed' <=> x \in Listed \/ x = b
  <2>1. ASSUME x \in Listed' PROVE x \in Listed \/ x = b
    <3>1. PICK d \in Classes : \E i \in DOMAIN list'[d] : list'[d][i] = x
      BY <2>1, ListedNext
    <3>2. PICK i \in DOMAIN list'[d] : list'[d][i] = x
      BY <3>1
    <3>3. CASE d # c
      BY <1>6, <3>2, <3>3, ListedIs
    <3>4. CASE d = c
      BY <1>1, <1>3, <1>6, <1>8, <3>2, <3>4, ListedIs
    <3> QED BY <3>3, <3>4
  <2>2. ASSUME x \in Listed PROVE x \in Listed'
    <3>1. PICK d \in Classes : \E i \in DOMAIN list[d] : list[d][i] = x
      BY <2>2, ListedIs
    <3>2. PICK i \in DOMAIN list[d] : list[d][i] = x
      BY <3>1
    <3>3. CASE d # c
      BY <1>6, <3>2, <3>3, ListedNext
    <3>4. CASE d = c
      <4>1. i \in 1 .. Len(s) /\ s[i] = x
        BY <1>2, <3>2, <3>4
      <4>2. i + 1 \in DOMAIN r /\ r[i + 1] = x
        BY <1>2, <1>3, <1>4, <4>1
      <4> QED BY <1>1, <1>6, <4>2, ListedNext
    <3> QED BY <3>3, <3>4
  <2>3. b \in Listed'
    <3>1. 1 \in DOMAIN r
      BY <1>2, <1>4
    <3> QED BY <1>1, <1>3, <1>6, <3>1, ListedNext
  <2> QED BY <2>1, <2>2, <2>3
<1>12. ListsOK'
  BY <1>9, <1>10 DEF ListsOK
<1> QED BY <1>6, <1>11, <1>12

LEMMA ListShorter ==
    ASSUME TypeOK, ListsOK, NEW b \in Listed, UNCHANGED name,
           list' = [list EXCEPT ![ClassOf[name[b]]] = RemoveAt(@, PlaceOf(b, @))]
    PROVE  list' \in [Classes -> Seq(Block)] /\ ListsOK' /\ Listed' = Listed \ {b}
<1> DEFINE c == ClassOf[name[b]]
           s == list[c]
           p == PlaceOf(b, s)
           r == RemoveAt(s, p)
           from(i) == IF i < p THEN i ELSE i + 1
<1>1. /\ list \in [Classes -> Seq(Block)] /\ c \in Classes
      /\ p \in DOMAIN s /\ s[p] = b /\ \A i \in DOMAIN s : s[i] = b => i = p
  BY PlaceOnList DEF TypeOK
<1>2. s \in Seq(Block) /\ DOMAIN s = 1 .. Len(s) /\ Len(s) \in Nat
  BY <1>1, ListType
<1> HIDE DEF p
<1>3. /\ r \in Seq(Block) /\ Len(r) = Len(s) - 1
      /\ \A i \in 1 .. Len(s) - 1 : r[i] = IF i < p THEN s[i] ELSE s[i + 1]
  BY <1>1, <1>2, TakenOut
<1>4. DOMAIN r = 1 .. Len(s) - 1
  BY <1>3, LenProperties
<1>5. list' = [list EXCEPT ![c] = r]
  BY DEF p
<1> HIDE DEF r
<1>6. list' \in [Classes -> Seq(Block)] /\ list'[c] = r /\ \A d \in Classes \ {c} : list'[d] = list[d]
  BY <1>1, <1>3, <1>5
<1>7. p \in 1 .. Len(s)
  BY <1>1, <1>2
<1>8. \A i \in DOMAIN r : from(i) \in DOMAIN s /\ from(i) # p /\ r[i] = s[from(i)]
  BY <1>2, <1>3, <1>4, <1>7
<1>9. \A i, j \in DOMAIN r : from(i) = from(j) => i = j
  BY <1>2, <1>4, <1>7
<1>10. \A j \in DOMAIN s : j # p => \E i \in DOMAIN r : from(i) = j
  <2> SUFFICES ASSUME NEW j \in DOMAIN s, j # p PROVE \E i \in DOMAIN r : from(i) = j
    OBVIOUS
  <2>1. CASE j < p
    <3>1. j \in DOMAIN r /\ from(j) = j
      BY <1>2, <1>4, <1>7, <2>1
    <3> QED BY <3>1
  <2>2. CASE j > p
    <3>1. j - 1 \in DOMAIN r /\ from(j - 1) = j
      BY <1>2, <1>4, <1>7, <2>2
    <3> QED BY <3>1
  <2> QED BY <1>2, <1>7, <2>1, <2>2
<1> HIDE DEF from
<1>11. ASSUME NEW d \in Classes, NEW i \in DOMAIN list'[d] PROVE ClassOf[name'[list'[d][i]]] = d
  <2>1. CASE d # c
    BY <1>6, <2>1 DEF ListsOK
  <2>2. CASE d = c
    BY <1>1, <1>6, <1>8, <2>2 DEF ListsOK
  <2> QED BY <2>1, <2>2
<1>12. ASSUME NEW d \in Classes, NEW i \in DOMAIN list'[d], NEW j \in DOMAIN list'[d],
              list'[d][i] = list'[d][j]
       PROVE  i = j
  <2>1. CASE d # c
    BY <1>6, <1>12, <2>1 DEF ListsOK
  <2>2. CASE d = c
    <3>1. i \in DOMAIN r /\ j \in DOMAIN r /\ r[i] = r[j]
      BY <1>6, <1>12, <2>2
    <3>2. from(i) = from(j)
      BY <1>1, <1>8, <3>1 DEF ListsOK
    <3> QED BY <1>9, <3>1, <3>2
  <2> QED BY <2>1, <2>2
<1>13. ASSUME NEW x PROVE x \in Listed' <=> x \in Listed /\ x # b
  <2>1. ASSUME x \in Listed' PROVE x \in Listed /\ x # b
    <3>1. PICK d \in Classes : \E i \in DOMAIN list'[d] : list'[d][i] = x
      BY <2>1, ListedNext
    <3>2. PICK i \in DOMAIN list'[d] : list'[d][i] = x
      BY <3>1
    <3>3. CASE d # c
      <4>1. list[d][i] = x /\ i \in DOMAIN list[d] /\ ClassOf[name[x]] = d
        BY <1>6, <3>2, <3>3 DEF ListsOK
      <4> QED BY <3>3, <4>1, ListedIs
    <3>4. CASE d = c
      <4>1. from(i) \in DOMAIN s /\ from(i) # p /\ s[from(i)] = x
        BY <1>6, <1>8, <3>2, <3>4
      <4> QED BY <1>1, <4>1, ListedIs
    <3> QED BY <3>3, <3>4
  <2>2. ASSUME x \in Listed, x # b PROVE x \in Listed'
    <3>1. PICK d \in Classes : \E i \in DOMAIN list[d] : list[d][i] = x
      BY <2>2, ListedIs
    <3>2. PICK j \in DOMAIN list[d] : list[d][j] = x
      BY <3>1
    <3>3. CASE d # c
      BY <1>6, <3>2, <3>3, ListedNext
    <3>4. CASE d = c
      <4>1. j \in DOMAIN s /\ j # p
        BY <1>1, <2>2, <3>2, <3>4
      <4>2. PICK i \in DOMAIN r : from(i) = j
        BY <1>10, <4>1
      <4>3. r[i] = x
        BY <1>8, <3>2, <3>4, <4>2
      <4> QED BY <1>1, <1>6, <4>2, <4>3, ListedNext
    <3> QED BY <3>3, <3>4
  <2> QED BY <2>1, <2>2
<1>14. ListsOK'
  BY <1>11, <1>12 DEF ListsOK
<1> QED BY <1>6, <1>13, <1>14

LEMMA DeviceStateAddListCore ==
    ASSUME Core, NEW t \in Thread, DeviceStateAddList(t)
    PROVE  Core'
<1> DEFINE d == Me(t).dev
           g == [Me(t) EXCEPT !.pc = "probe"]
<1>1. At(t, "insert") /\ TypeOK /\ RefsExact /\ ListsOK /\ LifeOK
  BY DEF DeviceStateAddList, Core
<1>2. /\ stack[t] # <<>> /\ Me(t) \in FrameType /\ FrameOK(Me(t)) /\ Me(t).pc = "insert"
      /\ Sound(Rest(t)) /\ 1 \in DOMAIN stack[t] /\ stack[t][1] = Me(t)
      /\ \A b : Held(stack[t], b) = One(Holds(Me(t), b)) + Held(Rest(t), b)
      /\ \A b : Held(Rest(t), b) \in Nat
  BY <1>1, MyFrame
<1>3. /\ list' = [list EXCEPT ![ClassOf[name[d]]] = <<d>> \o @] /\ Count({d}, {})
      /\ Resume(t, <<g>> \o Rest(t))
      /\ UNCHANGED <<alive, name, parent, handle, unseen, callVars>>
  BY DEF DeviceStateAddList, Goto
<1>4. d \in Block /\ d \notin Listed
  BY <1>1, InsertAlone
<1>5. list' \in [Classes -> Seq(Block)] /\ ListsOK' /\ Listed' = Listed \cup {d}
  BY <1>1, <1>3, <1>4, ListLonger
<1>6. g \in FrameType /\ g.pc = "probe" /\ g.dev = d
  BY <1>2, SomePcs DEF FrameType
<1> HIDE DEF d, g
<1>7. FrameOK(g) /\ TopFree(g) /\ \A b : Holds(g, b) <=> Holds(Me(t), b)
  BY <1>2, <1>4, <1>6 DEF FrameOK, TopFree, Holds, d
<1>8. OthersStay(t) /\ stack'[t] = <<g>> \o Rest(t)
  BY <1>1, <1>3, Resumed
<1>9. /\ stack'[t] \in Seq(FrameType) /\ StackOK(t)'
      /\ \A pc : At(t, pc)' <=> pc = g.pc
      /\ Me(t)' = g
      /\ \A b : Held(stack'[t], b) = One(Holds(g, b)) + Held(Rest(t), b)
  BY <1>2, <1>6, <1>7, <1>8, OneOnTop
<1>10. stack' \in [Thread -> Seq(FrameType)]
  BY <1>1, <1>3, <1>8, <1>9, Resumed
<1>11. ref \in [Block -> Nat] /\ \A b \in Block : ref'[b] = ref[b] + One(b = d)
  BY <1>1, <1>3 DEF TypeOK, Count, One
<1>12. ref' \in [Block -> Nat]
  BY <1>3, <1>11 DEF Count, One
<1>13. TypeOK'
  BY <1>1, <1>3, <1>5, <1>10, <1>12 DEF TypeOK, callVars
<1>14. RefsExact'
  <2>1. ASSUME NEW b \in Block
        PROVE  ref'[b] + Held(stack[t], b) + Kids(b) + OnList(b)
                 = ref[b] + Held(stack'[t], b) + Kids(b)' + OnList(b)'
    <3>1. Kids(b)' = Kids(b) /\ Kids(b) \in Nat
      BY <1>1, <1>3, KidsFinite DEF Kids, Children
    <3>2. OnList(b)' = OnList(b) + One(b = d) /\ OnList(b) \in Nat
      BY <1>4, <1>5 DEF OnList, One
    <3>3. Held(stack'[t], b) = Held(stack[t], b) /\ Held(stack[t], b) \in Nat
      BY <1>2, <1>7, <1>9 DEF One
    <3>4. ref'[b] = ref[b] + One(b = d) /\ ref[b] \in Nat /\ One(b = d) \in Nat
      BY <1>11 DEF One
    <3> QED BY <3>1, <3>2, <3>3, <3>4
  <2> QED BY <1>1, <1>8, <1>13, <2>1, RefsKeep
<1>15. LifeOK'
  <2>1. ASSUME NEW b \in Block, ref'[b] # ref[b]
        PROVE  \E i \in DOMAIN stack[t] : Holds(stack[t][i], b)
    <3>1. b = d
      BY <1>11, <2>1 DEF One
    <3>2. Holds(stack[t][1], d)
      BY <1>2 DEF Holds, d
    <3> QED BY <1>2, <3>1, <3>2
  <2>2. ASSUME NEW b \in Block, ref[b] > 0 PROVE ref'[b] # 0
    BY <1>11, <2>2 DEF One
  <2>3. ~ At(t, "destroy") /\ ~ At(t, "destroy")' /\ ~ At(t, "insert")'
    BY <1>1, <1>6, <1>9 DEF At
  <2> QED BY <1>3, <1>8, <1>13, <2>1, <2>2, <2>3, LifeKeep
<1>16. \A u \in Thread : StackOK(u)'
  BY <1>8, <1>9, OthersAt DEF Core
<1> QED BY <1>5, <1>13, <1>14, <1>15, <1>16 DEF Core

(* Discard and Unlink take a device that they hold off its list. *)
LEMMA TakenOffCore ==
    ASSUME Core, NEW t \in Thread, NEW to \in {"drop", "orphan"},
           At(t, "discard") \/ At(t, "unlink"), DeviceStateRemList(Me(t).dev),
           Resume(t, Goto(t, to)), UNCHANGED <<alive, name, parent, handle, callVars>>
    PROVE  Core'
<1> DEFINE d == Me(t).dev
           g == [Me(t) EXCEPT !.pc = to]
<1>1. TypeOK /\ RefsExact /\ ListsOK /\ LifeOK
  BY DEF Core
<1>2. /\ stack[t] # <<>> /\ Me(t) \in FrameType /\ FrameOK(Me(t)) /\ Me(t).pc \in {"discard", "unlink"}
      /\ Sound(Rest(t)) /\ 1 \in DOMAIN stack[t] /\ stack[t][1] = Me(t)
      /\ \A b : Held(stack[t], b) = One(Holds(Me(t), b)) + Held(Rest(t), b)
      /\ \A b : Held(Rest(t), b) \in Nat
  BY MyFrame
<1>3. /\ d \in Listed /\ list' = [list EXCEPT ![ClassOf[name[d]]] = RemoveAt(@, PlaceOf(d, @))]
      /\ unseen' = [w \in Reader |-> unseen[w] \ {d}] /\ Count({}, {d})
      /\ Resume(t, <<g>> \o Rest(t))
  BY DEF DeviceStateRemList, Goto
<1>4. d \in Block
  BY <1>2 DEF FrameOK
<1>5. list' \in [Classes -> Seq(Block)] /\ ListsOK' /\ Listed' = Listed \ {d}
  BY <1>1, <1>3, ListShorter
<1>6. g \in FrameType /\ g.pc = to /\ g.dev = d
  BY <1>2, SomePcs DEF FrameType
<1> HIDE DEF d, g
<1>7. FrameOK(g) /\ TopFree(g) /\ \A b : Holds(g, b) <=> Holds(Me(t), b)
  BY <1>2, <1>4, <1>6 DEF FrameOK, TopFree, Holds, d
<1>8. OthersStay(t) /\ stack'[t] = <<g>> \o Rest(t)
  BY <1>1, <1>3, Resumed
<1>9. /\ stack'[t] \in Seq(FrameType) /\ StackOK(t)'
      /\ \A pc : At(t, pc)' <=> pc = g.pc
      /\ Me(t)' = g
      /\ \A b : Held(stack'[t], b) = One(Holds(g, b)) + Held(Rest(t), b)
  <2>1. Sound(Rest(t)) /\ g \in FrameType /\ FrameOK(g) /\ TopFree(g)
        /\ stack'[t] = <<g>> \o Rest(t)
    BY <1>2, <1>6, <1>7, <1>8
  <2> QED BY <2>1, OneOnTop
<1>10. stack' \in [Thread -> Seq(FrameType)]
  BY <1>1, <1>3, <1>8, <1>9, Resumed
<1>11. Holds(stack[t][1], d)
  BY <1>2 DEF Holds, d
<1>12. ref[d] > 1
  BY <1>2, <1>3, <1>4, <1>11, ListedAndHeld
<1>13. ref \in [Block -> Nat] /\ \A b \in Block : ref'[b] = ref[b] - One(b = d)
  BY <1>1, <1>3 DEF TypeOK, Count, One
<1>14. ref' \in [Block -> Nat]
  <2>1. \A b \in Block : ref'[b] \in Nat
    BY <1>12, <1>13 DEF One
  <2> QED BY <1>3, <2>1 DEF Count
<1>15. TypeOK'
  <2>1. unseen' \in [Reader -> SUBSET Block]
    BY <1>1, <1>3 DEF TypeOK
  <2> QED BY <1>1, <1>5, <1>10, <1>14, <2>1 DEF TypeOK, callVars
<1>16. RefsExact'
  <2>1. ASSUME NEW b \in Block
        PROVE  ref'[b] + Held(stack[t], b) + Kids(b) + OnList(b)
                 = ref[b] + Held(stack'[t], b) + Kids(b)' + OnList(b)'
    <3>1. Kids(b)' = Kids(b) /\ Kids(b) \in Nat
      BY <1>1, KidsFinite DEF Kids, Children
    <3>2. OnList(b)' + One(b = d) = OnList(b) /\ OnList(b) \in Nat /\ OnList(b)' \in Nat
      BY <1>3, <1>5 DEF OnList, One
    <3>3. Held(stack'[t], b) = Held(stack[t], b) /\ Held(stack[t], b) \in Nat
      BY <1>2, <1>7, <1>9 DEF One
    <3>4. ref'[b] = ref[b] - One(b = d) /\ ref[b] \in Nat /\ One(b = d) \in Nat
      BY <1>13 DEF One
    <3> QED BY <3>1, <3>2, <3>3, <3>4
  <2> QED BY <1>1, <1>8, <1>15, <2>1, RefsKeep
<1>17. LifeOK'
  <2>1. ASSUME NEW b \in Block, ref'[b] # ref[b]
        PROVE  \E i \in DOMAIN stack[t] : Holds(stack[t][i], b)
    <3>1. b = d
      BY <1>13, <2>1 DEF One
    <3> QED BY <1>2, <1>11, <3>1
  <2>2. ASSUME NEW b \in Block, ref[b] > 0 PROVE ref'[b] # 0
    BY <1>12, <1>13, <2>2 DEF One
  <2>3. ~ At(t, "destroy") /\ ~ At(t, "destroy")' /\ ~ At(t, "insert")'
    BY <1>2, <1>6, <1>9 DEF At, Me
  <2> QED BY <1>8, <1>15, <2>1, <2>2, <2>3, LifeKeep
<1>18. \A u \in Thread : StackOK(u)'
  BY <1>8, <1>9, OthersAt DEF Core
<1> QED BY <1>5, <1>15, <1>16, <1>17, <1>18 DEF Core

LEMMA DiscardCore == ASSUME Core, NEW t \in Thread, Discard(t) PROVE Core'
BY TakenOffCore DEF Discard

LEMMA UnlinkCore == ASSUME Core, NEW t \in Thread, Unlink(t) PROVE Core'
BY TakenOffCore DEF Unlink

-----------------------------------------------------------------------------
(* A block is freed; its parent loses a reference. *)
LEMMA DeviceStateDestroyCore ==
    ASSUME Core, NEW t \in Thread, DeviceStateDestroy(t)
    PROVE  Core'
<1> DEFINE d == Me(t).dev
           x == parent[d]
           fs == Rest(t)
<1>1. At(t, "destroy") /\ TypeOK /\ RefsExact /\ ListsOK /\ LifeOK
  BY DEF DeviceStateDestroy, Core
<1>2. /\ stack[t] # <<>> /\ Me(t) \in FrameType /\ Me(t).pc = "destroy" /\ Sound(fs)
      /\ \A b : Held(stack[t], b) = One(Holds(Me(t), b)) + Held(fs, b)
      /\ \A b : Held(fs, b) \in Nat
  BY <1>1, MyFrame
<1>3. /\ alive' = alive \ {d} /\ parent' = [parent EXCEPT ![d] = NoBlock]
      /\ Resume(t, Destroying(x) \o fs) /\ Count({}, {x})
      /\ UNCHANGED <<list, name, handle, unseen, callVars>>
  BY DEF DeviceStateDestroy, DeviceStateDecRef
<1>4. d \in alive /\ d \in Block /\ ref[d] = 0 /\ x \in Pointer
  BY <1>1 DEF LifeOK, TypeOK
<1>5. x # d
  <2> SUFFICES ASSUME x = d PROVE FALSE
    OBVIOUS
  <2>1. ref[d] > 0
    BY <1>4, Claimed
  <2> QED BY <1>4, <2>1
<1>6. x \in Block => ref[x] > 0 /\ x \in alive
  BY <1>4, Claimed
<1> HIDE DEF d, fs
<1>7. stack'[t] = Destroying(x) \o fs /\ OthersStay(t)
  BY <1>1, <1>3, Resumed
<1>8. /\ stack'[t] \in Seq(FrameType) /\ StackOK(t)'
      /\ \A b : Held(stack'[t], b) = Held(fs, b)
      /\ At(t, "destroy")' <=> x \in Block /\ ref[x] = 1
      /\ At(t, "destroy")' => Me(t)'.dev = x /\ Len(stack'[t]) = Len(fs) + 1
      /\ ~ At(t, "destroy")' => stack'[t] = fs
      /\ ~ At(t, "insert")'
  BY <1>1, <1>2, <1>4, <1>7, DestroyingStack
<1>9. stack' \in [Thread -> Seq(FrameType)]
  BY <1>1, <1>3, <1>7, <1>8, Resumed
<1> HIDE DEF x
<1>10. ref \in [Block -> Nat] /\ \A b \in Block : ref'[b] = ref[b] - One(b = x)
  BY <1>1, <1>3 DEF TypeOK, Count, One
<1>11. ref' \in [Block -> Nat]
  <2>1. \A b \in Block : ref'[b] \in Nat
    BY <1>6, <1>10 DEF One
  <2> QED BY <1>3, <2>1 DEF Count
<1>12. parent' \in [Block -> Pointer] /\ alive' \in SUBSET Block
  BY <1>1, <1>3 DEF TypeOK, Pointer
<1>13. TypeOK'
  BY <1>1, <1>3, <1>9, <1>11, <1>12 DEF TypeOK, callVars
<1>14. ASSUME NEW b \in Block
       PROVE  Kids(b)' + One(b = x) = Kids(b) /\ Kids(b) \in Nat /\ Kids(b)' \in Nat
  <2>1. Kids(b) \in Nat /\ IsFiniteSet(Children(b))
    BY <1>1, KidsFinite
  <2>2. \A c \in alive \ {d} : parent'[c] = parent[c]
    BY <1>1, <1>3 DEF TypeOK
  <2>3. Children(b)' = Children(b) \ {d}
    BY <1>3, <2>2 DEF Children
  <2>4. d \in Children(b) <=> b = x
    BY <1>4 DEF Children, x
  <2>5. CASE b = x
    <3>1. Cardinality(Children(b) \ {d}) = Cardinality(Children(b)) - 1
      BY <2>1, <2>4, <2>5, FS_RemoveElement
    <3>2. Kids(b)' = Kids(b) - 1
      BY <2>3, <3>1 DEF Kids
    <3>3. Kids(b)' \in Nat
      <4>1. IsFiniteSet(Children(b)') /\ Cardinality(Children(b)') \in Nat
        BY <2>1, <2>3, FS_Subset, FS_CardinalityType
      <4> QED BY <4>1 DEF Kids
    <3> QED BY <2>1, <2>5, <3>2, <3>3 DEF One
  <2>6. CASE b # x
    <3>1. Children(b)' = Children(b)
      BY <2>3, <2>4, <2>6
    <3>2. Kids(b)' = Kids(b)
      BY <3>1 DEF Kids
    <3> QED BY <2>1, <2>6, <3>2 DEF One
  <2> QED BY <2>5, <2>6
<1>15. RefsExact'
  <2>1. ASSUME NEW b \in Block
        PROVE  ref'[b] + Held(stack[t], b) + Kids(b) + OnList(b)
                 = ref[b] + Held(stack'[t], b) + Kids(b)' + OnList(b)'
    <3>1. Kids(b)' + One(b = x) = Kids(b) /\ Kids(b) \in Nat /\ Kids(b)' \in Nat
      BY <1>14
    <3>2. OnList(b)' = OnList(b) /\ OnList(b) \in Nat
      BY <1>3 DEF OnList, Listed
    <3>3. Held(stack'[t], b) = Held(stack[t], b) /\ Held(stack[t], b) \in Nat
      <4>1. One(Holds(Me(t), b)) = 0
        BY <1>2 DEF One, Holds
      <4>2. Held(stack[t], b) = One(Holds(Me(t), b)) + Held(fs, b) /\ Held(fs, b) \in Nat
        BY <1>2
      <4>3. Held(stack'[t], b) = Held(fs, b)
        BY <1>8
      <4> QED BY <4>1, <4>2, <4>3
    <3>4. ref'[b] = ref[b] - One(b = x) /\ ref[b] \in Nat /\ One(b = x) \in Nat
      BY <1>10 DEF One
    <3> QED BY <3>1, <3>2, <3>3, <3>4
  <2> QED BY <1>1, <1>7, <1>13, <2>1, RefsKeep
<1>16. ListsOK'
  BY <1>1, <1>3, ListsKeep
<1>17. \A u \in Thread \ {t} : Me(u)' = Me(u) /\ \A pc : At(u, pc)' <=> At(u, pc)
  BY <1>7, OthersAt
<1>18. \A b \in Block : b # x => ref'[b] = ref[b]
  BY <1>10 DEF One
<1>19. x \in Block => ref'[x] = ref[x] - 1
  BY <1>10 DEF One
<1>20. LifeOK'
  <2>1. ASSUME NEW b \in Block, ref'[b] > 0 PROVE b \in alive'
    <3>1. ref[b] > 0
      BY <1>6, <1>10, <1>18, <2>1
    <3>2. b \in alive /\ b # d
      BY <1>1, <1>4, <3>1 DEF LifeOK
    <3> QED BY <1>3, <3>2
  <2>2. ASSUME NEW b \in alive', ref'[b] = 0
        PROVE  \E u \in Thread : At(u, "destroy")' /\ Me(u)'.dev = b
    <3>1. b \in alive /\ b # d /\ b \in Block
      BY <1>1, <1>3 DEF TypeOK
    <3>2. CASE b = x
      <4>1. ref[x] = 1
        BY <1>10, <1>19, <2>2, <3>1, <3>2
      <4> QED BY <1>8, <3>1, <3>2, <4>1
    <3>3. CASE b # x
      <4>1. ref[b] = 0
        BY <1>18, <2>2, <3>1, <3>3
      <4>2. PICK u \in Thread : At(u, "destroy") /\ Me(u).dev = b
        BY <1>1, <3>1, <4>1 DEF LifeOK
      <4>3. u # t
        BY <3>1, <4>2 DEF d
      <4> QED BY <1>17, <4>2, <4>3
    <3> QED BY <3>2, <3>3
  <2>3. ASSUME NEW u \in Thread, At(u, "destroy")'
        PROVE  Me(u)'.dev \in alive' /\ ref'[Me(u)'.dev] = 0
    <3>1. CASE u = t
      BY <1>3, <1>5, <1>6, <1>8, <1>19, <2>3, <3>1
    <3>2. CASE u # t
      <4>1. At(u, "destroy") /\ Me(u)'.dev = Me(u).dev
        BY <1>17, <2>3, <3>2
      <4>2. Me(u).dev \in alive /\ Me(u).dev \in Block /\ ref[Me(u).dev] = 0 /\ Me(u).dev # d
        BY <1>1, <3>2, <4>1 DEF LifeOK, TypeOK, d
      <4>3. ref'[Me(u).dev] = 0
        BY <1>6, <1>18, <4>2
      <4> QED BY <1>3, <4>1, <4>2, <4>3
    <3> QED BY <3>1, <3>2
  <2>4. ASSUME NEW u \in Thread, NEW v \in Thread, At(u, "destroy")', At(v, "destroy")',
               Me(u)'.dev = Me(v)'.dev
        PROVE  u = v
    <3>1. ASSUME NEW w \in Thread \ {t}, At(w, "destroy")' PROVE ref[Me(w)'.dev] = 0
      BY <1>1, <1>17, <3>1 DEF LifeOK
    <3>2. At(t, "destroy")' => ref[Me(t)'.dev] = 1
      BY <1>8
    <3>3. CASE u = t \/ v = t
      BY <2>4, <3>1, <3>2, <3>3
    <3>4. CASE u # t /\ v # t
      BY <1>1, <1>17, <2>4, <3>4 DEF LifeOK
    <3> QED BY <3>3, <3>4
  <2>5. ASSUME NEW u \in Thread, At(u, "insert")' PROVE ref'[Me(u)'.dev] = 1
    <3>1. u # t
      BY <1>8, <2>5
    <3>2. At(u, "insert") /\ Me(u)' = Me(u)
      BY <1>17, <2>5, <3>1
    <3>3. Me(u).dev \in Block /\ Me(u).dev # x /\ ref[Me(u).dev] = 1
      BY <1>1, <1>4, <3>2, InsertAlone DEF x, LifeOK
    <3> QED BY <1>18, <3>2, <3>3
  <2> QED BY <2>1, <2>2, <2>3, <2>4, <2>5 DEF LifeOK
<1>21. \A u \in Thread : StackOK(u)'
  BY <1>7, <1>8, OthersAt DEF Core
<1> QED BY <1>13, <1>15, <1>16, <1>20, <1>21 DEF Core

-----------------------------------------------------------------------------
(* A block is allocated; a parent that the frame below holds gains a child. *)
LEMMA AllocatedCore ==
    ASSUME Core, NEW t \in Thread, At(t, "add"), NEW d \in Block \ alive,
           alive' = alive \cup {d}, name' = [name EXCEPT ![d] = Me(t).name],
           parent' = [parent EXCEPT ![d] = Me(t).parent],
           Count({d, Me(t).parent}, {}), Resume(t, Using(t, "insert", d)),
           UNCHANGED <<list, handle, unseen, callVars>>
    PROVE  Core'
<1> DEFINE x == Me(t).parent
           g == [Me(t) EXCEPT !.pc = "insert", !.dev = d]
<1>1. TypeOK /\ RefsExact /\ ListsOK /\ LifeOK /\ StackOK(t)
  BY DEF Core
<1>2. /\ stack[t] # <<>> /\ Me(t) \in FrameType /\ FrameOK(Me(t)) /\ Me(t).pc = "add"
      /\ Sound(Rest(t))
      /\ \A b : Held(stack[t], b) = One(Holds(Me(t), b)) + Held(Rest(t), b)
      /\ \A b : Held(Rest(t), b) \in Nat
  BY MyFrame
<1>3. Resume(t, <<g>> \o Rest(t))
  BY DEF Using
<1>4. /\ ref[d] = 0 /\ d \notin Listed /\ \A c \in alive : parent[c] # d
      /\ \A u \in Thread : \A i \in DOMAIN stack[u] : ~ Holds(stack[u][i], d)
  <2>1. ref[d] \in Nat /\ ~ (ref[d] > 0)
    BY <1>1 DEF TypeOK, LifeOK
  <2> QED BY <2>1, Claimed
<1>5. x \in Pointer /\ Me(t).name \in Name
  BY <1>2 DEF FrameType
<1>6. x # NoBlock => 2 \in DOMAIN stack[t] /\ Holds(stack[t][2], x)
  <2> SUFFICES ASSUME x # NoBlock PROVE 2 \in DOMAIN stack[t] /\ Holds(stack[t][2], x)
    OBVIOUS
  <2>1. Len(stack[t]) > 1 /\ stack[t][2].pc = "registered" /\ stack[t][2].parent = x
    BY <1>1 DEF StackOK
  <2>2. DOMAIN stack[t] = 1 .. Len(stack[t]) /\ Len(stack[t]) \in Nat
    BY <1>1, LenProperties DEF TypeOK
  <2> QED BY <2>1, <2>2 DEF Holds
<1>7. x \in Block => x # d /\ ref[x] > 0 /\ x \in alive
  <2> SUFFICES ASSUME x \in Block PROVE x # d /\ ref[x] > 0 /\ x \in alive
    OBVIOUS
  <2>1. 2 \in DOMAIN stack[t] /\ Holds(stack[t][2], x)
    BY <1>6, BlockAssumption
  <2>2. ref[x] > 0 /\ x \in alive
    BY <2>1, Claimed
  <2> QED BY <2>2
<1>8. x # d
  BY <1>5, <1>7, BlockAssumption DEF Pointer
<1>9. g \in FrameType /\ g.pc = "insert" /\ g.dev = d
  BY <1>2, SomePcs DEF FrameType, Pointer
<1> HIDE DEF g
<1>10. FrameOK(g) /\ TopFree(g)
  BY <1>9 DEF FrameOK, TopFree
<1>11. OthersStay(t) /\ stack'[t] = <<g>> \o Rest(t)
  BY <1>1, <1>3, Resumed
<1>12. /\ stack'[t] \in Seq(FrameType) /\ StackOK(t)'
       /\ \A pc : At(t, pc)' <=> pc = g.pc
       /\ Me(t)' = g
       /\ \A b : Held(stack'[t], b) = One(Holds(g, b)) + Held(Rest(t), b)
  <2>1. Sound(Rest(t)) /\ g \in FrameType
    BY <1>2, <1>9
  <2> QED BY <1>10, <1>11, <2>1, OneOnTop
<1>13. stack' \in [Thread -> Seq(FrameType)]
  BY <1>1, <1>3, <1>11, <1>12, Resumed
<1> HIDE DEF x
<1>14. Count({d, x}, {})
  BY DEF x
<1>15. ref \in [Block -> Nat] /\ \A b \in Block : ref'[b] = ref[b] + One(b = d) + One(b = x)
  <2>1. ref \in [Block -> Nat]
    BY <1>1 DEF TypeOK
  <2>2. ASSUME NEW b \in Block PROVE ref'[b] = ref[b] + One(b = d) + One(b = x)
    <3>1. ref'[b] = (ref[b] + (IF b \in {d, x} THEN 1 ELSE 0)) - (IF b \in {} THEN 1 ELSE 0)
      BY <1>14 DEF Count
    <3>2. ref'[b] = ref[b] + (IF b \in {d, x} THEN 1 ELSE 0)
      BY <2>1, <3>1
    <3> QED BY <1>8, <2>1, <3>2 DEF One
  <2> QED BY <2>1, <2>2
<1>16. ref' \in [Block -> Nat]
  <2>1. \A b \in Block : ref'[b] \in Nat
    BY <1>15 DEF One
  <2> QED BY <1>14, <2>1 DEF Count
<1>17. /\ name' \in [Block -> Name] /\ parent' \in [Block -> Pointer] /\ alive' \in SUBSET Block
       /\ parent'[d] = x /\ \A b \in Block : b # d => parent'[b] = parent[b] /\ name'[b] = name[b]
  BY <1>1, <1>5 DEF TypeOK, x
<1>18. TypeOK'
  BY <1>1, <1>13, <1>16, <1>17 DEF TypeOK, callVars
<1>19. ASSUME NEW b \in Block
       PROVE  Kids(b)' = Kids(b) + One(b = x) /\ Kids(b) \in Nat
  <2>1. Kids(b) \in Nat /\ IsFiniteSet(Children(b))
    BY <1>1, KidsFinite
  <2>2. \A c \in alive : parent'[c] = parent[c]
    BY <1>1, <1>17 DEF TypeOK
  <2>3. d \notin Children(b)
    BY DEF Children
  <2>4. CASE b = x
    <3>1. Children(b)' = Children(b) \cup {d}
      BY <1>17, <2>2, <2>4 DEF Children
    <3>2. Cardinality(Children(b) \cup {d}) = Cardinality(Children(b)) + 1
      BY <2>1, <2>3, FS_AddElement
    <3>3. Kids(b)' = Kids(b) + 1
      BY <3>1, <3>2 DEF Kids
    <3> QED BY <2>1, <2>4, <3>3 DEF One
  <2>5. CASE b # x
    <3>1. Children(b)' = Children(b)
      BY <1>17, <2>2, <2>5 DEF Children
    <3>2. Kids(b)' = Kids(b)
      BY <3>1 DEF Kids
    <3> QED BY <2>1, <2>5, <3>2 DEF One
  <2> QED BY <2>4, <2>5
<1>20. RefsExact'
  <2>1. ASSUME NEW b \in Block
        PROVE  ref'[b] + Held(stack[t], b) + Kids(b) + OnList(b)
                 = ref[b] + Held(stack'[t], b) + Kids(b)' + OnList(b)'
    <3>1. Kids(b)' = Kids(b) + One(b = x) /\ Kids(b) \in Nat
      BY <1>19
    <3>2. OnList(b)' = OnList(b) /\ OnList(b) \in Nat
      BY DEF OnList, Listed
    <3>3. Held(stack'[t], b) = Held(stack[t], b) + One(b = d) /\ Held(stack[t], b) \in Nat
      <4>1. One(Holds(Me(t), b)) = 0
        BY <1>2, BlockAssumption DEF One, Holds, FrameOK
      <4>2. Held(stack[t], b) = One(Holds(Me(t), b)) + Held(Rest(t), b) /\ Held(Rest(t), b) \in Nat
        BY <1>2
      <4>3. Held(stack'[t], b) = One(Holds(g, b)) + Held(Rest(t), b)
        BY <1>12
      <4>4. One(Holds(g, b)) = One(b = d) /\ One(b = d) \in Nat
        BY <1>9 DEF One, Holds
      <4> QED BY <4>1, <4>2, <4>3, <4>4
    <3>4. ref'[b] = ref[b] + One(b = d) + One(b = x) /\ ref[b] \in Nat
          /\ One(b = d) \in Nat /\ One(b = x) \in Nat
      BY <1>15 DEF One
    <3> QED BY <3>1, <3>2, <3>3, <3>4
  <2> QED BY <1>1, <1>11, <1>18, <2>1, RefsKeep
<1>21. ListsOK'
  <2>1. ASSUME NEW c \in Classes, NEW i \in DOMAIN list[c]
        PROVE  name'[list[c][i]] = name[list[c][i]]
    <3>1. list[c][i] \in Listed /\ list[c][i] \in Block
      BY <1>1, ListType
    <3> QED BY <1>4, <1>17, <3>1
  <2> QED BY <1>1, <2>1 DEF ListsOK
<1>22. \A u \in Thread \ {t} : Me(u)' = Me(u) /\ \A pc : At(u, pc)' <=> At(u, pc)
  BY <1>11, OthersAt
<1>23. \A b \in Block : b # d /\ b # x => ref'[b] = ref[b]
  BY <1>15 DEF One
<1>24. ref'[d] = 1 /\ (x \in Block => ref'[x] = ref[x] + 1)
  BY <1>4, <1>8, <1>15 DEF One
<1>25. LifeOK'
  <2>1. ASSUME NEW b \in Block, ref'[b] > 0 PROVE b \in alive'
    <3>1. CASE b = d \/ b = x
      BY <1>7, <3>1 DEF x
    <3>2. CASE b # d /\ b # x
      BY <1>1, <1>23, <2>1, <3>2 DEF LifeOK
    <3> QED BY <3>1, <3>2
  <2>2. ASSUME NEW b \in alive', ref'[b] = 0
        PROVE  \E u \in Thread : At(u, "destroy")' /\ Me(u)'.dev = b
    <3>1. b \in Block /\ b # d
      BY <1>1, <1>24, <2>2 DEF TypeOK
    <3>2. b # x
      BY <1>7, <1>15, <1>24, <2>2, <3>1
    <3>3. b \in alive /\ ref[b] = 0
      BY <1>23, <2>2, <3>1, <3>2
    <3>4. PICK u \in Thread : At(u, "destroy") /\ Me(u).dev = b
      BY <1>1, <3>3 DEF LifeOK
    <3>5. u # t
      BY <3>4 DEF At
    <3> QED BY <1>22, <3>4, <3>5
  <2>3. ASSUME NEW u \in Thread, At(u, "destroy")'
        PROVE  /\ u # t /\ At(u, "destroy") /\ Me(u)' = Me(u)
               /\ Me(u)'.dev \in alive' /\ ref'[Me(u)'.dev] = 0
    <3>1. u # t
      BY <1>9, <1>12, <2>3
    <3>2. At(u, "destroy") /\ Me(u)' = Me(u)
      BY <1>22, <2>3, <3>1
    <3>3. Me(u).dev \in alive /\ Me(u).dev \in Block /\ ref[Me(u).dev] = 0 /\ Me(u).dev # d
      BY <1>1, <3>2 DEF LifeOK, TypeOK
    <3>4. ref'[Me(u).dev] = 0
      BY <1>7, <1>23, <3>3
    <3> QED BY <3>1, <3>2, <3>3, <3>4
  <2>4. ASSUME NEW u \in Thread, NEW v \in Thread, At(u, "destroy")', At(v, "destroy")',
               Me(u)'.dev = Me(v)'.dev
        PROVE  u = v
    <3>1. At(u, "destroy") /\ At(v, "destroy") /\ Me(u).dev = Me(v).dev
      BY <2>3, <2>4
    <3> QED BY <1>1, <3>1 DEF LifeOK
  <2>5. ASSUME NEW u \in Thread, At(u, "insert")' PROVE ref'[Me(u)'.dev] = 1
    <3>1. CASE u = t
      BY <1>9, <1>12, <1>24, <3>1
    <3>2. CASE u # t
      <4>1. At(u, "insert") /\ Me(u)' = Me(u)
        BY <1>22, <2>5, <3>2
      <4> DEFINE b == Me(u).dev
      <4>2. ref[b] = 1 /\ b \in Block /\ \A i \in DOMAIN stack[t] : ~ Holds(stack[t][i], b)
        BY <1>1, <3>2, <4>1, InsertAlone DEF LifeOK
      <4>3. b # x
        BY <1>6, <4>2, BlockAssumption DEF x
      <4>4. b # d
        BY <1>4, <4>2
      <4> QED BY <1>23, <4>1, <4>2, <4>3, <4>4
    <3> QED BY <3>1, <3>2
  <2> QED BY <2>1, <2>2, <2>3, <2>4, <2>5 DEF LifeOK
<1>26. \A u \in Thread : StackOK(u)'
  BY <1>11, <1>12, OthersAt DEF Core
<1> QED BY <1>18, <1>20, <1>21, <1>25, <1>26 DEF Core

LEMMA FindDuplicateCore ==
    ASSUME Core, NEW t \in Thread, FindDuplicate(t)
    PROVE  Core'
<1>1. At(t, "add") /\ UNCHANGED <<list, handle, unseen, callVars>>
  BY DEF FindDuplicate
<1>2. CASE Find(Me(t).name) # NoBlock
  BY <1>2, FindDuplicateFound
<1>3. CASE \E d \in Block \ alive :
             /\ alive' = alive \cup {d} /\ name' = [name EXCEPT ![d] = Me(t).name]
             /\ parent' = [parent EXCEPT ![d] = Me(t).parent]
             /\ Count({d, Me(t).parent}, {}) /\ Resume(t, Using(t, "insert", d))
  BY <1>1, <1>3, AllocatedCore
<1>4. CASE Resume(t, Rest(t)) /\ UNCHANGED blockVars
  BY <1>1, <1>4, FindDuplicateNoMemory
<1> QED BY <1>2, <1>3, <1>4 DEF FindDuplicate

-----------------------------------------------------------------------------
LEMMA InitCore == Init => Core
<1> SUFFICES ASSUME Init PROVE Core
  OBVIOUS
<1>1. TypeOK
  <2>1. NoHandle \in [dev : Pointer, name : Name]
    BY NameOfNoHandle
  <2>2. list \in [Classes -> Seq(Block)] /\ stack \in [Thread -> Seq(FrameType)]
    BY EmptySeq DEF Init
  <2> QED BY <2>1, <2>2 DEF Init, TypeOK, Pointer
<1>2. \A t \in Thread : stack[t] = <<>>
  BY DEF Init
<1>3. \A t \in Thread, pc \in Pc : ~ At(t, pc)
  BY <1>2 DEF At
<1>4. Listed = {} /\ ListsOK
  <2>1. \A c \in Classes : list[c] = <<>> /\ DOMAIN list[c] = {}
    BY DEF Init
  <2> QED BY <2>1, ListedIs DEF ListsOK
<1>5. \A b : Holders(b) = {} /\ {c \in alive : parent[c] = b} = {}
  <2>1. \A t \in Thread : DOMAIN stack[t] = {}
    BY <1>2
  <2> QED BY <2>1 DEF Holders, Init
<1>6. RefsExact
  <2>1. \A b \in Block : ref[b] = 0
    BY DEF Init
  <2> QED BY <1>4, <1>5, <2>1, FS_EmptySet DEF RefsExact
<1>7. LifeOK
  BY <1>3 DEF LifeOK, Init, Pc
<1>8. \A t \in Thread : StackOK(t)
  BY <1>2, <1>3 DEF StackOK, Pc
<1> QED BY <1>1, <1>4, <1>6, <1>7, <1>8 DEF Core

LEMMA StutterCore == ASSUME Core, UNCHANGED vars PROVE Core'
<1>1. UNCHANGED <<list, ref, alive, name, parent, stack, handle, unseen, overlap, calls>>
  BY DEF vars, blockVars, callVars
<1>2. TypeOK'
  BY <1>1 DEF Core, TypeOK
<1>3. RefsExact'
  BY <1>1 DEF Core, RefsExact, Holders, Listed
<1>4. ListsOK'
  BY <1>1 DEF Core, ListsOK
<1>5. LifeOK' /\ \A t \in Thread : StackOK(t)'
  BY <1>1 DEF Core, LifeOK, StackOK, At, Me
<1> QED BY <1>2, <1>3, <1>4, <1>5 DEF Core

LEMMA RunCore == ASSUME Core, NEW t \in Thread, Run(t) PROVE Core'
<1>1. CASE Change(t)
  BY <1>1, FindDuplicateCore, DeviceStateAddListCore, ProbeDeviceCore, DiscardCore, FindDeviceCore,
     UnlinkCore, LeaveParentCore, NextClassCore, VisitDeviceCore, CheckChildCore, FindParentCore,
     FindChildCore, ReleaseDeviceCore DEF Change
<1>2. CASE t \in Reader /\ (StartClass(t) \/ EnterUpdate(t) \/ NextDevice(t))
  BY <1>2, StartClassCore, EnterUpdateCore, NextDeviceCore
<1>3. CASE Drop(t) \/ DeviceStateDestroy(t)
  BY <1>3, DropCore, DeviceStateDestroyCore
<1> QED BY <1>1, <1>2, <1>3 DEF Run

LEMMA CoreStep == Core /\ [Next]_vars => Core'
<1> SUFFICES ASSUME Core, [Next]_vars PROVE Core'
  OBVIOUS
<1>1. CASE \E t \in Thread : Run(t)
  BY <1>1, RunCore
<1>2. CASE \E t \in Pnp, n \in Name : ProcessPnPMsgQueue(t, n)
  BY <1>2, ProcessPnPMsgQueueCore
<1>3. CASE \E t \in Client, n, p \in Name : PmRegisterPowerRelationship(t, n, p)
  BY <1>3, PmRegisterPowerRelationshipCore
<1>4. CASE \E t \in Client : PmReleasePowerRelationship(t)
  BY <1>4, PmReleasePowerRelationshipCore
<1>5. CASE \E t \in Reader, n \in Name : PmGetDevicePower(t, n)
  BY <1>5, PmGetDevicePowerCore
<1>6. CASE \E t \in Reader : UpdateAllDeviceStates(t)
  BY <1>6, UpdateAllDeviceStatesCore
<1>7. CASE UNCHANGED vars
  BY <1>7, StutterCore
<1> QED BY <1>1, <1>2, <1>3, <1>4, <1>5, <1>6, <1>7 DEF Next

(***************************************************************************)
(* The reference count of every block is exact in every reachable state,   *)
(* however the threads that add, remove, register, release and update      *)
(* devices interleave.                                                     *)
(***************************************************************************)
THEOREM RefsAreExact == Spec => []RefsExact
<1>1. Core => RefsExact
  BY DEF Core
<1> QED BY <1>1, InitCore, CoreStep, PTL DEF Spec

-----------------------------------------------------------------------------
(***************************************************************************)
(* The walk of a reader is its last frame; it may destroy a device first.  *)
(***************************************************************************)
Onward(f, ls) ==
    LET s == ls[Class[f.class]]
    IN {s[j] : j \in {k \in DOMAIN s : \A i \in DOMAIN s : s[i] = f.dev => i <= k}}
Walking(f) == f.pc \in {"update", "driver"}
WalkFrame(f, us, nm, ls) ==
    /\ Walking(f) => ClassOf[nm[f.dev]] = Class[f.class]
    /\ us # {} => Walking(f) /\ us \subseteq Onward(f, ls)

LEMMA WalkParts ==
    ASSUME NEW t \in Reader, WalkOK(t), stack[t] \in Seq(FrameType)
    PROVE  /\ stack[t] = <<>> => unseen[t] = {}
           /\ stack[t] # <<>> =>
                /\ WalkFrame(stack[t][Len(stack[t])], unseen[t], name, list)
                /\ stack[t][Len(stack[t])] \in FrameType /\ Len(stack[t]) \in DOMAIN stack[t]
                /\ \/ Len(stack[t]) = 1
                   \/ Len(stack[t]) = 2 /\ stack[t][1].pc = "destroy"
<1>1. DOMAIN stack[t] = 1 .. Len(stack[t]) /\ Len(stack[t]) \in Nat
  BY LenProperties
<1>2. CASE stack[t] = <<>>
  <2>1. DOMAIN stack[t] = {}
    BY <1>2
  <2> QED BY <1>2, <2>1 DEF WalkOK
<1>3. CASE stack[t] # <<>>
  <2>1. Len(stack[t]) \in DOMAIN stack[t] /\ Len(stack[t]) # 0
    BY <1>1, <1>3, EmptySeq
  <2>2. stack[t][Len(stack[t])] \in FrameType
    BY <2>1, ElementOfSeq
  <2>3. Len(stack[t]) = 1 \/ (Len(stack[t]) = 2 /\ stack[t][1].pc = "destroy")
    <3>1. Len(stack[t]) <= 2 /\ (Len(stack[t]) = 2 => stack[t][1].pc = "destroy")
      BY DEF WalkOK
    <3>2. Len(stack[t]) \in Nat /\ Len(stack[t]) # 0 /\ Len(stack[t]) <= 2
      BY <1>1, <2>1, <3>1
    <3>3. Len(stack[t]) = 1 \/ Len(stack[t]) = 2
      <4> DEFINE n == Len(stack[t])
      <4> SUFFICES n = 1 \/ n = 2
        OBVIOUS
      <4>1. n \in Nat /\ n # 0 /\ n <= 2
        BY <3>2
      <4> HIDE DEF n
      <4> QED BY <4>1
    <3> QED BY <3>1, <3>3
  <2> DEFINE f == stack[t][Len(stack[t])]
  <2>4. unseen[t] # {} => Walking(f) /\ unseen[t] \subseteq Ahead(f)
    BY DEF WalkOK, Walking
  <2>5. Walking(f) => ClassOf[name[f.dev]] = Class[f.class]
    BY <2>1 DEF WalkOK, Walking
  <2>6. Ahead(f) = Onward(f, list)
    BY DEF Ahead, Onward, Members
  <2>7. WalkFrame(f, unseen[t], name, list)
    BY <2>4, <2>5, <2>6 DEF WalkFrame
  <2> QED BY <1>3, <2>1, <2>2, <2>3, <2>7
<1> QED BY <1>2, <1>3

LEMMA WalkNext ==
    ASSUME NEW t \in Reader, stack'[t] \in Seq(FrameType),
           stack'[t] = <<>> => unseen'[t] = {},
           stack'[t] # <<>> =>
             /\ WalkFrame(stack'[t][Len(stack'[t])], unseen'[t], name', list')
             /\ \/ Len(stack'[t]) = 1
                \/ Len(stack'[t]) = 2 /\ stack'[t][1].pc = "destroy"
    PROVE  WalkOK(t)'
<1>1. DOMAIN stack'[t] = 1 .. Len(stack'[t]) /\ Len(stack'[t]) \in Nat
  BY LenProperties
<1>2. CASE stack'[t] = <<>>
  <2>1. DOMAIN stack'[t] = {} /\ Len(stack'[t]) = 0
    BY <1>2, EmptySeq
  <2> QED BY <1>2, <2>1 DEF WalkOK
<1>3. CASE stack'[t] # <<>>
  <2> DEFINE n == Len(stack'[t])
             f == stack'[t][n]
  <2>1. n \in DOMAIN stack'[t] /\ n # 0
    BY <1>1, <1>3, EmptySeq
  <2>2. n = 1 \/ (n = 2 /\ stack'[t][1].pc = "destroy")
    BY <1>3
  <2>3. unseen'[t] # {} => Walking(f) /\ unseen'[t] \subseteq Onward(f, list')
    BY <1>3 DEF WalkFrame
  <2>4. Onward(f, list') = Ahead(stack[t][Len(stack[t])])'
    BY DEF Ahead, Onward, Members
  <2>5. Walking(f) => ClassOf[name'[f.dev]] = Class[f.class]
    BY <1>3 DEF WalkFrame
  <2>6. ASSUME NEW i \in DOMAIN stack'[t], stack'[t][i].pc \in {"update", "driver"}
        PROVE  ClassOf[name'[stack'[t][i].dev]] = Class[stack'[t][i].class]
    <3>1. i = n
      BY <1>1, <2>2, <2>6
    <3> QED BY <2>5, <2>6, <3>1 DEF Walking
  <2>7. Len(stack'[t]) <= 2 /\ (Len(stack'[t]) = 2 => stack'[t][1].pc = "destroy")
    BY <2>2
  <2>8. unseen'[t] # {} =>
          \E i \in DOMAIN stack'[t] :
            /\ i = Len(stack'[t]) /\ stack'[t][i].pc \in {"update", "driver"}
            /\ unseen'[t] \subseteq Ahead(stack[t][i])'
    <3> SUFFICES ASSUME unseen'[t] # {}
                 PROVE  \E i \in DOMAIN stack'[t] :
                          /\ i = Len(stack'[t]) /\ stack'[t][i].pc \in {"update", "driver"}
                          /\ unseen'[t] \subseteq Ahead(stack[t][i])'
      OBVIOUS
    <3>1. stack'[t][n].pc \in {"update", "driver"} /\ unseen'[t] \subseteq Onward(f, list')
      BY <2>3 DEF Walking
    <3> QED BY <2>1, <2>4, <3>1
  <2> QED BY <2>6, <2>7, <2>8 DEF WalkOK
<1> QED BY <1>2, <1>3

(* A device that a walk is at has not been freed. *)
LEMMA WalkAlive ==
    ASSUME Core, NEW t \in Thread, NEW i \in DOMAIN stack[t], Walking(stack[t][i])
    PROVE  /\ stack[t][i].dev \in alive /\ stack[t][i].dev \in Block
           /\ Holds(stack[t][i], stack[t][i].dev)
           /\ stack[t][i].class \in DOMAIN Class /\ Class[stack[t][i].class] \in Classes
<1>1. FrameOK(stack[t][i])
  BY DEF Core, StackOK
<1>2. stack[t][i].dev \in Block /\ Holds(stack[t][i], stack[t][i].dev)
      /\ stack[t][i].class \in DOMAIN Class
  BY <1>1 DEF FrameOK, Walking, Holds
<1> QED BY <1>2, Claimed, ClassType

-----------------------------------------------------------------------------
(* Steps of other threads. *)
Quiet(t) == list' = list /\ unseen'[t] = unseen[t] /\ \A b \in alive : name'[b] = name[b]

LEMMA QuietWalk ==
    ASSUME Core, NEW t \in Reader, WalkOK(t), stack'[t] = stack[t], Quiet(t)
    PROVE  WalkOK(t)'
<1>1. t \in Thread /\ stack[t] \in Seq(FrameType)
  BY DEF Core, TypeOK, Thread
<1> DEFINE f == stack[t][Len(stack[t])]
<1>2. stack[t] # <<>> => WalkFrame(f, unseen'[t], name', list')
  <2> SUFFICES ASSUME stack[t] # <<>> PROVE WalkFrame(f, unseen'[t], name', list')
    OBVIOUS
  <2>1. WalkFrame(f, unseen[t], name, list) /\ Len(stack[t]) \in DOMAIN stack[t]
    BY <1>1, WalkParts
  <2>2. Walking(f) => f.dev \in alive
    BY <1>1, <2>1, WalkAlive
  <2> QED BY <2>1, <2>2 DEF WalkFrame, Quiet
<1> QED BY <1>1, <1>2, WalkParts, WalkNext DEF Quiet

LEMMA AddWalk ==
    ASSUME Core, NEW t \in Reader, WalkOK(t), NEW u \in Thread, u # t, DeviceStateAddList(u)
    PROVE  WalkOK(t)'
<1> DEFINE d == Me(u).dev
           c == ClassOf[name[d]]
           s == list[c]
           r == <<d>> \o s
<1>1. t \in Thread /\ stack[t] \in Seq(FrameType) /\ TypeOK /\ ListsOK
  BY DEF Core, TypeOK, Thread
<1>2. /\ At(u, "insert") /\ list' = [list EXCEPT ![c] = r] /\ stack'[t] = stack[t]
      /\ UNCHANGED <<name, unseen>>
  BY DEF DeviceStateAddList, Resume, Core, TypeOK
<1>3. /\ d \in Block /\ d \notin Listed
      /\ \A i \in DOMAIN stack[t] : ~ Holds(stack[t][i], d)
  BY <1>1, <1>2, InsertAlone
<1>4. c \in Classes
  BY <1>1, <1>3, NameType DEF TypeOK
<1>5. s \in Seq(Block) /\ DOMAIN s = 1 .. Len(s) /\ Len(s) \in Nat
  BY <1>1, <1>4, ListType
<1>6. /\ r \in Seq(Block) /\ Len(r) = Len(s) + 1 /\ r[1] = d
      /\ \A i \in 2 .. Len(s) + 1 : r[i] = s[i - 1]
      /\ \A i \in 1 .. Len(s) : r[i + 1] = s[i]
  BY <1>3, <1>5, PushedAt
<1>7. DOMAIN r = 1 .. Len(s) + 1
  BY <1>6, LenProperties
<1>8. list'[c] = r /\ \A k \in Classes : k # c => list'[k] = list[k]
  BY <1>1, <1>2, <1>4 DEF TypeOK
<1> HIDE DEF r
<1> DEFINE f == stack[t][Len(stack[t])]
<1>9. stack[t] # <<>> => WalkFrame(f, unseen[t], name, list')
  <2> SUFFICES ASSUME stack[t] # <<>> PROVE WalkFrame(f, unseen[t], name, list')
    OBVIOUS
  <2>1. WalkFrame(f, unseen[t], name, list) /\ Len(stack[t]) \in DOMAIN stack[t]
    BY <1>1, WalkParts
  <2>2. Walking(f) => f.dev # d /\ Class[f.class] \in Classes
    BY <1>1, <1>3, <2>1, WalkAlive
  <2>3. ASSUME Walking(f), NEW b \in Onward(f, list) PROVE b \in Onward(f, list')
    <3> DEFINE q == list[Class[f.class]]
    <3>1. PICK j \in DOMAIN q : q[j] = b /\ \A i \in DOMAIN q : q[i] = f.dev => i <= j
      BY <2>3 DEF Onward
    <3>2. CASE Class[f.class] # c
      <4>1. list'[Class[f.class]] = q
        BY <1>8, <2>2, <2>3, <3>2
      <4> QED BY <3>1, <4>1 DEF Onward
    <3>3. CASE Class[f.class] = c
      <4>1. q = s /\ list'[Class[f.class]] = r
        BY <1>8, <3>3
      <4>2. j \in 1 .. Len(s) /\ s[j] = b
        BY <1>5, <3>1, <4>1
      <4>3. j + 1 \in DOMAIN r /\ r[j + 1] = b
        BY <1>5, <1>6, <1>7, <4>2
      <4>4. ASSUME NEW i \in DOMAIN r, r[i] = f.dev PROVE i <= j + 1
        <5>1. i # 1
          BY <1>6, <2>2, <2>3, <4>4
        <5>2. i - 1 \in DOMAIN s /\ s[i - 1] = f.dev /\ i \in Nat
          BY <1>5, <1>6, <1>7, <4>4, <5>1
        <5>3. i - 1 <= j
          BY <3>1, <4>1, <5>2
        <5> QED BY <4>2, <5>2, <5>3
      <4> QED BY <4>1, <4>3, <4>4 DEF Onward
    <3> QED BY <3>2, <3>3
  <2> QED BY <2>1, <2>3 DEF WalkFrame
<1> QED BY <1>1, <1>2, <1>9, WalkParts, WalkNext

LEMMA RemWalk ==
    ASSUME Core, NEW t \in Reader, WalkOK(t), stack'[t] = stack[t], UNCHANGED name,
           NEW d, DeviceStateRemList(d)
    PROVE  WalkOK(t)'
<1> DEFINE c == ClassOf[name[d]]
           s == list[c]
           p == PlaceOf(d, s)
           r == RemoveAt(s, p)
           from(i) == IF i < p THEN i ELSE i + 1
<1>1. t \in Thread /\ stack[t] \in Seq(FrameType) /\ TypeOK /\ ListsOK
  BY DEF Core, TypeOK, Thread
<1>2. /\ d \in Listed /\ list' = [list EXCEPT ![c] = r]
      /\ unseen'[t] = unseen[t] \ {d}
  BY DEF DeviceStateRemList
<1>3. c \in Classes /\ p \in DOMAIN s /\ s[p] = d
  BY <1>1, <1>2, PlaceOnList
<1>4. s \in Seq(Block) /\ DOMAIN s = 1 .. Len(s) /\ Len(s) \in Nat
  BY <1>1, <1>3, ListType
<1> HIDE DEF p
<1>5. /\ r \in Seq(Block) /\ Len(r) = Len(s) - 1
      /\ \A i \in 1 .. Len(s) - 1 : r[i] = IF i < p THEN s[i] ELSE s[i + 1]
  BY <1>3, <1>4, TakenOut
<1>6. DOMAIN r = 1 .. Len(s) - 1 /\ p \in 1 .. Len(s)
  BY <1>3, <1>4, <1>5, LenProperties
<1>7. list'[c] = r /\ \A k \in Classes : k # c => list'[k] = list[k]
  BY <1>1, <1>2, <1>3 DEF TypeOK
<1> HIDE DEF r
<1>8. \A i \in DOMAIN r : from(i) \in DOMAIN s /\ r[i] = s[from(i)]
  BY <1>4, <1>5, <1>6
<1>9. \A j \in DOMAIN s : j # p =>
        \E i \in DOMAIN r : from(i) = j /\ \A k \in DOMAIN r : from(k) <= j => k <= i
  <2> SUFFICES ASSUME NEW j \in DOMAIN s, j # p
               PROVE  \E i \in DOMAIN r : from(i) = j /\ \A k \in DOMAIN r : from(k) <= j => k <= i
    OBVIOUS
  <2>1. CASE j < p
    <3>1. j \in DOMAIN r /\ from(j) = j /\ \A k \in DOMAIN r : from(k) <= j => k <= j
      BY <1>4, <1>6, <2>1
    <3> QED BY <3>1
  <2>2. CASE j > p
    <3>1. j - 1 \in DOMAIN r /\ from(j - 1) = j /\ \A k \in DOMAIN r : from(k) <= j => k <= j - 1
      BY <1>4, <1>6, <2>2
    <3> QED BY <3>1
  <2> QED BY <1>4, <1>6, <2>1, <2>2
<1> HIDE DEF from
<1> DEFINE f == stack[t][Len(stack[t])]
<1>10. stack[t] # <<>> => WalkFrame(f, unseen'[t], name, list')
  <2> SUFFICES ASSUME stack[t] # <<>> PROVE WalkFrame(f, unseen'[t], name, list')
    OBVIOUS
  <2>1. WalkFrame(f, unseen[t], name, list) /\ Len(stack[t]) \in DOMAIN stack[t]
    BY <1>1, WalkParts
  <2>2. Walking(f) => Class[f.class] \in Classes
    BY <1>1, <2>1, WalkAlive
  <2>3. ASSUME Walking(f), NEW b \in Onward(f, list), b # d PROVE b \in Onward(f, list')
    <3> DEFINE q == list[Class[f.class]]
    <3>1. PICK j \in DOMAIN q : q[j] = b /\ \A i \in DOMAIN q : q[i] = f.dev => i <= j
      BY <2>3 DEF Onward
    <3>2. CASE Class[f.class] # c
      <4>1. list'[Class[f.class]] = q
        BY <1>7, <2>2, <2>3, <3>2
      <4> QED BY <3>1, <4>1 DEF Onward
    <3>3. CASE Class[f.class] = c
      <4>1. q = s /\ list'[Class[f.class]] = r
        BY <1>7, <3>3
      <4>2. j \in DOMAIN s /\ j # p /\ s[j] = b
        BY <1>3, <2>3, <3>1, <4>1
      <4>3. PICK i \in DOMAIN r : from(i) = j /\ \A k \in DOMAIN r : from(k) <= j => k <= i
        BY <1>9, <4>2
      <4>4. r[i] = b
        BY <1>8, <4>2, <4>3
      <4>5. ASSUME NEW k \in DOMAIN r, r[k] = f.dev PROVE k <= i
        <5>1. from(k) \in DOMAIN s /\ s[from(k)] = f.dev
          BY <1>8, <4>5
        <5>2. from(k) <= j
          BY <3>1, <4>1, <5>1
        <5> QED BY <4>3, <5>2
      <4> QED BY <4>1, <4>4, <4>5 DEF Onward
    <3> QED BY <3>2, <3>3
  <2>4. unseen'[t] # {} => unseen[t] # {} /\ unseen'[t] \subseteq Onward(f, list')
    BY <1>2, <2>1, <2>3 DEF WalkFrame
  <2> QED BY <2>1, <2>4 DEF WalkFrame
<1>11. stack'[t] = <<>> => unseen'[t] = {}
  BY <1>1, <1>2, WalkParts
<1> QED BY <1>1, <1>10, <1>11, WalkParts, WalkNext

-----------------------------------------------------------------------------
(* Steps of the reader itself. *)
LEMMA TopAlone ==
    ASSUME Core, NEW t \in Reader, WalkOK(t), NEW pc, At(t, pc), pc # "destroy"
    PROVE  /\ t \in Thread /\ Me(t) \in FrameType /\ FrameOK(Me(t)) /\ Me(t).pc = pc
           /\ Rest(t) = <<>> /\ 1 \in DOMAIN stack[t] /\ stack[t][1] = Me(t)
           /\ WalkFrame(Me(t), unseen[t], name, list)
<1>1. t \in Thread /\ TypeOK /\ stack[t] \in Seq(FrameType) /\ StackOK(t)
  BY DEF Core, TypeOK, Thread
<1>2. /\ stack[t] # <<>> /\ Me(t) \in FrameType /\ FrameOK(Me(t)) /\ Me(t).pc = pc
      /\ 1 \in DOMAIN stack[t] /\ stack[t][1] = Me(t)
  BY <1>1, MyFrame
<1>3. Len(stack[t]) = Len(Rest(t)) + 1 /\ Rest(t) \in Seq(FrameType)
  BY <1>1, <1>2, CallStack DEF Sound
<1>4. Len(stack[t]) = 1 /\ WalkFrame(stack[t][Len(stack[t])], unseen[t], name, list)
  BY <1>1, <1>2, WalkParts
<1>5. Rest(t) = <<>>
  BY <1>3, <1>4, LenProperties, EmptySeq
<1> QED BY <1>1, <1>2, <1>4, <1>5

LEMMA OneFrame ==
    ASSUME NEW t \in Reader, NEW g \in FrameType, stack'[t] = <<g>>,
           WalkFrame(g, unseen'[t], name', list')
    PROVE  WalkOK(t)'
<1>1. <<g>> \in Seq(FrameType) /\ Len(<<g>>) = 1 /\ <<g>>[1] = g /\ <<g>> # <<>>
  OBVIOUS
<1> QED BY <1>1, WalkNext

LEMMA Alone == ASSUME NEW g \in FrameType PROVE <<g>> \o <<>> = <<g>>
<1>1. <<g>> \in Seq(FrameType)
  OBVIOUS
<1> QED BY <1>1, ConcatEmptySeq

LEMMA AtMostOne == ASSUME NEW n \in Nat, n <= 1, n # 0 PROVE n = 1
OBVIOUS

LEMMA DestroyWalk ==
    ASSUME TypeOK, NEW t \in Reader, NEW x \in Pointer, NEW fs \in Seq(FrameType), Len(fs) <= 1,
           stack'[t] = Destroying(x) \o fs,
           fs = <<>> => unseen'[t] = {},
           fs # <<>> => WalkFrame(fs[1], unseen'[t], name', list')
    PROVE  WalkOK(t)'
<1>1. Len(fs) \in Nat /\ (fs = <<>> <=> Len(fs) = 0)
  BY LenProperties, EmptySeq
<1>2. CASE Destroying(x) = <<>>
  <2>1. stack'[t] = fs
    BY <1>2, ConcatEmptySeq
  <2>2. fs # <<>> => Len(fs) = 1
    BY <1>1, AtMostOne
  <2> QED BY <2>1, <2>2, WalkNext
<1>3. CASE Destroying(x) # <<>>
  <2> DEFINE h == [Frame("destroy", name[x]) EXCEPT !.dev = x]
             s == <<h>> \o fs
  <2>1. x \in Block /\ stack'[t] = s
    BY <1>3 DEF Destroying
  <2>2. name[x] \in Name
    BY <2>1 DEF TypeOK
  <2>3. h \in FrameType /\ h.pc = "destroy"
    BY <2>1, <2>2 DEF FrameType, Frame, Pc, Pointer
  <2> HIDE DEF h
  <2>4. s \in Seq(FrameType) /\ Len(s) = Len(fs) + 1 /\ s[1] = h
        /\ \A i \in 2 .. Len(fs) + 1 : s[i] = fs[i - 1]
    BY <2>3, PushedAt
  <2> HIDE DEF s
  <2>5. s # <<>>
    BY <1>1, <2>4, EmptySeq
  <2>6. CASE fs = <<>>
    <3>1. Len(s) = 1 /\ WalkFrame(s[1], {}, name', list')
      BY <1>1, <2>3, <2>4, <2>6 DEF WalkFrame, Walking
    <3> QED BY <2>1, <2>4, <2>5, <2>6, <3>1, WalkNext
  <2>7. CASE fs # <<>>
    <3>1. Len(fs) = 1
      BY <1>1, <2>7, AtMostOne
    <3>2. Len(s) = 2 /\ s[2] = fs[1]
      BY <2>4, <3>1
    <3> QED BY <2>1, <2>3, <2>4, <2>5, <2>7, <3>2, WalkNext
  <2> QED BY <2>6, <2>7
<1> QED BY <1>2, <1>3

LEMMA BeginWalk ==
    ASSUME Core, NEW t \in Reader, WalkOK(t), NEW g \in FrameType, ~ Walking(g), Begin(t, g),
           UNCHANGED unseen
    PROVE  WalkOK(t)'
<1>1. t \in Thread /\ stack[t] = <<>> /\ stack'[t] = <<g>> /\ stack[t] \in Seq(FrameType)
  BY DEF Core, TypeOK, Thread, Begin, Resume
<1>2. unseen'[t] = {}
  BY <1>1, WalkParts
<1> QED BY <1>1, <1>2, OneFrame DEF WalkFrame

LEMMA StartClassWalk ==
    ASSUME Core, NEW t \in Reader, WalkOK(t), StartClass(t)
    PROVE  WalkOK(t)'
<1> DEFINE k == Me(t).class
           x == First(Members(k))
           g == [Me(t) EXCEPT !.pc = "update", !.dev = x]
           h == [Me(t) EXCEPT !.class = k + 1]
<1>1. At(t, "class") /\ TypeOK /\ ListsOK
  BY DEF StartClass, Core
<1>2. /\ t \in Thread /\ Me(t) \in FrameType /\ FrameOK(Me(t)) /\ Me(t).pc = "class"
      /\ Rest(t) = <<>> /\ WalkFrame(Me(t), unseen[t], name, list)
  BY <1>1, TopAlone
<1>3. unseen[t] = {} /\ UNCHANGED <<list, name>> /\ k \in Nat /\ k > 0
  BY <1>2 DEF WalkFrame, Walking, StartClass, FrameOK, FrameType
<1>4. CASE k > Len(Class)
  <2>1. Resume(t, Rest(t)) /\ UNCHANGED unseen
    BY <1>4 DEF StartClass
  <2>2. stack'[t] = <<>> /\ unseen'[t] = {} /\ stack'[t] \in Seq(FrameType)
    BY <1>1, <1>2, <1>3, <2>1, Resumed, EmptySeq
  <2> QED BY <2>2, WalkNext
<1>5. CASE ~ (k > Len(Class)) /\ x = NoBlock
  <2>1. Resume(t, <<h>> \o Rest(t)) /\ UNCHANGED unseen
    BY <1>5 DEF StartClass
  <2>2. h \in FrameType /\ h.pc = "class"
    BY <1>2 DEF FrameType
  <2> HIDE DEF h
  <2>3. stack'[t] = <<h>>
    BY <1>1, <1>2, <2>1, <2>2, Resumed, Alone
  <2>4. WalkFrame(h, unseen'[t], name', list')
    BY <1>3, <2>1, <2>2 DEF WalkFrame, Walking
  <2> QED BY <2>2, <2>3, <2>4, OneFrame
<1>6. CASE ~ (k > Len(Class)) /\ x # NoBlock
  <2>1. Resume(t, <<g>> \o Rest(t)) /\ unseen' = [unseen EXCEPT ![t] = ToSet(Members(k))]
    BY <1>6 DEF StartClass, Using
  <2>2. k \in DOMAIN Class /\ Class[k] \in Classes
    BY <1>3, <1>6, ClassType
  <2> DEFINE s == list[Class[k]]
  <2>3. s # <<>> /\ x = s[1] /\ s \in Seq(Block) /\ DOMAIN s = 1 .. Len(s) /\ Len(s) \in Nat
    BY <1>1, <1>6, <2>2, FirstListed, ListType DEF Members
  <2>4. 1 \in DOMAIN s /\ x \in Block
    BY <2>3, EmptySeq, ElementOfSeq
  <2>5. ClassOf[name[x]] = Class[k] /\ \A i \in DOMAIN s : s[i] = x => i = 1
    BY <1>1, <2>2, <2>3, <2>4 DEF ListsOK
  <2>6. unseen'[t] = {s[j] : j \in DOMAIN s}
    BY <1>1, <2>1 DEF TypeOK, ToSet, Members
  <2> HIDE DEF x
  <2>7. g \in FrameType /\ g.pc = "update" /\ g.dev = x /\ g.class = k
    BY <1>2, <2>4, SomePcs DEF FrameType, Pointer
  <2> HIDE DEF g
  <2>8. unseen'[t] \subseteq Onward(g, list)
    <3>1. ASSUME NEW j \in DOMAIN s
          PROVE  \A i \in DOMAIN s : s[i] = g.dev => i <= j
      BY <2>3, <2>5, <2>7
    <3> QED BY <2>6, <2>7, <3>1 DEF Onward
  <2>9. WalkFrame(g, unseen'[t], name', list')
    BY <1>3, <2>5, <2>7, <2>8 DEF WalkFrame, Walking
  <2>10. stack'[t] = <<g>>
    BY <1>1, <1>2, <2>1, <2>7, Resumed, Alone
  <2> QED BY <2>7, <2>9, <2>10, OneFrame
<1> QED BY <1>4, <1>5, <1>6

LEMMA EnterUpdateWalk ==
    ASSUME Core, NEW t \in Reader, WalkOK(t), EnterUpdate(t)
    PROVE  WalkOK(t)'
<1> DEFINE g == [Me(t) EXCEPT !.pc = "driver", !.parent = parent[Me(t).dev]]
<1>1. At(t, "update") /\ TypeOK
  BY DEF EnterUpdate, Core
<1>2. /\ t \in Thread /\ Me(t) \in FrameType /\ FrameOK(Me(t)) /\ Me(t).pc = "update"
      /\ Rest(t) = <<>> /\ WalkFrame(Me(t), unseen[t], name, list)
  BY <1>1, TopAlone
<1>3. Resume(t, <<g>> \o Rest(t)) /\ UNCHANGED <<list, name, unseen>>
  BY DEF EnterUpdate, blockVars
<1>4. parent[Me(t).dev] \in Pointer
  BY <1>1, <1>2 DEF TypeOK, FrameOK
<1>5. g \in FrameType /\ g.pc = "driver" /\ g.dev = Me(t).dev /\ g.class = Me(t).class
  BY <1>2, <1>4 DEF FrameType, Pc
<1> HIDE DEF g
<1>6. Onward(g, list) = Onward(Me(t), list)
  BY <1>5 DEF Onward
<1>7. WalkFrame(g, unseen'[t], name', list')
  BY <1>2, <1>3, <1>5, <1>6 DEF WalkFrame, Walking
<1>8. stack'[t] = <<g>>
  BY <1>1, <1>2, <1>3, <1>5, Resumed, Alone
<1> QED BY <1>5, <1>7, <1>8, OneFrame

LEMMA NextDeviceWalk ==
    ASSUME Core, NEW t \in Reader, WalkOK(t), NextDevice(t)
    PROVE  WalkOK(t)'
<1> DEFINE x == Me(t).dev
           k == Me(t).class
           y == NextAfter(x, k)
           s == list[Class[k]]
           h == [Me(t) EXCEPT !.pc = "class", !.class = @ + 1, !.dev = NoBlock, !.parent = NoBlock]
           g == [Me(t) EXCEPT !.pc = "update", !.dev = y, !.parent = NoBlock]
<1>1. At(t, "driver") /\ TypeOK /\ ListsOK
  BY DEF NextDevice, Core
<1>2. /\ t \in Thread /\ Me(t) \in FrameType /\ FrameOK(Me(t)) /\ Me(t).pc = "driver"
      /\ Rest(t) = <<>> /\ WalkFrame(Me(t), unseen[t], name, list)
  BY <1>1, TopAlone
<1>3. /\ y = NoBlock => Resume(t, Destroying(x) \o (<<h>> \o Rest(t)))
      /\ y # NoBlock => Resume(t, Destroying(x) \o (<<g>> \o Rest(t)))
      /\ unseen' = [unseen EXCEPT ![t] = @ \ {x}] /\ UNCHANGED <<list, name>>
  BY DEF NextDevice
<1>4. /\ x \in Block /\ k \in DOMAIN Class /\ Class[k] \in Classes /\ x \in Pointer
      /\ k \in Nat /\ ClassOf[name[x]] = Class[k]
  BY <1>2, ClassType DEF FrameOK, Pointer, WalkFrame, Walking, FrameType
<1>5. s \in Seq(Block) /\ DOMAIN s = 1 .. Len(s) /\ Len(s) \in Nat
      /\ \A i \in DOMAIN s : s[i] \in Block
  BY <1>1, <1>4, ListType
<1>6. unseen'[t] = unseen[t] \ {x} /\ unseen[t] \subseteq Onward(Me(t), list)
  BY <1>1, <1>2, <1>3 DEF TypeOK, WalkFrame
<1>7. ASSUME NEW b \in unseen'[t]
      PROVE  \E j \in DOMAIN s : s[j] = b /\ b # x /\ \A i \in DOMAIN s : s[i] = x => i <= j
  BY <1>6 DEF Onward
<1> DEFINE Done == unseen'[t] = {}
           Left == /\ y \in Block /\ ClassOf[name[y]] = Class[k]
                   /\ \A b \in unseen'[t] :
                        \E j \in DOMAIN s : s[j] = b /\ \A i \in DOMAIN s : s[i] = y => i <= j
<1>8. ASSUME x \in Listed PROVE (y = NoBlock /\ Done) \/ (y # NoBlock /\ Left)
  <2> DEFINE p == PlaceOf(x, s)
  <2>1. p \in DOMAIN s /\ s[p] = x /\ \A i \in DOMAIN s : s[i] = x => i = p
    BY <1>1, <1>4, <1>8, PlaceOnList
  <2>2. y = IF p = Len(s) THEN NoBlock ELSE s[p + 1]
    BY <1>4, <1>8 DEF NextAfter, NextOf
  <2> HIDE DEF p, y
  <2>3. ASSUME NEW b \in unseen'[t] PROVE \E j \in DOMAIN s : s[j] = b /\ p < j
    <3>1. PICK j \in DOMAIN s : s[j] = b /\ b # x /\ \A i \in DOMAIN s : s[i] = x => i <= j
      BY <1>7
    <3>2. p <= j /\ p # j
      BY <2>1, <3>1
    <3> QED BY <1>5, <2>1, <3>1, <3>2
  <2>4. CASE p = Len(s)
    <3>1. y = NoBlock
      BY <2>2, <2>4
    <3>2. ASSUME NEW b \in unseen'[t] PROVE FALSE
      <4>1. PICK j \in DOMAIN s : s[j] = b /\ p < j
        BY <2>3
      <4>2. j \in 1 .. Len(s)
        BY <1>5
      <4> QED BY <1>5, <2>4, <4>1, <4>2
    <3> QED BY <3>1, <3>2
  <2>5. CASE p # Len(s)
    <3>1. p + 1 \in DOMAIN s /\ y = s[p + 1]
      BY <1>5, <2>1, <2>2, <2>5
    <3>2. y \in Block /\ y # NoBlock /\ ClassOf[name[y]] = Class[k]
          /\ \A i \in DOMAIN s : s[i] = y => i = p + 1
      BY <1>1, <1>4, <1>5, <3>1, BlockAssumption DEF ListsOK
    <3>3. ASSUME NEW b \in unseen'[t]
          PROVE  \E j \in DOMAIN s : s[j] = b /\ \A i \in DOMAIN s : s[i] = y => i <= j
      <4>1. PICK j \in DOMAIN s : s[j] = b /\ p < j
        BY <2>3
      <4>2. p + 1 <= j
        BY <1>5, <2>1, <4>1
      <4> QED BY <3>2, <4>1, <4>2
    <3> QED BY <3>2, <3>3
  <2> QED BY <2>4, <2>5
<1>9. ASSUME x \notin Listed PROVE (y = NoBlock /\ Done) \/ (y # NoBlock /\ Left)
  <2>1. y = First(s)
    BY <1>9 DEF NextAfter, Members
  <2>2. /\ First(s) = NoBlock => s = <<>>
        /\ First(s) # NoBlock => s # <<>> /\ First(s) = s[1]
    BY <1>1, <1>4, FirstListed
  <2> HIDE DEF y
  <2>3. CASE y = NoBlock
    <3>1. DOMAIN s = {}
      BY <2>1, <2>2, <2>3
    <3>2. Done
      BY <1>7, <3>1
    <3> QED BY <2>3, <3>2
  <2>4. CASE y # NoBlock
    <3>1. 1 \in DOMAIN s /\ y = s[1]
      BY <1>5, <2>1, <2>2, <2>4, EmptySeq
    <3>2. y \in Block /\ ClassOf[name[y]] = Class[k] /\ \A i \in DOMAIN s : s[i] = y => i = 1
      BY <1>1, <1>4, <1>5, <3>1 DEF ListsOK
    <3>3. ASSUME NEW b \in unseen'[t]
          PROVE  \E j \in DOMAIN s : s[j] = b /\ \A i \in DOMAIN s : s[i] = y => i <= j
      <4>1. PICK j \in DOMAIN s : s[j] = b
        BY <1>7
      <4>2. 1 <= j
        BY <1>5
      <4> QED BY <3>2, <4>1, <4>2
    <3> QED BY <2>4, <3>2, <3>3
  <2> QED BY <2>3, <2>4
<1>10. (y = NoBlock /\ Done) \/ (y # NoBlock /\ Left)
  BY <1>8, <1>9
<1> HIDE DEF y
<1>11. CASE y = NoBlock /\ Done
  <2>1. h \in FrameType /\ h.pc = "class"
    <3>1. Me(t).class + 1 \in Nat /\ Me(t).class + 1 > 0
      BY <1>2 DEF FrameType
    <3> QED BY <1>2, <3>1 DEF FrameType, Pointer, Pc
  <2> HIDE DEF h, x
  <2>2. stack'[t] = Destroying(x) \o <<h>>
    <3>1. Resume(t, Destroying(x) \o <<h>>)
      BY <1>2, <1>3, <1>11, <2>1, Alone
    <3> QED BY <1>1, <1>2, <3>1, Resumed
  <2>3. WalkFrame(h, unseen'[t], name', list')
    BY <1>11, <2>1 DEF WalkFrame, Walking
  <2>4. <<h>> \in Seq(FrameType) /\ Len(<<h>>) <= 1 /\ <<h>>[1] = h /\ <<h>> # <<>>
    BY <2>1
  <2> QED BY <1>1, <1>4, <2>2, <2>3, <2>4, DestroyWalk
<1>12. CASE y # NoBlock /\ Left
  <2>1. g \in FrameType /\ g.pc = "update" /\ g.dev = y /\ g.class = k
    BY <1>2, <1>12, SomePcs DEF FrameType, Pointer
  <2> HIDE DEF g, x
  <2>2. stack'[t] = Destroying(x) \o <<g>>
    <3>1. Resume(t, Destroying(x) \o <<g>>)
      BY <1>2, <1>3, <1>12, <2>1, Alone
    <3> QED BY <1>1, <1>2, <3>1, Resumed
  <2>3. unseen'[t] \subseteq Onward(g, list)
    BY <1>12, <2>1 DEF Onward
  <2>4. WalkFrame(g, unseen'[t], name', list')
    BY <1>3, <1>12, <2>1, <2>3 DEF WalkFrame, Walking
  <2>5. <<g>> \in Seq(FrameType) /\ Len(<<g>>) <= 1 /\ <<g>>[1] = g /\ <<g>> # <<>>
    BY <2>1
  <2> QED BY <1>1, <1>4, <2>2, <2>4, <2>5, DestroyWalk
<1> QED BY <1>10, <1>11, <1>12

LEMMA DropWalk ==
    ASSUME Core, NEW t \in Reader, WalkOK(t), Drop(t)
    PROVE  WalkOK(t)'
<1> DEFINE x == Me(t).dev
           fs == <<>>
<1>1. At(t, "drop") /\ TypeOK
  BY DEF Drop, Core
<1>2. /\ t \in Thread /\ Me(t) \in FrameType /\ Me(t).pc = "drop"
      /\ Rest(t) = <<>> /\ WalkFrame(Me(t), unseen[t], name, list)
  BY <1>1, TopAlone
<1>3. Resume(t, Destroying(x) \o fs) /\ UNCHANGED unseen
  BY <1>2 DEF Drop, DeviceStateDecRef
<1>4. unseen'[t] = {}
  BY <1>2, <1>3 DEF WalkFrame, Walking
<1>5. x \in Pointer /\ fs \in Seq(FrameType) /\ Len(fs) <= 1
  BY <1>2, EmptySeq DEF FrameType
<1>6. stack'[t] = Destroying(x) \o fs
  BY <1>1, <1>2, <1>3, Resumed
<1> HIDE DEF x
<1> QED BY <1>1, <1>4, <1>5, <1>6, DestroyWalk

LEMMA DeviceStateDestroyWalk ==
    ASSUME Core, NEW t \in Reader, WalkOK(t), DeviceStateDestroy(t)
    PROVE  WalkOK(t)'
<1> DEFINE x == parent[Me(t).dev]
           fs == Rest(t)
<1>1. At(t, "destroy") /\ TypeOK /\ t \in Thread /\ StackOK(t) /\ stack[t] \in Seq(FrameType)
  BY DEF DeviceStateDestroy, Core, TypeOK, Thread
<1>2. stack[t] # <<>> /\ Me(t) \in FrameType /\ FrameOK(Me(t)) /\ Me(t).pc = "destroy"
      /\ stack[t][1] = Me(t)
  BY <1>1, MyFrame
<1>3. Resume(t, Destroying(x) \o fs) /\ UNCHANGED <<list, name, unseen>>
  BY DEF DeviceStateDestroy, DeviceStateDecRef
<1>4. x \in Pointer
  BY <1>1, <1>2 DEF FrameOK, TypeOK
<1>5. /\ Len(stack[t]) = Len(fs) + 1 /\ fs \in Seq(FrameType)
      /\ \A i \in 1 .. Len(fs) : fs[i] = stack[t][i + 1]
  BY <1>1, <1>2, CallStack DEF Sound
<1>6. WalkFrame(stack[t][Len(stack[t])], unseen[t], name, list) /\ (Len(stack[t]) = 1 \/ Len(stack[t]) = 2)
  BY <1>1, <1>2, WalkParts
<1>7. stack'[t] = Destroying(x) \o fs
  BY <1>1, <1>3, Resumed
<1>8. Len(fs) \in Nat /\ (fs = <<>> <=> Len(fs) = 0)
  BY <1>5, LenProperties, EmptySeq
<1> HIDE DEF fs, x
<1>9. CASE Len(stack[t]) = 1
  <2>1. fs = <<>> /\ Len(fs) <= 1
    BY <1>5, <1>8, <1>9
  <2>2. unseen'[t] = {}
    BY <1>2, <1>3, <1>6, <1>9 DEF WalkFrame, Walking
  <2> QED BY <1>1, <1>4, <1>5, <1>7, <2>1, <2>2, DestroyWalk
<1>10. CASE Len(stack[t]) = 2
  <2>1. Len(fs) = 1 /\ fs # <<>> /\ Len(fs) <= 1
    <3>1. Len(fs) + 1 = 2 /\ Len(fs) \in Nat
      BY <1>5, <1>8, <1>10
    <3>2. Len(fs) # 0 /\ Len(fs) <= 1
      BY <3>1
    <3> QED BY <1>8, <3>1, <3>2, AtMostOne
  <2>2. fs[1] = stack[t][2]
    BY <1>5, <2>1
  <2>3. WalkFrame(fs[1], unseen'[t], name', list')
    BY <1>3, <1>6, <1>10, <2>2
  <2> QED BY <1>1, <1>4, <1>5, <1>7, <2>1, <2>3, DestroyWalk
<1> QED BY <1>6, <1>9, <1>10

LEMMA OwnWalk ==
    ASSUME Core, NEW t \in Reader, WalkOK(t), Run(t)
    PROVE  WalkOK(t)'
<1>1. t \notin Pnp \cup Client
  BY ThreadAssumption
<1> QED BY <1>1, StartClassWalk, EnterUpdateWalk, NextDeviceWalk, DropWalk, DeviceStateDestroyWalk
     DEF Run

-----------------------------------------------------------------------------
(* What the steps of another thread leave alone. *)
LEMMA ResumeOther ==
    ASSUME TypeOK, NEW t \in Thread, NEW u \in Thread, t # u, NEW fs, Resume(u, fs)
    PROVE  stack'[t] = stack[t]
BY DEF TypeOK, Resume

LEMMA ChangeOther ==
    ASSUME Core, NEW t \in Reader, WalkOK(t), NEW u \in Thread, u # t, Change(u)
    PROVE  WalkOK(t)'
<1>1. t \in Thread /\ TypeOK
  BY DEF Core, Thread
<1>2. stack'[t] = stack[t]
  BY <1>1, ResumeOther DEF Change, FindDuplicate, DeviceStateAddList, ProbeDevice, Discard, FindDevice,
     Unlink, LeaveParent, DeviceStateDecRef, NextClass, VisitDevice, CheckChild, FindParent, FindChild,
     ReleaseDevice
<1>3. CASE DeviceStateAddList(u)
  BY <1>3, AddWalk
<1>4. CASE Discard(u) \/ Unlink(u)
  BY <1>2, <1>4, RemWalk DEF Discard, Unlink
<1>5. CASE FindDuplicate(u)
  <2>1. UNCHANGED <<list, unseen>>
    BY <1>5 DEF FindDuplicate
  <2>2. \A b \in alive : name'[b] = name[b]
    BY <1>1, <1>5 DEF FindDuplicate, blockVars, TypeOK
  <2> QED BY <1>2, <2>1, <2>2, QuietWalk DEF Quiet
<1>6. CASE \/ ProbeDevice(u) \/ FindDevice(u) \/ LeaveParent(u) \/ NextClass(u) \/ VisitDevice(u)
           \/ CheckChild(u) \/ FindParent(u) \/ FindChild(u) \/ ReleaseDevice(u)
  <2>1. UNCHANGED <<list, name, unseen>>
    BY <1>6 DEF ProbeDevice, FindDevice, LeaveParent, NextClass, VisitDevice, CheckChild, FindParent,
       FindChild, ReleaseDevice, blockVars
  <2> QED BY <1>2, <2>1, QuietWalk DEF Quiet
<1> QED BY <1>3, <1>4, <1>5, <1>6 DEF Change

LEMMA RunOther ==
    ASSUME Core, NEW t \in Reader, WalkOK(t), NEW u \in Thread, u # t, Run(u)
    PROVE  WalkOK(t)'
<1>1. t \in Thread /\ TypeOK
  BY DEF Core, Thread
<1>2. CASE Change(u)
  BY <1>2, ChangeOther
<1>3. CASE u \in Reader /\ (StartClass(u) \/ EnterUpdate(u) \/ NextDevice(u))
  <2>1. stack'[t] = stack[t]
    BY <1>1, <1>3, ResumeOther DEF StartClass, EnterUpdate, NextDevice
  <2>2. UNCHANGED <<list, name>> /\ unseen'[t] = unseen[t]
    BY <1>1, <1>3 DEF StartClass, EnterUpdate, NextDevice, blockVars, TypeOK
  <2> QED BY <2>1, <2>2, QuietWalk DEF Quiet
<1>4. CASE Drop(u) \/ DeviceStateDestroy(u)
  <2>1. stack'[t] = stack[t]
    BY <1>1, <1>4, ResumeOther DEF Drop, DeviceStateDestroy, DeviceStateDecRef
  <2>2. UNCHANGED <<list, name, unseen>>
    BY <1>4 DEF Drop, DeviceStateDestroy
  <2> QED BY <2>1, <2>2, QuietWalk DEF Quiet
<1> QED BY <1>2, <1>3, <1>4 DEF Run

LEMMA CallOther ==
    ASSUME Core, NEW t \in Reader, WalkOK(t), NEW u \in Thread, u # t, NEW f,
           Begin(u, f) \/ UNCHANGED stack, UNCHANGED <<list, name, unseen>>
    PROVE  WalkOK(t)'
<1>1. t \in Thread /\ TypeOK
  BY DEF Core, Thread
<1>2. stack'[t] = stack[t]
  BY <1>1, ResumeOther DEF Begin
<1> QED BY <1>2, QuietWalk DEF Quiet

LEMMA WalkStep ==
    ASSUME Core, [Next]_vars, NEW t \in Reader, WalkOK(t)
    PROVE  WalkOK(t)'
<1>1. t \in Thread /\ t \notin Pnp /\ t \notin Client /\ Pnp \subseteq Thread /\ Client \subseteq Thread
      /\ Reader \subseteq Thread
  BY ThreadAssumption DEF Thread
<1>2. CASE \E u \in Thread : Run(u)
  BY <1>2, OwnWalk, RunOther
<1>3. CASE \E u \in Pnp, n \in Name : ProcessPnPMsgQueue(u, n)
  BY <1>1, <1>3, CallOther DEF ProcessPnPMsgQueue, blockVars
<1>4. CASE \E u \in Client, n, p \in Name : PmRegisterPowerRelationship(u, n, p)
  BY <1>1, <1>4, CallOther DEF PmRegisterPowerRelationship, blockVars
<1>5. CASE \E u \in Client : PmReleasePowerRelationship(u)
  BY <1>1, <1>5, CallOther DEF PmReleasePowerRelationship
<1>6. CASE \E u \in Reader, n \in Name : PmGetDevicePower(u, n)
  <2>1. PICK u \in Reader, n \in Name : PmGetDevicePower(u, n)
    BY <1>6
  <2> DEFINE g == [Frame("drop", n) EXCEPT !.dev = Find(n)]
  <2>2. Begin(u, g) /\ UNCHANGED <<list, name, unseen>>
    BY <2>1 DEF PmGetDevicePower
  <2>3. CASE u # t
    BY <1>1, <2>2, <2>3, CallOther
  <2>4. CASE u = t
    <3>1. Find(n) \in Pointer
      BY FindListed, ListedBlocks DEF Core, Pointer
    <3>2. g \in FrameType /\ ~ Walking(g)
      BY <3>1 DEF FrameType, Frame, Pc, Pointer, Walking
    <3> QED BY <2>2, <2>4, <3>2, BeginWalk
  <2> QED BY <2>3, <2>4
<1>7. CASE \E u \in Reader : UpdateAllDeviceStates(u)
  <2>1. PICK u \in Reader : UpdateAllDeviceStates(u)
    BY <1>7
  <2> DEFINE g == [Frame("class", NoHandle.name) EXCEPT !.class = 1]
  <2>2. Begin(u, g) /\ UNCHANGED <<list, name, unseen>>
    BY <2>1 DEF UpdateAllDeviceStates, blockVars
  <2>3. CASE u # t
    BY <1>1, <2>2, <2>3, CallOther
  <2>4. CASE u = t
    <3>1. NoHandle.name \in Name
      BY NameOfNoHandle
    <3>2. g \in FrameType /\ ~ Walking(g)
      BY <3>1 DEF FrameType, Frame, Pc, Pointer, Walking
    <3> QED BY <2>2, <2>4, <3>2, BeginWalk
  <2> QED BY <2>3, <2>4
<1>8. CASE UNCHANGED vars
  BY <1>8, QuietWalk DEF Quiet, vars, blockVars
<1> QED BY <1>2, <1>3, <1>4, <1>5, <1>6, <1>7, <1>8 DEF Next

LEMMA InitWalk == Init => \A t \in Reader : WalkOK(t)
<1> SUFFICES ASSUME Init, NEW t \in Reader PROVE WalkOK(t)
  OBVIOUS
<1>1. stack[t] = <<>> /\ unseen[t] = {} /\ Len(stack[t]) = 0 /\ DOMAIN stack[t] = {}
  BY EmptySeq DEF Init, Thread
<1> QED BY <1>1 DEF WalkOK

LEMMA WalkDone == IInv => WalkMissesNobody
<1> SUFFICES ASSUME IInv, NEW t \in Reader, stack[t] = <<>> \/ At(t, "class")
             PROVE  unseen[t] = {}
  BY DEF WalkMissesNobody
<1>1. Core /\ WalkOK(t) /\ stack[t] \in Seq(FrameType)
  BY DEF IInv, Core, TypeOK, Thread
<1>2. CASE stack[t] = <<>>
  BY <1>1, <1>2, WalkParts
<1>3. CASE At(t, "class")
  <2>1. WalkFrame(Me(t), unseen[t], name, list) /\ Me(t).pc = "class"
    BY <1>1, <1>3, TopAlone
  <2> QED BY <2>1 DEF WalkFrame, Walking
<1> QED BY <1>2, <1>3

(***************************************************************************)
(* A walk over the devices of a class, which lets go of the lock while it  *)
(* updates each of them, has updated every device that stayed on the list  *)
(* when it is done, whatever other threads put on the list, or took off    *)
(* it, meanwhile; the device that the walk was at may be among them.       *)
(***************************************************************************)
THEOREM WalksMissNobody == Spec => []WalkMissesNobody
<1>1. Init => IInv
  BY InitCore, InitWalk DEF IInv
<1>2. IInv /\ [Next]_vars => IInv'
  <2> SUFFICES ASSUME IInv, [Next]_vars PROVE Core' /\ \A t \in Reader : WalkOK(t)'
    BY DEF IInv
  <2> QED BY CoreStep, WalkStep DEF IInv
<1> QED BY <1>1, <1>2, WalkDone, PTL DEF Spec

(***************************************************************************)
(* Every variable keeps its type.                                          *)
(***************************************************************************)
THEOREM TypeCorrect == Spec => []TypeOK
<1>1. Core => TypeOK
  BY DEF Core
<1> QED BY <1>1, InitCore, CoreStep, PTL DEF Spec

LEMMA AllAllocated == Core => HeldIsAllocated
<1> SUFFICES ASSUME Core PROVE HeldIsAllocated
  OBVIOUS
<1>1. TypeOK /\ Listed \subseteq Block
  BY ListedBlocks DEF Core
<1>2. Listed \subseteq alive
  BY <1>1, Claimed
<1>3. ASSUME NEW c \in alive PROVE parent[c] \in alive \cup {NoBlock}
  <2>1. parent[c] \in Block \cup {NoBlock}
    BY <1>1 DEF TypeOK, Pointer
  <2> QED BY <2>1, Claimed
<1>4. ASSUME NEW t \in Thread, NEW i \in DOMAIN stack[t], NEW b \in Block, Holds(stack[t][i], b)
      PROVE  b \in alive
  BY <1>4, Claimed
<1> QED BY <1>2, <1>3, <1>4 DEF HeldIsAllocated

(***************************************************************************)
(* Every device that is on a list, or the parent of an allocated device,   *)
(* or that a frame of some call holds, is allocated: DeviceStateDecRef     *)
(* frees a block only when nothing refers to it any more.                  *)
(***************************************************************************)
THEOREM NothingHeldIsFreed == Spec => []HeldIsAllocated
BY AllAllocated, InitCore, CoreStep, PTL DEF Spec
=============================================================================
