--------------------------- MODULE TempCacheProofs ---------------------------
(* Proofs about TempCache, for every set of user objects and every bound. *)
EXTENDS TempCache, SequenceTheorems, FiniteSetTheorems, WellFoundedInduction, TLAPS

Unavailable(c) == {i \in DOMAIN c : ~c[i].available}

\* d holds every object of c, with the kind and the contents it has in c.
Extends(c, d) == /\ DOMAIN c \subseteq DOMAIN d
                 /\ \A i \in DOMAIN c : d[i].kind = c[i].kind /\ d[i].data = c[i].data

-----------------------------------------------------------------------------
(* The operations of the cache *)

\* A non-empty set of slots has a least element.
LEMMA LeastSlot ==
  ASSUME NEW S \in SUBSET Nat, S # {}
  PROVE  \E i \in S : \A j \in S : i <= j
<1>1. \E x \in S : \A y \in S : ~ (<<y, x>> \in OpToRel(<, Nat))
  BY NatLessThanWellFounded, WFMin
<1>2. PICK x \in S : \A y \in S : ~ (<<y, x>> \in OpToRel(<, Nat))
  BY <1>1
<1>3. ASSUME NEW y \in S
      PROVE  x <= y
  <2>1. <<y, x>> \in Nat \X Nat
    OBVIOUS
  <2>2. ~ (y < x)
    BY <1>2, <2>1 DEF OpToRel
  <2> QED BY <2>1, <2>2
<1> QED BY <1>3

\* getTmp returns one slot that was free or new, marks it and changes no other.
LEMMA GetTmpFacts ==
  ASSUME NEW c \in Seq(Object), NEW k \in Kinds
  PROVE  /\ GetTmp(c, k) \in Seq(Object)
         /\ Slot(c, k) \in DOMAIN GetTmp(c, k)
         /\ Slot(c, k) \notin Unavailable(c)
         /\ Unavailable(GetTmp(c, k)) = Unavailable(c) \cup {Slot(c, k)}
         /\ Extends(c, GetTmp(c, k))
         /\ k.type # "array" => GetTmp(c, k)[Slot(c, k)].kind = k
<1> DEFINE new == [kind |-> k, available |-> FALSE, data |-> Zero]
           s == Slot(c, k)
           d == GetTmp(c, k)
<1>1. new \in Object
  BY DataAssumption DEF Object
<1>2. DOMAIN c = 1 .. Len(c) /\ Len(c) \in Nat /\ \A i \in DOMAIN c : c[i] \in Object
  BY LenProperties
<1>3. CASE Candidates(c, k) = {}
  <2>1. s = Len(c) + 1 /\ d = Append(c, new)
    BY <1>3 DEF Slot, GetTmp
  <2>2. /\ d \in Seq(Object)
        /\ DOMAIN d = 1 .. Len(c) + 1
        /\ \A i \in DOMAIN c : d[i] = c[i]
        /\ d[s] = new
    BY <1>1, <1>2, <2>1, AppendProperties, LenProperties
  <2> QED BY <1>2, <2>1, <2>2 DEF Unavailable, Extends
<1>4. CASE Candidates(c, k) # {}
  <2>0. Candidates(c, k) \in SUBSET Nat
    BY <1>2 DEF Candidates
  <2>1. s \in Candidates(c, k)
    BY <1>4, <2>0, LeastSlot DEF Slot
  <2>2. /\ s \in DOMAIN c
        /\ c[s].available
        /\ k.type # "array" => c[s].kind.type = k.type /\ c[s].kind.rows = k.rows
                               /\ c[s].kind.cols = k.cols
    BY <2>1 DEF Candidates, Fits
  <2>3. k.type # "array" => c[s].kind = k
    <3>1. c[s].kind \in Kinds
      BY <1>2, <2>2 DEF Object
    <3>2. \A a, b \in Kinds : a.type = b.type /\ a.rows = b.rows /\ a.cols = b.cols => a = b
      BY DEF Kinds
    <3> QED BY <2>2, <3>1, <3>2
  <2>4. d = [c EXCEPT ![s] = [c[s] EXCEPT !.available = FALSE]]
    BY <1>4 DEF GetTmp
  <2>5. [c[s] EXCEPT !.available = FALSE] \in Object
    BY <1>2, <2>2 DEF Object
  <2>6. /\ d \in Seq(Object)
        /\ DOMAIN d = DOMAIN c
        /\ \A i \in DOMAIN c : i # s => d[i] = c[i]
        /\ d[s] = [c[s] EXCEPT !.available = FALSE]
    BY <1>2, <2>2, <2>4, <2>5, ExceptSeq, LenProperties
  <2>7. /\ ~d[s].available
        /\ d[s].kind = c[s].kind
        /\ d[s].data = c[s].data
    BY <1>2, <2>2, <2>6 DEF Object
  <2> QED BY <2>2, <2>3, <2>6, <2>7 DEF Unavailable, Extends
<1> QED BY <1>3, <1>4

\* releaseTmp frees the temporaries it is given and changes nothing else.
LEMMA ReleaseFacts ==
  ASSUME NEW c \in Seq(Object), NEW S
  PROVE  /\ Release(c, S) \in Seq(Object)
         /\ DOMAIN Release(c, S) = DOMAIN c
         /\ Unavailable(Release(c, S)) = Unavailable(c) \ S
         /\ Extends(c, Release(c, S))
<1>1. DOMAIN c = 1 .. Len(c) /\ Len(c) \in Nat /\ \A i \in DOMAIN c : c[i] \in Object
  BY LenProperties
<1>2. \A o \in Object : /\ [o EXCEPT !.available = TRUE] \in Object
                        /\ [o EXCEPT !.available = TRUE].available
                        /\ [o EXCEPT !.available = TRUE].kind = o.kind
                        /\ [o EXCEPT !.available = TRUE].data = o.data
  BY DEF Object
<1>3. \A i \in DOMAIN c : Release(c, S)[i] =
         IF i \in S THEN [c[i] EXCEPT !.available = TRUE] ELSE c[i]
  BY DEF Release
<1>4. Release(c, S) \in [1 .. Len(c) -> Object] /\ DOMAIN Release(c, S) = DOMAIN c
  BY <1>1, <1>2 DEF Release
<1>5. Release(c, S) \in Seq(Object)
  BY <1>1, <1>4, SeqDef
<1>6. \A i \in DOMAIN c : /\ Release(c, S)[i].available <=> i \in S \/ c[i].available
                          /\ Release(c, S)[i].kind = c[i].kind
                          /\ Release(c, S)[i].data = c[i].data
  BY <1>1, <1>2, <1>3
<1> QED BY <1>4, <1>5, <1>6 DEF Unavailable, Extends

\* Writing into an object changes its contents and nothing else.
LEMMA StoreFacts ==
  ASSUME NEW c \in Seq(Object), NEW i \in DOMAIN c, NEW x \in Data
  PROVE  /\ Store(c, i, x) \in Seq(Object)
         /\ DOMAIN Store(c, i, x) = DOMAIN c
         /\ Unavailable(Store(c, i, x)) = Unavailable(c)
         /\ Store(c, i, x)[i].data = x
         /\ Store(c, i, x)[i].kind = c[i].kind
         /\ \A j \in DOMAIN c : j # i => Store(c, i, x)[j] = c[j]
<1>1. DOMAIN c = 1 .. Len(c) /\ Len(c) \in Nat /\ \A j \in DOMAIN c : c[j] \in Object
  BY LenProperties
<1>2. /\ [c[i] EXCEPT !.data = x] \in Object
      /\ [c[i] EXCEPT !.data = x].available = c[i].available
      /\ [c[i] EXCEPT !.data = x].kind = c[i].kind
      /\ [c[i] EXCEPT !.data = x].data = x
  BY <1>1 DEF Object
<1>3. /\ Store(c, i, x) \in Seq(Object)
      /\ DOMAIN Store(c, i, x) = DOMAIN c
      /\ Store(c, i, x)[i] = [c[i] EXCEPT !.data = x]
      /\ \A j \in DOMAIN c : j # i => Store(c, i, x)[j] = c[j]
  BY <1>1, <1>2, ExceptSeq, LenProperties DEF Store
<1> QED BY <1>2, <1>3 DEF Unavailable

\* What an operator that yields a temporary leaves of the cache.
LEMMA YieldFacts ==
  ASSUME NEW c \in Seq(Object), NEW k \in Kinds, NEW x \in Data, NEW S,
         NEW r, r = Release(Store(GetTmp(c, k), Slot(c, k), x), S)
  PROVE  /\ r \in Seq(Object)
         /\ Slot(c, k) \in DOMAIN r
         /\ Slot(c, k) \notin Unavailable(c)
         /\ DOMAIN c \subseteq DOMAIN r
         /\ Unavailable(r) = (Unavailable(c) \cup {Slot(c, k)}) \ S
         /\ \A i \in DOMAIN c : i # Slot(c, k) =>
               r[i].kind = c[i].kind /\ r[i].data = c[i].data
         /\ r[Slot(c, k)].data = x
         /\ k.type # "array" => r[Slot(c, k)].kind = k
<1> DEFINE i == Slot(c, k)
           g == GetTmp(c, k)
           h == Store(g, i, x)
<1>1. /\ g \in Seq(Object) /\ i \in DOMAIN g /\ i \notin Unavailable(c)
      /\ Unavailable(g) = Unavailable(c) \cup {i} /\ Extends(c, g)
      /\ k.type # "array" => g[i].kind = k
  BY GetTmpFacts
<1>2. /\ h \in Seq(Object) /\ DOMAIN h = DOMAIN g
      /\ Unavailable(h) = Unavailable(g)
      /\ h[i].data = x /\ h[i].kind = g[i].kind
      /\ \A j \in DOMAIN g : j # i => h[j] = g[j]
  BY <1>1, StoreFacts
<1>3. /\ r \in Seq(Object) /\ DOMAIN r = DOMAIN h
      /\ Unavailable(r) = Unavailable(h) \ S /\ Extends(h, r)
  BY <1>2, ReleaseFacts
<1> QED BY <1>1, <1>2, <1>3 DEF Extends

LEMMA ExtendsTransitive ==
  ASSUME NEW c, NEW d, NEW e, Extends(c, d), Extends(d, e)
  PROVE  Extends(c, e)
BY DEF Extends

\* The scratch objects of an inversion are taken, all of them from what is free.
LEMMA ScratchFacts ==
  ASSUME NEW c \in Seq(Object), NEW n \in Nat
  PROVE  /\ GetScratch(c, n) \in Seq(Object)
         /\ ScratchSlots(c, n) \cap Unavailable(c) = {}
         /\ Unavailable(GetScratch(c, n)) = Unavailable(c) \cup ScratchSlots(c, n)
         /\ Extends(c, GetScratch(c, n))
<1>1. Mat(n, n) \in Kinds /\ Arr(n) \in Kinds
  BY DEF Mat, Arr, Kinds, Types
<1>2. /\ Scratch1(c, n) \in Seq(Object)
      /\ Slot(c, Mat(n, n)) \notin Unavailable(c)
      /\ Unavailable(Scratch1(c, n)) = Unavailable(c) \cup {Slot(c, Mat(n, n))}
      /\ Extends(c, Scratch1(c, n))
  BY <1>1, GetTmpFacts DEF Scratch1
<1>3. /\ Scratch2(c, n) \in Seq(Object)
      /\ Slot(Scratch1(c, n), Arr(n)) \notin Unavailable(Scratch1(c, n))
      /\ Unavailable(Scratch2(c, n))
           = Unavailable(Scratch1(c, n)) \cup {Slot(Scratch1(c, n), Arr(n))}
      /\ Extends(Scratch1(c, n), Scratch2(c, n))
  BY <1>1, <1>2, GetTmpFacts DEF Scratch2
<1>4. /\ Scratch3(c, n) \in Seq(Object)
      /\ Slot(Scratch2(c, n), Arr(n)) \notin Unavailable(Scratch2(c, n))
      /\ Unavailable(Scratch3(c, n))
           = Unavailable(Scratch2(c, n)) \cup {Slot(Scratch2(c, n), Arr(n))}
      /\ Extends(Scratch2(c, n), Scratch3(c, n))
  BY <1>1, <1>3, GetTmpFacts DEF Scratch3
<1>5. /\ GetScratch(c, n) \in Seq(Object)
      /\ Slot(Scratch3(c, n), Arr(n)) \notin Unavailable(Scratch3(c, n))
      /\ Unavailable(GetScratch(c, n))
           = Unavailable(Scratch3(c, n)) \cup {Slot(Scratch3(c, n), Arr(n))}
      /\ Extends(Scratch3(c, n), GetScratch(c, n))
  BY <1>1, <1>4, GetTmpFacts DEF GetScratch
<1>6. Extends(c, GetScratch(c, n))
  BY <1>2, <1>3, <1>4, <1>5, ExtendsTransitive
<1> QED BY <1>2, <1>3, <1>4, <1>5, <1>6 DEF ScratchSlots

-----------------------------------------------------------------------------
(* The stack of operands *)

LiveIn(s) == {s[i] : i \in DOMAIN s} \ Names
Distinct(s) == \A i, j \in DOMAIN s : s[i] = s[j] /\ s[i] \notin Names => i = j
Popped(s, n) == SubSeq(s, 1, Len(s) - n)
Dropped(s, n) == {s[i] : i \in (Len(s) - n + 1) .. Len(s)} \ Names

\* The invariant, for any cache, stack and set of lost slots.
Good(c, s, l) == /\ c \in Seq(Object)
                 /\ s \in Seq(Names \cup DOMAIN c)
                 /\ l \subseteq DOMAIN c
                 /\ Distinct(s)
                 /\ Unavailable(c) = LiveIn(s) \cup l
                 /\ LiveIn(s) \cap l = {}

\* Popping keeps the bottom of the stack.
LEMMA PoppedFacts ==
  ASSUME NEW T, NEW s \in Seq(T), NEW n \in Nat, n <= Len(s)
  PROVE  /\ Popped(s, n) \in Seq(T)
         /\ Len(Popped(s, n)) = Len(s) - n
         /\ \A i \in 1 .. Len(s) - n : Popped(s, n)[i] = s[i]
<1> DEFINE m == Len(s) - n
<1>1. Len(s) \in Nat /\ m \in Nat /\ m <= Len(s)
  BY LenProperties
<1>2. \A i \in 1 .. m : s[i] \in T
  BY <1>1, ElementOfSeq
<1>3. /\ SubSeq(s, 1, m) \in Seq(T)
      /\ Len(SubSeq(s, 1, m)) = IF 1 <= m THEN m - 1 + 1 ELSE 0
      /\ \A i \in 1 .. m - 1 + 1 : SubSeq(s, 1, m)[i] = s[1 + i - 1]
  BY <1>1, <1>2, SubSeqProperties
<1>4. m - 1 + 1 = m /\ (IF 1 <= m THEN m - 1 + 1 ELSE 0) = m
  <2>1. \A z \in Nat : z - 1 + 1 = z /\ (IF 1 <= z THEN z - 1 + 1 ELSE 0) = z
    OBVIOUS
  <2> QED BY <1>1, <2>1
<1>5. \A i \in 1 .. m : 1 + i - 1 = i
  BY <1>1
<1> QED BY <1>3, <1>4, <1>5 DEF Popped

\* Popping splits the live slots into those kept and those dropped.
LEMMA PopFacts ==
  ASSUME NEW T, NEW s \in Seq(T), Distinct(s), NEW n \in Nat, n <= Len(s)
  PROVE  /\ Popped(s, n) \in Seq(T)
         /\ Len(Popped(s, n)) = Len(s) - n
         /\ \A i \in 1 .. Len(s) - n : Popped(s, n)[i] = s[i]
         /\ Distinct(Popped(s, n))
         /\ LiveIn(s) = LiveIn(Popped(s, n)) \cup Dropped(s, n)
         /\ LiveIn(Popped(s, n)) \cap Dropped(s, n) = {}
<1> DEFINE p == Popped(s, n)
           m == Len(s) - n
<1>1. DOMAIN s = 1 .. Len(s) /\ Len(s) \in Nat /\ m \in Nat /\ m <= Len(s)
  BY LenProperties
<1>3. /\ p \in Seq(T)
      /\ Len(p) = m
      /\ \A i \in 1 .. m : p[i] = s[i]
  BY PoppedFacts
<1>4. DOMAIN p = 1 .. m
  BY <1>3, LenProperties
<1>5. LiveIn(p) = {s[i] : i \in 1 .. m} \ Names
  BY <1>3, <1>4 DEF LiveIn
<1>6. Distinct(p)
  BY <1>1, <1>3, <1>4 DEF Distinct
<1>7. LiveIn(s) = LiveIn(p) \cup Dropped(s, n)
  <2>1. 1 .. Len(s) = (1 .. m) \cup ((m + 1) .. Len(s))
    BY <1>1
  <2>2. LiveIn(s) = {s[i] : i \in 1 .. Len(s)} \ Names
    BY <1>1 DEF LiveIn
  <2>3. Dropped(s, n) = {s[i] : i \in (m + 1) .. Len(s)} \ Names
    BY DEF Dropped
  <2> HIDE DEF m
  <2> QED BY <1>5, <2>1, <2>2, <2>3
<1>8. LiveIn(p) \cap Dropped(s, n) = {}
  BY <1>1, <1>5 DEF Distinct, Dropped
<1> QED BY <1>3, <1>6, <1>7, <1>8

\* Pushing an operand that is not live keeps operands distinct.
LEMMA PushFacts ==
  ASSUME NEW T, NEW s \in Seq(T), Distinct(s), NEW x \in T, x \notin LiveIn(s)
  PROVE  /\ Append(s, x) \in Seq(T)
         /\ Distinct(Append(s, x))
         /\ LiveIn(Append(s, x)) = LiveIn(s) \cup ({x} \ Names)
<1> DEFINE q == Append(s, x)
<1>1. DOMAIN s = 1 .. Len(s) /\ Len(s) \in Nat
  BY LenProperties
<1>2. /\ q \in Seq(T)
      /\ Len(q) = Len(s) + 1
      /\ \A i \in 1 .. Len(s) : q[i] = s[i]
      /\ q[Len(s) + 1] = x
  BY AppendProperties
<1>3. DOMAIN q = (1 .. Len(s)) \cup {Len(s) + 1}
  BY <1>1, <1>2, LenProperties
<1>4. \A i \in 1 .. Len(s) : s[i] \in Names \/ s[i] # x
  BY <1>1 DEF LiveIn
<1>5. Distinct(q)
  BY <1>1, <1>2, <1>3, <1>4 DEF Distinct
<1>6. LiveIn(q) = LiveIn(s) \cup ({x} \ Names)
  BY <1>1, <1>2, <1>3 DEF LiveIn
<1> QED BY <1>2, <1>5, <1>6

LEMMA DroppedFacts ==
  ASSUME NEW s, Len(s) \in Nat
  PROVE  /\ Len(s) >= 1 => Dropped(s, 1) = {s[Len(s)]} \ Names
         /\ Len(s) >= 2 => Dropped(s, 2) = {s[Len(s) - 1], s[Len(s)]} \ Names
<1>1. (Len(s) - 1 + 1) .. Len(s) = {Len(s)}
  OBVIOUS
<1>2. (Len(s) - 2 + 1) .. Len(s) = {Len(s) - 1, Len(s)}
  OBVIOUS
<1> QED BY <1>1, <1>2 DEF Dropped

-----------------------------------------------------------------------------
(* The three ways an operator moves the invariant along *)

\* A slot is never a user object.
LEMMA SlotsAreNotNames ==
  ASSUME NEW c \in Seq(Object)
  PROVE  DOMAIN c \cap Names = {}
BY ClientAssumption, LenProperties

\* The topmost n operands give way to a new temporary; those in S are released
\* and the rest are lost.
LEMMA YieldMove ==
  ASSUME NEW c, NEW s, NEW l, Good(c, s, l),
         NEW k \in Kinds, NEW x \in Data, NEW n \in Nat, n <= Len(s),
         NEW S, S \ Names \subseteq Dropped(s, n),
         NEW r, r = Release(Store(GetTmp(c, k), Slot(c, k), x), S),
         NEW t, t = Append(Popped(s, n), Slot(c, k))
  PROVE  Good(r, t, l \cup (Dropped(s, n) \ S))
<1> DEFINE i == Slot(c, k)
           p == Popped(s, n)
           T == Names \cup DOMAIN r
<1>1. /\ r \in Seq(Object) /\ i \in DOMAIN r /\ i \notin Unavailable(c)
      /\ DOMAIN c \subseteq DOMAIN r
      /\ Unavailable(r) = (Unavailable(c) \cup {i}) \ S
  BY YieldFacts DEF Good
<1>2. /\ p \in Seq(Names \cup DOMAIN c) /\ Distinct(p)
      /\ LiveIn(s) = LiveIn(p) \cup Dropped(s, n)
      /\ LiveIn(p) \cap Dropped(s, n) = {}
  BY PopFacts DEF Good
<1>3. p \in Seq(T)
  BY <1>1, <1>2, SeqMonotonic
<1>4. i \notin Names /\ Unavailable(c) \cap Names = {} /\ i \notin LiveIn(p)
  BY <1>1, <1>2, SlotsAreNotNames DEF Good, Unavailable
<1>5. t \in Seq(T) /\ Distinct(t) /\ LiveIn(t) = LiveIn(p) \cup {i}
  BY <1>1, <1>2, <1>3, <1>4, PushFacts
<1>6. Unavailable(r) = LiveIn(t) \cup l \cup (Dropped(s, n) \ S)
  BY <1>1, <1>2, <1>4, <1>5 DEF Good
<1>7. l \cup (Dropped(s, n) \ S) \subseteq DOMAIN r
  BY <1>6 DEF Unavailable
<1>8. LiveIn(t) \cap (l \cup (Dropped(s, n) \ S)) = {}
  BY <1>1, <1>2, <1>5 DEF Good
<1> QED BY <1>1, <1>5, <1>6, <1>7, <1>8 DEF Good

\* An exception empties the stack and everything it held is lost.
LEMMA ThrowMove ==
  ASSUME NEW c, NEW s, NEW l, Good(c, s, l),
         NEW d \in Seq(Object), NEW S, Unavailable(d) = Unavailable(c) \cup S
  PROVE  Good(d, <<>>, l \cup LiveIn(s) \cup S)
<1>1. <<>> \in Seq(Names \cup DOMAIN d) /\ Distinct(<<>>) /\ LiveIn(<<>>) = {}
  BY EmptySeq DEF Distinct, LiveIn
<1>2. Unavailable(d) = l \cup LiveIn(s) \cup S
  BY DEF Good
<1>3. l \cup LiveIn(s) \cup S \subseteq DOMAIN d
  BY <1>2 DEF Unavailable
<1> QED BY <1>1, <1>2, <1>3 DEF Good

\* The topmost n operands are consumed and released.
LEMMA ReleaseMove ==
  ASSUME NEW c, NEW s, NEW l, Good(c, s, l), NEW n \in Nat, n <= Len(s),
         NEW S, S \ Names = Dropped(s, n)
  PROVE  Good(Release(c, S), Popped(s, n), l)
<1> DEFINE r == Release(c, S)
           p == Popped(s, n)
<1>1. /\ r \in Seq(Object) /\ DOMAIN r = DOMAIN c
      /\ Unavailable(r) = Unavailable(c) \ S
  BY ReleaseFacts DEF Good
<1>2. /\ p \in Seq(Names \cup DOMAIN c) /\ Distinct(p)
      /\ LiveIn(s) = LiveIn(p) \cup Dropped(s, n)
      /\ LiveIn(p) \cap Dropped(s, n) = {}
  BY PopFacts DEF Good
<1>3. Unavailable(c) \cap Names = {}
  BY SlotsAreNotNames DEF Good, Unavailable
<1>4. Unavailable(r) = LiveIn(p) \cup l
  BY <1>1, <1>2, <1>3 DEF Good
<1> QED BY <1>1, <1>2, <1>4 DEF Good

-----------------------------------------------------------------------------
(* The invariant *)

CacheInv == TypeOK /\ Safety

LEMMA InvIsGood == CacheInv <=> Good(cache, stack, lost) /\ user \in [Names -> Data]
<1>1. stack \in Seq(Names \cup DOMAIN cache) => Live \subseteq DOMAIN cache
  <2>1. ASSUME stack \in Seq(Names \cup DOMAIN cache)
        PROVE  \A i \in DOMAIN stack : stack[i] \in Names \cup DOMAIN cache
    BY <2>1, ElementOfSeq, LenProperties
  <2> QED BY <2>1 DEF Live, Temps
<1> QED BY <1>1 DEF CacheInv, TypeOK, Safety, NoAliasing, Balanced, LostIsDead, Good, Distinct,
                   LiveIn, Live, Temps, Unavailable

LEMMA InvIsGoodNext == CacheInv' <=> Good(cache', stack', lost') /\ user' \in [Names -> Data]
<1>1. stack' \in Seq(Names \cup DOMAIN cache') => Live' \subseteq DOMAIN cache'
  <2>1. ASSUME stack' \in Seq(Names \cup DOMAIN cache')
        PROVE  \A i \in DOMAIN stack' : stack'[i] \in Names \cup DOMAIN cache'
    BY <2>1, ElementOfSeq, LenProperties
  <2> QED BY <2>1 DEF Live, Temps
<1> QED BY <1>1 DEF CacheInv, TypeOK, Safety, NoAliasing, Balanced, LostIsDead, Good, Distinct,
                   LiveIn, Live, Temps, Unavailable

LEMMA StackLength ==
  ASSUME CacheInv
  PROVE  Len(stack) \in Nat /\ (stack # <<>> <=> Len(stack) >= 1)
BY EmptySeq, LenProperties DEF CacheInv, TypeOK

\* What the operands of the next operator are.
LEMMA OperandFacts ==
  ASSUME CacheInv, stack # <<>>
  PROVE  /\ Len(stack) \in Nat /\ Len(stack) >= 1
         /\ Top \in Names \cup DOMAIN cache
         /\ Kind(Top) \in Kinds /\ Datum(Top) \in Data
         /\ Len(stack) >= 2 => /\ Second \in Names \cup DOMAIN cache
                               /\ Kind(Second) \in Kinds /\ Datum(Second) \in Data
<1>1. Len(stack) \in Nat /\ Len(stack) >= 1
  BY EmptySeq, LenProperties DEF CacheInv, TypeOK
<1>2. ASSUME NEW x \in Names \cup DOMAIN cache
      PROVE  Kind(x) \in Kinds /\ Datum(x) \in Data
  <2>1. x \notin Names => cache[x] \in Object
    BY ElementOfSeq, LenProperties DEF CacheInv, TypeOK
  <2> QED BY <2>1, ClientAssumption DEF CacheInv, TypeOK, Kind, Datum, Object
<1>3. \A i \in 1 .. Len(stack) : stack[i] \in Names \cup DOMAIN cache
  BY ElementOfSeq DEF CacheInv, TypeOK
<1>4. Top \in Names \cup DOMAIN cache
  BY <1>1, <1>3 DEF Top
<1>5. Len(stack) >= 2 => Second \in Names \cup DOMAIN cache
  BY <1>1, <1>3 DEF Second
<1> QED BY <1>1, <1>2, <1>4, <1>5

LEMMA KindFacts ==
  /\ \A r, c \in Nat : Mat(r, c) \in Kinds /\ Mat(r, c).type # "array"
  /\ Quat \in Kinds
  /\ \A op \in BinOps, k, l \in Kinds : ResultKind(op, k, l) \in Kinds
  /\ \A k \in Kinds : k.rows \in Nat /\ k.cols \in Nat
BY DEF Mat, Quat, Kinds, Types, ResultKind, BinOps

\* Yield, Throw and consumption in the terms of the moves above.
LEMMA YieldStep ==
  ASSUME CacheInv, NEW n \in 0 .. Len(stack), NEW k \in Kinds, NEW x \in Data, NEW S,
         S \ Names \subseteq Dropped(stack, n), Yield(n, k, x, S),
         lost' = lost \cup (Dropped(stack, n) \ S), user' \in [Names -> Data]
  PROVE  CacheInv'
<1>1. Good(cache, stack, lost) /\ Len(stack) \in Nat
  BY InvIsGood, LenProperties DEF CacheInv, TypeOK
<1>2. /\ cache' = Release(Store(GetTmp(cache, k), Slot(cache, k), x), S)
      /\ stack' = Append(Popped(stack, n), Slot(cache, k))
  BY DEF Yield, Push, Pop, Popped
<1>3. n \in Nat /\ n <= Len(stack)
  BY <1>1
<1>4. Good(cache', stack', lost \cup (Dropped(stack, n) \ S))
  BY <1>1, <1>2, <1>3, YieldMove
<1> QED BY <1>4, InvIsGoodNext

LEMMA ThrowStep ==
  ASSUME CacheInv, NEW c \in Seq(Object), NEW S, Unavailable(c) = Unavailable(cache) \cup S,
         Throw(c, S), user' \in [Names -> Data]
  PROVE  CacheInv'
<1>1. Good(cache, stack, lost) /\ Live = LiveIn(stack)
  BY InvIsGood DEF Live, LiveIn, Temps
<1>2. Good(c, <<>>, lost \cup LiveIn(stack) \cup S)
  BY <1>1, ThrowMove
<1> QED BY <1>1, <1>2, InvIsGoodNext DEF Throw

LEMMA PlainThrow ==
  ASSUME CacheInv, Throw(cache, {}), user' \in [Names -> Data]
  PROVE  CacheInv'
BY ThrowStep DEF CacheInv, TypeOK

LEMMA FinishStep ==
  ASSUME CacheInv, NEW n \in Names, NEW x \in Data, Len(stack) = 1, Finish(n, x)
  PROVE  CacheInv'
<1>1. Good(cache, stack, lost) /\ user \in [Names -> Data]
  BY InvIsGood
<1>2. Dropped(stack, 1) = {Top} \ Names /\ 1 <= Len(stack)
  BY DroppedFacts DEF Top
<1>3. Good(Release(cache, {Top}), Popped(stack, 1), lost)
  BY <1>1, <1>2, ReleaseMove
<1>4. Popped(stack, 1) = <<>>
  BY SubSeqEmpty DEF Popped
<1> QED BY <1>1, <1>3, <1>4, InvIsGoodNext DEF Finish

\* The same for an unfinished expression that is only printed.
LEMMA PrintStep ==
  ASSUME CacheInv, PrintOut
  PROVE  CacheInv'
<1>1. Good(cache, stack, lost) /\ user \in [Names -> Data]
  BY InvIsGood
<1>2. Dropped(stack, 1) = {Top} \ Names /\ 1 <= Len(stack)
  BY DroppedFacts DEF Top, PrintOut
<1>3. Good(Release(cache, {Top}), Popped(stack, 1), lost)
  BY <1>1, <1>2, ReleaseMove DEF PrintOut
<1>4. Popped(stack, 1) = <<>>
  BY SubSeqEmpty DEF Popped, PrintOut
<1> QED BY <1>1, <1>3, <1>4, InvIsGoodNext DEF PrintOut

LEMMA DotStep ==
  ASSUME CacheInv, Dot
  PROVE  CacheInv'
<1>1. Good(cache, stack, lost) /\ user' \in [Names -> Data] /\ Len(stack) \in Nat
  BY InvIsGood, LenProperties DEF Dot, CacheInv, TypeOK
<1>2. CASE Throw(cache, {})
  BY <1>1, <1>2, PlainThrow
<1>3. CASE cache' = Release(cache, {Second, Top}) /\ stack' = Pop(2) /\ lost' = lost
  <2>1. {Second, Top} \ Names = Dropped(stack, 2)
    BY <1>1, DroppedFacts DEF Top, Second, Dot
  <2>2. Good(Release(cache, {Second, Top}), Popped(stack, 2), lost)
    BY <1>1, <2>1, ReleaseMove DEF Dot
  <2> QED BY <1>1, <1>3, <2>2, InvIsGoodNext DEF Pop, Popped
<1> QED BY <1>2, <1>3 DEF Dot

\* A user object is pushed: the cache is not touched.
LEMMA UseStep ==
  ASSUME CacheInv, NEW n \in Names, Use(n)
  PROVE  CacheInv'
<1> DEFINE T == Names \cup DOMAIN cache
<1>1. Good(cache, stack, lost) /\ user' \in [Names -> Data] /\ Len(stack) \in Nat
  BY InvIsGood, LenProperties DEF Use, CacheInv, TypeOK
<1>2. Popped(stack, 0) = stack
  BY <1>1, SubSeqFull DEF Popped, Good
<1>3. n \notin LiveIn(stack)
  BY DEF LiveIn
<1>4. stack \in Seq(T) /\ Distinct(stack) /\ n \in T
  BY <1>1 DEF Good
<1>5. /\ Append(stack, n) \in Seq(T) /\ Distinct(Append(stack, n))
      /\ LiveIn(Append(stack, n)) = LiveIn(stack) \cup ({n} \ Names)
  BY <1>3, <1>4, PushFacts
<1>6. stack' = Append(stack, n) /\ cache' = cache /\ lost' = lost
  BY <1>2 DEF Use, Push, Pop, Popped
<1>7. Good(cache, Append(stack, n), lost)
  BY <1>1, <1>5 DEF Good
<1> QED BY <1>1, <1>6, <1>7, InvIsGoodNext

LEMMA MakeStep ==
  ASSUME CacheInv, NEW r \in Dims, NEW c \in Dims, NEW d \in Data, Make(r, c, d)
  PROVE  CacheInv'
<1>1. Mat(r, c) \in Kinds
  BY ClientAssumption, KindFacts
<1>2. Dropped(stack, 0) = {} /\ 0 \in 0 .. Len(stack)
  BY LenProperties DEF Dropped, CacheInv, TypeOK
<1>3. user' \in [Names -> Data]
  BY DEF Make, CacheInv, TypeOK
<1> QED BY <1>1, <1>2, <1>3, YieldStep DEF Make

LEMMA SkewStep ==
  ASSUME CacheInv, NEW n \in Dims, NEW d \in Data, Skew(n, d)
  PROVE  CacheInv'
<1> DEFINE k == Mat(n, n)
<1>1. k \in Kinds
  BY ClientAssumption, KindFacts
<1>2. Dropped(stack, 0) = {} /\ 0 \in 0 .. Len(stack)
  BY LenProperties DEF Dropped, CacheInv, TypeOK
<1>3. user' \in [Names -> Data]
  BY DEF Skew, CacheInv, TypeOK
<1>4. CASE n \in {3, 4}
  <2>1. Yield(0, k, d, {}) /\ lost' = lost
    BY <1>4 DEF Skew
  <2> QED BY <1>1, <1>2, <1>3, <2>1, YieldStep
<1>5. CASE n \notin {3, 4}
  <2>1. Throw(GetTmp(cache, k), {Slot(cache, k)})
    BY <1>5 DEF Skew
  <2>2. /\ GetTmp(cache, k) \in Seq(Object)
        /\ Unavailable(GetTmp(cache, k)) = Unavailable(cache) \cup {Slot(cache, k)}
    BY <1>1, GetTmpFacts DEF CacheInv, TypeOK
  <2> QED BY <1>3, <2>1, <2>2, ThrowStep
<1> QED BY <1>4, <1>5

LEMMA BinaryStep ==
  ASSUME CacheInv, NEW op \in BinOps, Binary(op)
  PROVE  CacheInv'
<1> DEFINE k == ResultKind(op, Kind(Second), Kind(Top))
           x == Combine[op, Datum(Second), Datum(Top)]
<1>1. stack # <<>> /\ Len(stack) >= 2 /\ Len(stack) \in Nat
  <2>1. Len(stack) >= 2
    BY Zenon DEF Binary
  <2> QED BY <2>1, StackLength
<1>2. k \in Kinds /\ x \in Data
  BY <1>1, OperandFacts, KindFacts, DataAssumption
<1>3. user' \in [Names -> Data]
  BY DEF Binary, CacheInv, TypeOK
<1>4. {Second, Top} \ Names = Dropped(stack, 2) /\ 2 \in 0 .. Len(stack)
  BY <1>1, DroppedFacts DEF Top, Second
<1>5. CASE Throw(cache, {})
  BY <1>3, <1>5, PlainThrow
<1>6. CASE Yield(2, k, x, {Second, Top}) /\ lost' = lost
  <2>1. Dropped(stack, 2) \ {Second, Top} = {}
    BY <1>4
  <2> QED BY <1>2, <1>3, <1>4, <1>6, <2>1, YieldStep
<1> QED BY <1>5, <1>6 DEF Binary

\* Operators on one operand: Scale releases it, trans() and conj() forget it.
LEMMA UnaryStep ==
  ASSUME CacheInv, stack # <<>>, NEW k \in Kinds, NEW x \in Data, NEW S,
         S = {} \/ S = {Top}, Yield(1, k, x, S),
         lost' = lost \cup (Temps({Top}) \ S), user' = user
  PROVE  CacheInv'
<1>1. Len(stack) >= 1 /\ Len(stack) \in Nat /\ 1 \in 0 .. Len(stack)
  BY OperandFacts
<1>2. Dropped(stack, 1) = Temps({Top})
  BY <1>1, DroppedFacts DEF Top, Temps
<1>3. S \ Names \subseteq Dropped(stack, 1)
  BY <1>2 DEF Temps
<1>4. user' \in [Names -> Data]
  BY DEF CacheInv, TypeOK
<1> QED BY <1>1, <1>2, <1>3, <1>4, YieldStep

LEMMA ScaleStep ==
  ASSUME CacheInv, Scale
  PROVE  CacheInv'
<1>1. Kind(Top) \in Kinds /\ Apply["scale", Datum(Top)] \in Data
  BY OperandFacts, DataAssumption DEF Scale, UnOps
<1>2. Temps({Top}) \ {Top} = {}
  BY DEF Temps
<1> QED BY <1>1, <1>2, UnaryStep DEF Scale

LEMMA TransStep ==
  ASSUME CacheInv, Transpose
  PROVE  CacheInv'
<1>1. /\ Mat(Kind(Top).cols, Kind(Top).rows) \in Kinds
      /\ Apply["trans", Datum(Top)] \in Data
  BY OperandFacts, KindFacts, DataAssumption DEF Transpose, UnOps
<1> QED BY <1>1, UnaryStep DEF Transpose, Forget

LEMMA ConjStep ==
  ASSUME CacheInv, Conj
  PROVE  CacheInv'
<1>1. Quat \in Kinds /\ Apply["conj", Datum(Top)] \in Data
  BY OperandFacts, KindFacts, DataAssumption DEF Conj, UnOps
<1> QED BY <1>1, UnaryStep DEF Conj, Forget

\* Assignments.
LEMMA AssignSteps ==
  ASSUME CacheInv, NEW n \in Names,
         Assign(n) \/ AddAssign(n) \/ Set(n)
  PROVE  CacheInv'
<1>1. Len(stack) = 1 /\ user \in [Names -> Data]
  BY DEF Assign, AddAssign, Set, CacheInv, TypeOK
<1>2. stack # <<>>
  BY <1>1, StackLength
<1>3. CASE Throw(cache, {}) /\ user' = user
  BY <1>1, <1>3, PlainThrow
<1>4. CASE \E d \in Data : Finish(n, d)
  BY <1>1, <1>4, FinishStep
<1>5. /\ Datum(Top) \in Data
      /\ Combine["add", user[n], Datum(Top)] \in Data
      /\ Combine["set", user[n], Datum(Top)] \in Data
  BY <1>1, <1>2, OperandFacts, DataAssumption DEF BinOps
<1> QED BY <1>3, <1>4, <1>5 DEF Assign, AddAssign, Set

LEMMA CopyStep ==
  ASSUME CacheInv, NEW n \in Names, Copy(n)
  PROVE  CacheInv'
<1>1. /\ Len(stack) = 1 /\ user \in [Names -> Data]
      /\ cache \in Seq(Object)
  BY DEF Copy, CacheInv, TypeOK
<1>2. stack # <<>>
  BY <1>1, StackLength
<1>3. Datum(Top) \in Data
  BY <1>2, OperandFacts
<1>4. CASE \E d \in Data : Finish(n, d)
  BY <1>1, <1>4, FinishStep
<1>5. CASE /\ user' = [user EXCEPT ![n] = Datum(Top)]
           /\ stack' = <<>> /\ lost' = lost \cup Live /\ cache' = cache
  <2>1. user' \in [Names -> Data]
    BY <1>1, <1>3, <1>5
  <2>2. Good(cache, <<>>, lost \cup LiveIn(stack) \cup {})
    BY InvIsGood, ThrowMove, <1>1
  <2> QED BY <1>5, <2>1, <2>2, InvIsGoodNext DEF Live, LiveIn, Temps
<1> QED BY <1>3, <1>4, <1>5 DEF Copy, Forget

\* The friend inv(a): ans and the scratch objects come and go.
LEMMA InvStep ==
  ASSUME CacheInv, Inv
  PROVE  CacheInv'
<1> DEFINE n    == Kind(Top).rows
           k    == Mat(Kind(Top).cols, Kind(Top).rows)
           ans  == Slot(cache, k)
           got  == GetTmp(cache, k)
           took == ScratchSlots(got, n)
           all  == GetScratch(got, n)
           x    == Apply["inv", Datum(Top)]
<1>1. /\ Len(stack) >= 1 /\ Len(stack) \in Nat
      /\ k \in Kinds /\ n \in Nat /\ x \in Data
      /\ user' \in [Names -> Data]
  <2>1. stack # <<>> /\ user' = user
    BY DEF Inv
  <2> QED BY <2>1, OperandFacts, KindFacts, DataAssumption DEF UnOps, CacheInv, TypeOK
<1>2. Good(cache, stack, lost)
  BY InvIsGood
<1>3. /\ got \in Seq(Object) /\ ans \in DOMAIN got /\ ans \notin Unavailable(cache)
      /\ Unavailable(got) = Unavailable(cache) \cup {ans}
      /\ DOMAIN cache \subseteq DOMAIN got
  BY <1>1, <1>2, GetTmpFacts DEF Good, Extends
<1>4. /\ all \in Seq(Object) /\ took \cap Unavailable(got) = {}
      /\ Unavailable(all) = Unavailable(got) \cup took
      /\ DOMAIN got \subseteq DOMAIN all
  BY <1>1, <1>3, ScratchFacts DEF Extends
<1>5. CASE Throw(got, {ans})
  BY <1>1, <1>3, <1>5, ThrowStep
<1>6. CASE Throw(all, {ans} \cup took)
  <2>1. Unavailable(all) = Unavailable(cache) \cup ({ans} \cup took)
    BY <1>3, <1>4
  <2> QED BY <1>1, <1>4, <1>6, <2>1, ThrowStep
<1>7. CASE /\ cache' = Release(Store(all, ans, x), {Top} \cup took)
           /\ Push(1, ans)
           /\ lost' = lost
  <2> DEFINE p == Popped(stack, 1)
             T == Names \cup DOMAIN cache'
             t == Append(p, ans)
  <2>1. Dropped(stack, 1) = {Top} \ Names /\ 1 \in Nat /\ 1 <= Len(stack)
    BY <1>1, DroppedFacts DEF Top
  <2>2. /\ p \in Seq(Names \cup DOMAIN cache) /\ Distinct(p)
        /\ LiveIn(stack) = LiveIn(p) \cup ({Top} \ Names)
        /\ LiveIn(p) \cap ({Top} \ Names) = {}
    BY <1>2, <2>1, PopFacts DEF Good
  <2>3. /\ cache' \in Seq(Object) /\ DOMAIN cache' = DOMAIN all
        /\ Unavailable(cache') = Unavailable(all) \ ({Top} \cup took)
    <3>1. /\ Store(all, ans, x) \in Seq(Object)
          /\ DOMAIN Store(all, ans, x) = DOMAIN all
          /\ Unavailable(Store(all, ans, x)) = Unavailable(all)
      <4> HIDE DEF x
      <4> QED BY <1>1, <1>3, <1>4, StoreFacts
    <3> QED BY <1>7, <3>1, ReleaseFacts
  <2>4. ans \notin Names /\ Unavailable(cache) \cap Names = {}
    BY <1>2, <1>3, SlotsAreNotNames DEF Good, Unavailable
  <2>5. Names \cup DOMAIN cache \subseteq T /\ ans \in T
    BY <1>3, <1>4, <2>3
  <2>6. p \in Seq(T)
    BY <2>2, <2>5, SeqMonotonic
  <2>7. ans \notin LiveIn(p)
    BY <1>2, <1>3, <2>2 DEF Good
  <2>8. t \in Seq(T) /\ Distinct(t) /\ LiveIn(t) = LiveIn(p) \cup ({ans} \ Names)
    BY <2>2, <2>5, <2>6, <2>7, PushFacts
  <2>9. ans # Top \/ Top \in Names
    BY <1>2, <1>3, <2>2 DEF Good
  <2>10. Unavailable(cache') = LiveIn(t) \cup lost
    BY <1>2, <1>3, <1>4, <2>2, <2>3, <2>4, <2>8, <2>9 DEF Good
  <2>11. LiveIn(t) \cap lost = {}
    BY <1>2, <1>3, <2>2, <2>8 DEF Good
  <2>12. lost \subseteq DOMAIN cache'
    BY <2>10 DEF Unavailable
  <2>13. Good(cache', t, lost)
    BY <2>3, <2>8, <2>10, <2>11, <2>12 DEF Good
  <2>14. stack' = t
    BY <1>7 DEF Push, Pop, Popped
  <2> QED BY <1>1, <1>7, <2>13, <2>14, InvIsGoodNext
<1> QED BY <1>5, <1>6, <1>7 DEF Inv

\* The member inv(): the operand stays where it is on the stack.
LEMMA InvInPlaceStep ==
  ASSUME CacheInv, InvInPlace
  PROVE  CacheInv'
<1> DEFINE n    == Kind(Top).rows
           took == ScratchSlots(cache, n)
           c    == GetScratch(cache, n)
           x    == Apply["inv", Datum(Top)]
<1>1. /\ Top \in Names \cup DOMAIN cache /\ n \in Nat /\ x \in Data
      /\ user \in [Names -> Data]
  BY OperandFacts, KindFacts, DataAssumption DEF InvInPlace, UnOps, CacheInv, TypeOK
<1>2. Good(cache, stack, lost)
  BY InvIsGood
<1>3. /\ c \in Seq(Object) /\ took \cap Unavailable(cache) = {}
      /\ Unavailable(c) = Unavailable(cache) \cup took
      /\ DOMAIN cache \subseteq DOMAIN c
  BY <1>1, <1>2, ScratchFacts DEF Good, Extends
<1>4. user' \in [Names -> Data]
  BY <1>1 DEF InvInPlace
<1>5. CASE Throw(cache, {})
  BY <1>4, <1>5, PlainThrow
<1>6. CASE Throw(c, took)
  BY <1>3, <1>4, <1>6, ThrowStep
<1>7. ASSUME NEW d \in Seq(Object), DOMAIN d = DOMAIN c, Unavailable(d) = Unavailable(c),
             cache' = Release(d, took), stack' = stack, lost' = lost
      PROVE  CacheInv'
  <2>1. /\ cache' \in Seq(Object) /\ DOMAIN cache' = DOMAIN c
        /\ Unavailable(cache') = Unavailable(cache)
    BY <1>3, <1>7, ReleaseFacts
  <2>2. stack \in Seq(Names \cup DOMAIN cache')
    BY <1>2, <1>3, <2>1, SeqMonotonic DEF Good
  <2>3. Good(cache', stack, lost)
    BY <1>2, <1>3, <2>1, <2>2 DEF Good
  <2> QED BY <1>4, <1>7, <2>3, InvIsGoodNext
<1>8. CASE cache' = Release(c, took) /\ stack' = stack /\ lost' = lost
  BY <1>3, <1>7, <1>8
<1>9. CASE Top \notin Names /\ cache' = Release(Store(c, Top, x), took)
           /\ stack' = stack /\ lost' = lost
  <2>1. Top \in DOMAIN c
    BY <1>1, <1>3, <1>9
  <2>2. /\ Store(c, Top, x) \in Seq(Object)
        /\ DOMAIN Store(c, Top, x) = DOMAIN c
        /\ Unavailable(Store(c, Top, x)) = Unavailable(c)
    <3> HIDE DEF x
    <3> QED BY <1>1, <1>3, <2>1, StoreFacts
  <2> QED BY <1>7, <1>9, <2>2
<1> QED BY <1>5, <1>6, <1>8, <1>9 DEF InvInPlace

-----------------------------------------------------------------------------
(* Theorems *)

LEMMA Initially == Init => CacheInv
<1> SUFFICES ASSUME Init PROVE CacheInv
  OBVIOUS
<1>1. cache \in Seq(Object) /\ stack \in Seq(Names \cup DOMAIN cache)
  BY EmptySeq DEF Init
<1> QED BY <1>1, DataAssumption DEF Init, CacheInv, TypeOK, Safety, NoAliasing, Balanced,
                                    LostIsDead, Live, Temps

LEMMA Inductive == CacheInv /\ [Next]_vars => CacheInv'
<1> SUFFICES ASSUME CacheInv, [Next]_vars PROVE CacheInv'
  OBVIOUS
<1>1. ASSUME NEW n \in Names, Use(n) PROVE CacheInv'
  BY <1>1, UseStep
<1>2. ASSUME NEW n \in Names, Assign(n) \/ AddAssign(n) \/ Set(n) PROVE CacheInv'
  BY <1>2, AssignSteps
<1>3. ASSUME NEW n \in Names, Copy(n) PROVE CacheInv'
  BY <1>3, CopyStep
<1>4. ASSUME NEW r \in Dims, NEW c \in Dims, NEW d \in Data, Make(r, c, d) PROVE CacheInv'
  BY <1>4, MakeStep
<1>5. ASSUME NEW n \in Dims, NEW d \in Data, Skew(n, d) PROVE CacheInv'
  BY <1>5, SkewStep
<1>6. ASSUME NEW op \in BinOps, Binary(op) PROVE CacheInv'
  BY <1>6, BinaryStep
<1>7. CASE UNCHANGED vars
  BY <1>7 DEF vars, CacheInv, TypeOK, Safety, NoAliasing, Balanced, LostIsDead, Live, Temps
<1> QED
  BY <1>1, <1>2, <1>3, <1>4, <1>5, <1>6, <1>7, DotStep, ScaleStep, TransStep, ConjStep,
     InvStep, InvInPlaceStep, PrintStep DEF Next

\* The invariant holds in every state: types, no aliasing of intermediate
\* results, and a slot is withheld exactly while it is in use or lost.
THEOREM CacheCorrect == Spec => []CacheInv
BY Initially, Inductive, PTL DEF Spec

\* Type correctness of the cache, the user's objects and the expression.
THEOREM TypeCorrect == Spec => []TypeOK
<1>1. CacheInv => TypeOK
  BY DEF CacheInv
<1> QED BY CacheCorrect, <1>1, PTL

\* No two intermediate results of an expression share storage, and getTmp
\* never hands out a slot that is in use (cBaseMath.cpp:63-221).
THEOREM CacheSafe == Spec => []Safety
<1>1. CacheInv => Safety
  BY DEF CacheInv
<1> QED BY CacheCorrect, <1>1, PTL

-----------------------------------------------------------------------------
(* The refinement: the cache is invisible *)

\* What the evaluator sees of an operand, and of a stack of operands.
EntryIn(c, x) == IF x \in Names THEN x ELSE [kind |-> c[x].kind, data |-> c[x].data]
ViewOf(c, s) == [i \in DOMAIN s |-> EntryIn(c, s[i])]

LEMMA ViewIsOf == View = ViewOf(cache, stack) /\ View' = ViewOf(cache', stack')
BY DEF View, ViewOf, EntryIn

\* A view has the length of the stack, and is that of each operand.
LEMMA ViewFacts ==
  ASSUME NEW c, NEW T, NEW s \in Seq(T)
  PROVE  /\ DOMAIN ViewOf(c, s) = 1 .. Len(s)
         /\ Len(ViewOf(c, s)) = Len(s)
         /\ \A i \in 1 .. Len(s) : ViewOf(c, s)[i] = EntryIn(c, s[i])
         /\ ViewOf(c, s) \in Seq({EntryIn(c, s[i]) : i \in 1 .. Len(s)})
<1> DEFINE E == {EntryIn(c, s[i]) : i \in 1 .. Len(s)}
<1>1. Len(s) \in Nat /\ DOMAIN s = 1 .. Len(s)
  BY LenProperties
<1>2. /\ DOMAIN ViewOf(c, s) = 1 .. Len(s)
      /\ \A i \in 1 .. Len(s) : ViewOf(c, s)[i] = EntryIn(c, s[i])
      /\ ViewOf(c, s) \in [1 .. Len(s) -> E]
  BY <1>1 DEF ViewOf
<1>3. ViewOf(c, s) \in Seq(E)
  <2> HIDE DEF E
  <2> QED BY <1>1, <1>2, SeqDef
<1>4. Len(ViewOf(c, s)) = Len(s)
  <2> HIDE DEF E
  <2> QED BY <1>1, <1>2, <1>3, LenProperties
<1> QED BY <1>2, <1>3, <1>4

\* Popping commutes with viewing.
LEMMA ViewPopped ==
  ASSUME NEW c, NEW T, NEW s \in Seq(T), NEW n \in Nat, n <= Len(s)
  PROVE  ViewOf(c, Popped(s, n)) = Popped(ViewOf(c, s), n)
<1> DEFINE v == ViewOf(c, s)
           E == {EntryIn(c, s[i]) : i \in 1 .. Len(s)}
           m == Len(s) - n
<1>1. Len(s) \in Nat /\ m \in Nat /\ m <= Len(s)
  BY LenProperties
<1>2. /\ v \in Seq(E) /\ Len(v) = Len(s)
      /\ \A i \in 1 .. Len(s) : v[i] = EntryIn(c, s[i])
  BY ViewFacts
<1>3. /\ Popped(s, n) \in Seq(T) /\ Len(Popped(s, n)) = m
      /\ \A i \in 1 .. m : Popped(s, n)[i] = s[i]
  BY PoppedFacts
<1>4. /\ Popped(v, n) \in Seq(E) /\ Len(Popped(v, n)) = m
      /\ \A i \in 1 .. m : Popped(v, n)[i] = v[i]
  <2>1. n <= Len(v)
    BY <1>2
  <2> HIDE DEF v, E
  <2> QED BY <1>2, <2>1, PoppedFacts
<1>5. /\ DOMAIN Popped(v, n) = 1 .. m
      /\ Popped(v, n) = [i \in DOMAIN Popped(v, n) |-> Popped(v, n)[i]]
  <2> HIDE DEF v, E, m
  <2> QED BY <1>4, SeqDef, LenProperties
<1>6. DOMAIN Popped(s, n) = 1 .. m
  <2> HIDE DEF m
  <2> QED BY <1>3, LenProperties
<1>7. \A i \in 1 .. m : EntryIn(c, Popped(s, n)[i]) = Popped(v, n)[i]
  <2>1. \A i \in 1 .. m : i \in 1 .. Len(s)
    BY <1>1
  <2> HIDE DEF v, m
  <2> QED BY <1>2, <1>3, <1>4, <2>1
<1>8. ViewOf(c, Popped(s, n)) = [i \in 1 .. m |-> Popped(v, n)[i]]
  <2> HIDE DEF v, m
  <2> QED BY <1>6, <1>7 DEF ViewOf
<1>9. Popped(v, n) = [i \in 1 .. m |-> Popped(v, n)[i]]
  <2> HIDE DEF v, m
  <2> QED BY <1>5
<1> QED BY <1>8, <1>9

\* Pushing commutes with viewing.
LEMMA ViewAppend ==
  ASSUME NEW c, NEW T, NEW s \in Seq(T), NEW x \in T
  PROVE  ViewOf(c, Append(s, x)) = Append(ViewOf(c, s), EntryIn(c, x))
<1> DEFINE v == ViewOf(c, s)
           E == {EntryIn(c, s[i]) : i \in 1 .. Len(s)} \cup {EntryIn(c, x)}
           w == Append(v, EntryIn(c, x))
           q == Append(s, x)
<1>1. Len(s) \in Nat
  BY LenProperties
<1>2. /\ v \in Seq(E) /\ Len(v) = Len(s)
      /\ \A i \in 1 .. Len(s) : v[i] = EntryIn(c, s[i])
  <2> DEFINE D == {EntryIn(c, s[i]) : i \in 1 .. Len(s)}
  <2>1. /\ v \in Seq(D) /\ Len(v) = Len(s)
        /\ \A i \in 1 .. Len(s) : v[i] = EntryIn(c, s[i])
    BY ViewFacts
  <2>2. D \subseteq E
    OBVIOUS
  <2>3. v \in Seq(E)
    <3> HIDE DEF v, D, E
    <3> QED BY <2>1, <2>2, SeqMonotonic
  <2> QED BY <2>1, <2>3
<1>3. /\ w \in Seq(E) /\ Len(w) = Len(s) + 1
      /\ \A i \in 1 .. Len(s) : w[i] = v[i]
      /\ w[Len(s) + 1] = EntryIn(c, x)
  <2>1. EntryIn(c, x) \in E
    OBVIOUS
  <2> HIDE DEF v, E
  <2> QED BY <1>2, <2>1, AppendProperties
<1>4. /\ DOMAIN q = 1 .. Len(s) + 1
      /\ \A i \in 1 .. Len(s) : q[i] = s[i]
      /\ q[Len(s) + 1] = x
  <2>1. q \in Seq(T) /\ Len(q) = Len(s) + 1
    BY AppendProperties
  <2>2. DOMAIN q = 1 .. Len(q)
    <3> HIDE DEF q
    <3> QED BY <2>1, LenProperties
  <2> QED BY <2>1, <2>2, AppendProperties
<1>5. DOMAIN w = 1 .. Len(s) + 1 /\ w = [i \in DOMAIN w |-> w[i]]
  <2> HIDE DEF w, E
  <2> QED BY <1>3, SeqDef, LenProperties
<1>6. \A i \in 1 .. Len(s) + 1 : EntryIn(c, q[i]) = w[i]
  <2>1. \A i \in 1 .. Len(s) + 1 : i \in 1 .. Len(s) \/ i = Len(s) + 1
    BY <1>1
  <2> HIDE DEF v, w, q
  <2> QED BY <1>2, <1>3, <1>4, <2>1
<1> HIDE DEF w, q
<1>7. ViewOf(c, q) = w
  BY <1>4, <1>5, <1>6 DEF ViewOf
<1> QED BY <1>7 DEF w, q, v

\* A stack looks the same in any cache that keeps the slots it refers to.
LEMMA SameView ==
  ASSUME NEW c, NEW d, NEW s,
         \A x \in LiveIn(s) : d[x].kind = c[x].kind /\ d[x].data = c[x].data
  PROVE  ViewOf(d, s) = ViewOf(c, s)
<1>1. \A i \in DOMAIN s : EntryIn(d, s[i]) = EntryIn(c, s[i])
  BY DEF LiveIn, EntryIn
<1> QED BY <1>1 DEF ViewOf

-----------------------------------------------------------------------------
(* Operands as the evaluator sees them *)

LEMMA LiveIsTaken ==
  ASSUME CacheInv
  PROVE  /\ LiveIn(stack) \subseteq DOMAIN cache
         /\ LiveIn(stack) \subseteq Unavailable(cache)
<1>1. Good(cache, stack, lost)
  BY InvIsGood
<1> QED BY <1>1 DEF Good, Unavailable

\* The evaluator sees the kind and the contents the code sees.
LEMMA OperandViews ==
  ASSUME CacheInv
  PROVE  /\ Len(View) = Len(stack)
         /\ View = <<>> <=> stack = <<>>
         /\ stack # <<>> => /\ Values!AKind(Values!ATop) = Kind(Top)
                            /\ Values!ADatum(Values!ATop) = Datum(Top)
                            /\ Values!ATop \in Names <=> Top \in Names
                            /\ Top \in Names => Values!ATop = Top
         /\ Len(stack) >= 2 =>
                            /\ Values!AKind(Values!ASecond) = Kind(Second)
                            /\ Values!ADatum(Values!ASecond) = Datum(Second)
<1> DEFINE T == Names \cup DOMAIN cache
<1>1. stack \in Seq(T) /\ Len(stack) \in Nat
  BY LenProperties DEF CacheInv, TypeOK
<1>2. /\ Len(View) = Len(stack) /\ View = ViewOf(cache, stack)
      /\ \A i \in 1 .. Len(stack) : View[i] = EntryIn(cache, stack[i])
      /\ View \in Seq({EntryIn(cache, stack[i]) : i \in 1 .. Len(stack)})
  <2> HIDE DEF T
  <2> QED BY <1>1, ViewFacts, ViewIsOf
<1>3. View = <<>> <=> stack = <<>>
  <2>1. stack = <<>> <=> Len(stack) = 0
    BY <1>1, EmptySeq
  <2>2. View = <<>> <=> Len(View) = 0
    BY <1>2, EmptySeq
  <2> QED BY <1>2, <2>1, <2>2
<1>4. ASSUME NEW x \in T
      PROVE  /\ Values!AKind(EntryIn(cache, x)) = Kind(x)
             /\ Values!ADatum(EntryIn(cache, x)) = Datum(x)
             /\ EntryIn(cache, x) \in Names <=> x \in Names
             /\ x \in Names => EntryIn(cache, x) = x
  <2>1. CASE x \in Names
    BY <2>1 DEF EntryIn, Values!AKind, Values!ADatum, Kind, Datum
  <2>2. CASE x \notin Names
    <3>1. cache[x] \in Object
      BY <2>2, ElementOfSeq, LenProperties DEF CacheInv, TypeOK
    <3>2. cache[x].kind \in Kinds /\ cache[x].data \in Data
      BY <3>1 DEF Object
    <3>3. EntryIn(cache, x) = [kind |-> cache[x].kind, data |-> cache[x].data]
      BY <2>2 DEF EntryIn
    <3>4. EntryIn(cache, x) \notin Names
      BY <3>2, <3>3, ClientAssumption
    <3> QED BY <2>2, <3>3, <3>4 DEF Values!AKind, Values!ADatum, Kind, Datum
  <2> QED BY <2>1, <2>2
<1>5. \A i \in 1 .. Len(stack) : stack[i] \in T
  BY <1>1, ElementOfSeq
<1>6. stack # <<>> => Len(stack) \in 1 .. Len(stack)
  BY <1>1, EmptySeq
<1>7. Len(stack) >= 2 => Len(stack) - 1 \in 1 .. Len(stack)
  BY <1>1
<1>8. stack # <<>> => Values!ATop = EntryIn(cache, Top) /\ Top \in T
  BY <1>2, <1>5, <1>6 DEF Top, Values!ATop
<1>9. Len(stack) >= 2 => Values!ASecond = EntryIn(cache, Second) /\ Second \in T
  BY <1>2, <1>5, <1>7 DEF Second, Values!ASecond
<1> QED BY <1>2, <1>3, <1>4, <1>8, <1>9

\* The evaluator's shapes are the code's.
LEMMA SameShapes ==
  /\ \A r, c : Values!Mat(r, c) = Mat(r, c)
  /\ Values!Quat = Quat
  /\ \A op : Values!Overloads(op) = Overloads(op)
  /\ \A op, k, l : Values!Conforms(op, k, l) = Conforms(op, k, l)
  /\ \A op, k, l : Values!ResultKind(op, k, l) = ResultKind(op, k, l)
  /\ Values!BinOps = BinOps
BY DEF Values!Mat, Mat, Values!Quat, Quat, Values!Overloads, Overloads, Values!Conforms,
       Conforms, Values!ResultKind, ResultKind, Values!BinOps, BinOps

-----------------------------------------------------------------------------
(* How a step changes the view *)

\* The topmost n operands give way to a new value.
LEMMA YieldView ==
  ASSUME CacheInv, NEW n \in Nat, n <= Len(stack), NEW k \in Kinds, k.type # "array",
         NEW x \in Data, NEW S, Yield(n, k, x, S)
  PROVE  Values!AYield(n, k, x)
<1> DEFINE T == Names \cup DOMAIN cache
           i == Slot(cache, k)
           p == Popped(stack, n)
           U == T \cup {i}
<1>1. cache \in Seq(Object) /\ stack \in Seq(T) /\ Len(View) = Len(stack)
  BY OperandViews DEF CacheInv, TypeOK
<1>2. /\ cache' = Release(Store(GetTmp(cache, k), i, x), S)
      /\ stack' = Append(p, i)
  BY DEF Yield, Push, Pop, Popped
<1>3. /\ i \notin Unavailable(cache) /\ i \in DOMAIN cache'
      /\ \A j \in DOMAIN cache : j # i =>
            cache'[j].kind = cache[j].kind /\ cache'[j].data = cache[j].data
      /\ cache'[i].data = x /\ cache'[i].kind = k
      /\ cache' \in Seq(Object)
  <2> HIDE DEF i
  <2> QED BY <1>1, <1>2, YieldFacts DEF i
<1>4. p \in Seq(T) /\ LiveIn(p) \subseteq LiveIn(stack)
  <2>1. Distinct(stack)
    BY InvIsGood DEF Good
  <2>2. /\ p \in Seq(T)
        /\ LiveIn(stack) = LiveIn(p) \cup Dropped(stack, n)
    <3> HIDE DEF T
    <3> QED BY <1>1, <2>1, PopFacts
  <2> QED BY <2>2
<1>5. ViewOf(cache', p) = ViewOf(cache, p)
  <2> HIDE DEF i, p
  <2> QED BY <1>3, <1>4, LiveIsTaken, SameView
<1>6. EntryIn(cache', i) = [kind |-> k, data |-> x]
  <2>1. i \notin Names
    BY <1>3, SlotsAreNotNames
  <2> HIDE DEF i
  <2> QED BY <1>3, <2>1 DEF EntryIn
<1>7. View' = Append(ViewOf(cache', p), EntryIn(cache', i))
  <2>1. p \in Seq(U) /\ i \in U
    BY <1>4, SeqMonotonic
  <2> HIDE DEF i, p, U
  <2> QED BY <1>2, <2>1, ViewAppend, ViewIsOf
<1>8. ViewOf(cache, p) = Popped(View, n)
  <2> HIDE DEF T
  <2> QED BY <1>1, ViewPopped, ViewIsOf
<1> QED BY <1>5, <1>6, <1>7, <1>8 DEF Values!AYield, Values!APop, Popped

\* An empty stack is seen as an empty one.
LEMMA EmptyView ==
  ASSUME stack' = <<>>
  PROVE  View' = <<>> /\ Values!AThrow
<1>1. View' = ViewOf(cache', <<>>)
  BY ViewIsOf
<1>2. <<>> \in Seq({}) /\ Len(<<>>) = 0
  BY EmptySeq
<1>3. ViewOf(cache', <<>>) \in Seq({EntryIn(cache', <<>>[i]) : i \in 1 .. 0})
      /\ Len(ViewOf(cache', <<>>)) = 0
  BY <1>2, ViewFacts
<1>4. View' = <<>>
  BY <1>1, <1>3, EmptySeq
<1> QED BY <1>4 DEF Values!AThrow

-----------------------------------------------------------------------------
(* Each operator is a step of the evaluator *)

LEMMA UseValue ==
  ASSUME CacheInv, NEW n \in Names, Use(n)
  PROVE  Values!AUse(n)
<1> DEFINE T == Names \cup DOMAIN cache
<1>1. stack \in Seq(T) /\ Len(View) = Len(stack) /\ n \in T /\ Len(stack) \in Nat
  BY OperandViews, LenProperties DEF CacheInv, TypeOK
<1>2. stack' = Append(stack, n) /\ cache' = cache /\ user' = user
  <2>1. Popped(stack, 0) = stack
    BY <1>1, SubSeqFull DEF Popped
  <2> QED BY <2>1 DEF Use, Push, Pop, Popped
<1>3. View' = Append(ViewOf(cache, stack), EntryIn(cache, n))
  <2> HIDE DEF T
  <2> QED BY <1>1, <1>2, ViewAppend, ViewIsOf
<1>4. View' = Append(View, n)
  BY <1>3, ViewIsOf DEF EntryIn
<1> QED BY <1>1, <1>2, <1>4 DEF Use, Values!AUse

LEMMA MakeValue ==
  ASSUME CacheInv, NEW r \in Dims, NEW c \in Dims, NEW d \in Data, Make(r, c, d)
  PROVE  Values!AMake(r, c, d)
<1>1. Mat(r, c) \in Kinds /\ Mat(r, c).type # "array"
  BY ClientAssumption, KindFacts
<1>2. Values!AYield(0, Mat(r, c), d)
  BY <1>1, StackLength, YieldView DEF Make
<1> QED BY <1>2, OperandViews, SameShapes DEF Make, Values!AMake

LEMMA SkewValue ==
  ASSUME CacheInv, NEW n \in Dims, NEW d \in Data, Skew(n, d)
  PROVE  Values!ASkew(n, d)
<1>1. Mat(n, n) \in Kinds /\ Mat(n, n).type # "array"
  BY ClientAssumption, KindFacts
<1>2. CASE n \in {3, 4}
  <2>1. Values!AYield(0, Mat(n, n), d)
    BY <1>1, <1>2, StackLength, YieldView DEF Skew
  <2> QED BY <1>2, <2>1, OperandViews, SameShapes DEF Skew, Values!ASkew
<1>3. CASE n \notin {3, 4}
  <2>1. Values!AThrow
    BY <1>3, EmptyView DEF Skew, Throw
  <2> QED BY <1>3, <2>1, OperandViews DEF Skew, Values!ASkew
<1> QED BY <1>2, <1>3

\* No operator yields an array.
LEMMA ResultIsNoArray ==
  ASSUME NEW op \in BinOps, NEW k \in Kinds, NEW l \in Kinds,
         <<k.type, l.type>> \in Overloads(op)
  PROVE  ResultKind(op, k, l).type # "array"
<1>1. k.type # "array" /\ l.type # "array"
  BY DEF Overloads, BinOps
<1> QED BY <1>1 DEF ResultKind, Mat, Kinds

LEMMA BinaryValue ==
  ASSUME CacheInv, NEW op \in BinOps, Binary(op)
  PROVE  Values!ABinary(op)
<1> DEFINE k == Kind(Second)
           l == Kind(Top)
           x == Combine[op, Datum(Second), Datum(Top)]
<1>1. Len(stack) >= 2 /\ <<k.type, l.type>> \in Overloads(op) /\ user' = user
  BY Zenon DEF Binary
<1>2. stack # <<>> /\ Len(stack) \in Nat
  BY <1>1, StackLength
<1>3. k \in Kinds /\ l \in Kinds /\ ResultKind(op, k, l) \in Kinds /\ x \in Data
  BY <1>1, <1>2, OperandFacts, KindFacts, DataAssumption
<1>4. CASE Conforms(op, k, l)
  <2>1. Yield(2, ResultKind(op, k, l), x, {Second, Top})
    BY <1>4, Zenon DEF Binary
  <2>2. ResultKind(op, k, l).type # "array"
    <3> HIDE DEF k, l
    <3> QED BY <1>1, <1>3, ResultIsNoArray
  <2>3. Values!AYield(2, ResultKind(op, k, l), x)
    <3> HIDE DEF k, l, x
    <3> QED BY <1>1, <1>2, <1>3, <2>1, <2>2, YieldView
  <2>4. /\ Len(View) >= 2
        /\ Values!AKind(Values!ASecond) = k /\ Values!AKind(Values!ATop) = l
        /\ Values!ADatum(Values!ASecond) = Datum(Second)
        /\ Values!ADatum(Values!ATop) = Datum(Top)
    BY <1>1, <1>2, OperandViews
  <2> HIDE DEF k, l
  <2> QED BY <1>1, <1>4, <2>3, <2>4, SameShapes DEF Values!ABinary, x
<1>5. CASE ~Conforms(op, k, l)
  <2>1. Values!AThrow
    BY <1>5, EmptyView, Zenon DEF Binary, Throw
  <2>2. /\ Len(View) >= 2
        /\ Values!AKind(Values!ASecond) = k /\ Values!AKind(Values!ATop) = l
    BY <1>1, <1>2, OperandViews
  <2> HIDE DEF k, l
  <2> QED BY <1>1, <1>5, <2>1, <2>2, SameShapes DEF Values!ABinary
<1> QED BY <1>4, <1>5

\* Releasing what is popped leaves the rest as it looked.
LEMMA ReleaseView ==
  ASSUME CacheInv, NEW n \in Nat, n <= Len(stack), NEW S,
         cache' = Release(cache, S), stack' = Pop(n)
  PROVE  View' = Values!APop(n)
<1> DEFINE T == Names \cup DOMAIN cache
           p == Popped(stack, n)
<1>1. cache \in Seq(Object) /\ stack \in Seq(T) /\ Len(View) = Len(stack)
  BY OperandViews DEF CacheInv, TypeOK
<1>2. Extends(cache, cache')
  BY <1>1, ReleaseFacts
<1>3. LiveIn(p) \subseteq LiveIn(stack)
  <2>1. Distinct(stack)
    BY InvIsGood DEF Good
  <2>2. LiveIn(stack) = LiveIn(p) \cup Dropped(stack, n)
    <3> HIDE DEF T
    <3> QED BY <1>1, <2>1, PopFacts
  <2> QED BY <2>2
<1>4. ViewOf(cache', p) = ViewOf(cache, p)
  <2> HIDE DEF p
  <2> QED BY <1>2, <1>3, LiveIsTaken, SameView DEF Extends
<1>5. ViewOf(cache, p) = Popped(View, n)
  <2> HIDE DEF T
  <2> QED BY <1>1, ViewPopped, ViewIsOf
<1> QED BY <1>1, <1>4, <1>5, ViewIsOf DEF Pop, Popped, Values!APop

LEMMA DotValue ==
  ASSUME CacheInv, Dot
  PROVE  Values!ADot
<1>1. /\ Len(stack) >= 2 /\ user' = user
      /\ Kind(Second).type = "vector" /\ Kind(Top).type = "vector"
  BY DEF Dot
<1>2. stack # <<>> /\ Len(stack) \in Nat
  BY <1>1, StackLength
<1>3. /\ Len(View) >= 2
      /\ Values!AKind(Values!ASecond) = Kind(Second)
      /\ Values!AKind(Values!ATop) = Kind(Top)
  BY <1>1, <1>2, OperandViews
<1>4. CASE Kind(Second).rows = Kind(Top).rows
  <2>1. View' = Values!APop(2)
    BY <1>1, <1>2, <1>4, ReleaseView DEF Dot
  <2> QED BY <1>1, <1>3, <1>4, <2>1 DEF Values!ADot
<1>5. CASE Kind(Second).rows # Kind(Top).rows
  <2>1. Values!AThrow
    BY <1>5, EmptyView DEF Dot, Throw
  <2> QED BY <1>1, <1>3, <1>5, <2>1 DEF Values!ADot
<1> QED BY <1>4, <1>5

LEMMA ScaleValue ==
  ASSUME CacheInv, Scale
  PROVE  Values!AScale
<1>1. /\ stack # <<>> /\ user' = user /\ Kind(Top).type \in {"matrix", "vector"}
      /\ Yield(1, Kind(Top), Apply["scale", Datum(Top)], {Top})
  BY DEF Scale
<1>2. /\ Kind(Top) \in Kinds /\ Apply["scale", Datum(Top)] \in Data
      /\ Len(stack) >= 1 /\ Kind(Top).type # "array"
  BY <1>1, OperandFacts, DataAssumption DEF UnOps
<1>3. Values!AYield(1, Kind(Top), Apply["scale", Datum(Top)])
  BY <1>1, <1>2, YieldView
<1> QED BY <1>1, <1>3, OperandViews DEF Values!AScale

LEMMA TransValue ==
  ASSUME CacheInv, Transpose
  PROVE  Values!ATrans
<1> DEFINE k == Mat(Kind(Top).cols, Kind(Top).rows)
           x == Apply["trans", Datum(Top)]
<1>1. /\ stack # <<>> /\ user' = user /\ Kind(Top).type = "matrix"
      /\ Yield(1, k, x, {})
  BY DEF Transpose
<1>2. k \in Kinds /\ x \in Data /\ Len(stack) >= 1 /\ k.type # "array"
  BY <1>1, OperandFacts, KindFacts, DataAssumption DEF UnOps
<1>3. Values!AYield(1, k, x)
  <2> HIDE DEF k, x
  <2> QED BY <1>1, <1>2, YieldView
<1> QED BY <1>1, <1>3, OperandViews, SameShapes DEF Values!ATrans

LEMMA ConjValue ==
  ASSUME CacheInv, Conj
  PROVE  Values!AConj
<1> DEFINE x == Apply["conj", Datum(Top)]
<1>1. /\ stack # <<>> /\ user' = user /\ Kind(Top).type = "quaternion"
      /\ Yield(1, Quat, x, {})
  BY DEF Conj
<1>2. Quat \in Kinds /\ x \in Data /\ Len(stack) >= 1 /\ Quat.type # "array"
  BY <1>1, OperandFacts, KindFacts, DataAssumption DEF UnOps, Quat
<1>3. Values!AYield(1, Quat, x)
  <2> HIDE DEF x
  <2> QED BY <1>1, <1>2, YieldView
<1> QED BY <1>1, <1>3, OperandViews, SameShapes DEF Values!AConj

\* A square matrix has the kind its transpose has.
LEMMA SquareKind ==
  ASSUME NEW k \in Kinds, k.type = "matrix", k.rows = k.cols
  PROVE  Mat(k.cols, k.rows) = k
BY DEF Kinds, Mat

\* The friend inv(a): the scratch objects are never seen.
LEMMA InvValue ==
  ASSUME CacheInv, Inv
  PROVE  Values!AInv
<1> DEFINE n    == Kind(Top).rows
           k    == Mat(Kind(Top).cols, Kind(Top).rows)
           ans  == Slot(cache, k)
           got  == GetTmp(cache, k)
           took == ScratchSlots(got, n)
           all  == GetScratch(got, n)
           x    == Apply["inv", Datum(Top)]
           T    == Names \cup DOMAIN cache
           p    == Popped(stack, 1)
           U    == T \cup {ans}
<1>1. /\ stack # <<>> /\ user' = user /\ Kind(Top).type = "matrix"
      /\ Len(stack) >= 1 /\ Len(stack) \in Nat
      /\ Kind(Top) \in Kinds /\ k \in Kinds /\ k.type # "array" /\ n \in Nat /\ x \in Data
  <2>1. stack # <<>> /\ user' = user /\ Kind(Top).type = "matrix"
    BY DEF Inv
  <2> QED BY <2>1, OperandFacts, KindFacts, DataAssumption DEF UnOps
<1>2. /\ View # <<>>
      /\ Values!AKind(Values!ATop) = Kind(Top)
      /\ Values!ADatum(Values!ATop) = Datum(Top)
      /\ Len(View) = Len(stack)
  BY <1>1, OperandViews
<1>3. Values!Invertible(Kind(Top), Datum(Top))
        <=> k.rows = k.cols /\ Datum(Top) \notin Singular
  BY DEF Values!Invertible, Mat
<1>4. CASE k.rows # k.cols \/ Datum(Top) \in Singular
  <2>1. stack' = <<>>
    BY <1>4, Zenon DEF Inv, Throw
  <2>2. Values!AThrow
    BY <2>1, EmptyView
  <2> HIDE DEF k
  <2> QED BY <1>1, <1>2, <1>3, <1>4, <2>2 DEF Values!AInv
<1>5. CASE k.rows = k.cols /\ Datum(Top) \notin Singular
  <2>1. /\ cache' = Release(Store(all, ans, x), {Top} \cup took)
        /\ stack' = Append(p, ans)
    BY <1>5, Zenon DEF Inv, Push, Pop, Popped
  <2>2. /\ cache \in Seq(Object) /\ stack \in Seq(T)
    BY DEF CacheInv, TypeOK
  <2>3. /\ got \in Seq(Object) /\ ans \in DOMAIN got /\ ans \notin Unavailable(cache)
        /\ Extends(cache, got) /\ got[ans].kind = k
    BY <1>1, <2>2, GetTmpFacts
  <2>4. all \in Seq(Object) /\ Extends(got, all)
    BY <1>1, <2>3, ScratchFacts
  <2> DEFINE h == Store(all, ans, x)
  <2>5. /\ h \in Seq(Object) /\ DOMAIN h = DOMAIN all
        /\ h[ans].data = x /\ h[ans].kind = all[ans].kind
        /\ \A j \in DOMAIN all : j # ans => h[j] = all[j]
    <3>1. ans \in DOMAIN all
      BY <2>3, <2>4 DEF Extends
    <3> HIDE DEF x, all, ans
    <3> QED BY <1>1, <2>4, <3>1, StoreFacts
  <2>6. Extends(h, cache')
    <3> HIDE DEF h
    <3> QED BY <2>1, <2>5, ReleaseFacts DEF h
  <2> HIDE DEF h, all, took, got, ans, k, x
  <2>7. /\ cache'[ans].kind = k /\ cache'[ans].data = x
        /\ \A j \in DOMAIN cache : j # ans =>
              cache'[j].kind = cache[j].kind /\ cache'[j].data = cache[j].data
    BY <2>3, <2>4, <2>5, <2>6 DEF Extends
  <2>8. p \in Seq(T) /\ LiveIn(p) \subseteq LiveIn(stack)
    <3>1. Distinct(stack)
      BY InvIsGood DEF Good
    <3>2. p \in Seq(T) /\ LiveIn(stack) = LiveIn(p) \cup Dropped(stack, 1)
      <4> HIDE DEF T
      <4> QED BY <1>1, <2>2, <3>1, PopFacts
    <3> QED BY <3>2
  <2>9. ViewOf(cache', p) = ViewOf(cache, p)
    <3> HIDE DEF p
    <3> QED BY <2>3, <2>7, <2>8, LiveIsTaken, SameView
  <2>10. EntryIn(cache', ans) = [kind |-> k, data |-> x]
    <3>1. ans \notin Names
      BY <2>3, SlotsAreNotNames
    <3> QED BY <2>7, <3>1 DEF EntryIn
  <2>11. View' = Append(ViewOf(cache', p), EntryIn(cache', ans))
    <3>1. p \in Seq(U) /\ ans \in U
      BY <2>8, SeqMonotonic
    <3> HIDE DEF p, U
    <3> QED BY <2>1, <3>1, ViewAppend, ViewIsOf
  <2>12. ViewOf(cache, p) = Popped(View, 1)
    <3> HIDE DEF T
    <3> QED BY <1>1, <2>2, ViewPopped, ViewIsOf
  <2>13. k = Kind(Top)
    BY <1>1, <1>5, SquareKind DEF k, Mat
  <2>14. Values!AYield(1, Kind(Top), x)
    BY <2>9, <2>10, <2>11, <2>12, <2>13 DEF Values!AYield, Values!APop, Popped
  <2> QED BY <1>1, <1>2, <1>3, <1>5, <2>14 DEF Values!AInv, x
<1> QED BY <1>4, <1>5

\* The member inv() of a temporary: the operand changes where it is, and no
\* other operand shares its slot.
LEMMA InPlaceView ==
  ASSUME CacheInv, stack # <<>>, Top \notin Names, NEW x \in Data, NEW n \in Nat,
         cache' = Release(Store(GetScratch(cache, n), Top, x), ScratchSlots(cache, n)),
         stack' = stack
  PROVE  Values!AYield(1, Kind(Top), x)
<1> DEFINE T == Names \cup DOMAIN cache
           p == Popped(stack, 1)
           c == GetScratch(cache, n)
           h == Store(c, Top, x)
<1>1. /\ cache \in Seq(Object) /\ stack \in Seq(T) /\ Len(stack) \in Nat /\ Len(stack) >= 1
      /\ Top \in DOMAIN cache /\ Len(View) = Len(stack)
  BY OperandFacts, OperandViews DEF CacheInv, TypeOK
<1>2. c \in Seq(Object) /\ Extends(cache, c)
  BY <1>1, ScratchFacts
<1>3. /\ h \in Seq(Object) /\ DOMAIN h = DOMAIN c
      /\ h[Top].data = x /\ h[Top].kind = c[Top].kind
      /\ \A j \in DOMAIN c : j # Top => h[j] = c[j]
  <2>1. Top \in DOMAIN c
    BY <1>1, <1>2 DEF Extends
  <2> HIDE DEF c
  <2> QED BY <1>2, <2>1, StoreFacts
<1>4. Extends(h, cache')
  <2> HIDE DEF h
  <2> QED BY <1>3, ReleaseFacts DEF h
<1>5. /\ cache'[Top].kind = cache[Top].kind /\ cache'[Top].data = x
      /\ \A j \in DOMAIN cache : j # Top =>
            cache'[j].kind = cache[j].kind /\ cache'[j].data = cache[j].data
  <2> HIDE DEF h, c
  <2> QED BY <1>1, <1>2, <1>3, <1>4 DEF Extends
<1>6. /\ p \in Seq(T) /\ LiveIn(p) \subseteq LiveIn(stack) /\ Top \notin LiveIn(p)
  <2>1. Distinct(stack)
    BY InvIsGood DEF Good
  <2>2. /\ p \in Seq(T) /\ LiveIn(stack) = LiveIn(p) \cup Dropped(stack, 1)
        /\ LiveIn(p) \cap Dropped(stack, 1) = {}
    <3> HIDE DEF T
    <3> QED BY <1>1, <2>1, PopFacts
  <2>3. Dropped(stack, 1) = {Top} \ Names
    BY <1>1, DroppedFacts DEF Top
  <2> QED BY <2>2, <2>3
<1>7. ViewOf(cache', p) = ViewOf(cache, p)
  <2> HIDE DEF p
  <2> QED BY <1>5, <1>6, LiveIsTaken, SameView
<1>8. stack' = Append(p, Top)
  <2>1. p \in Seq(T) /\ Len(p) = Len(stack) - 1
        /\ \A i \in 1 .. Len(stack) - 1 : p[i] = stack[i]
    <3>1. stack \in Seq(T) /\ 1 \in Nat /\ 1 <= Len(stack)
      BY <1>1
    <3> HIDE DEF T
    <3> QED BY <3>1, PoppedFacts
  <2> DEFINE q == Append(p, Top)
  <2>2. /\ q \in Seq(T) /\ Len(q) = Len(stack)
        /\ \A i \in 1 .. Len(stack) - 1 : q[i] = p[i]
        /\ q[Len(stack)] = Top
    <3>1. Len(stack) - 1 + 1 = Len(stack) /\ Top \in T
      BY <1>1
    <3> HIDE DEF p, T
    <3> QED BY <2>1, <3>1, AppendProperties
  <2>3. \A i \in 1 .. Len(stack) : stack[i] = q[i]
    <3>1. \A i \in 1 .. Len(stack) : i \in 1 .. Len(stack) - 1 \/ i = Len(stack)
      BY <1>1
    <3> HIDE DEF q, p
    <3> QED BY <2>1, <2>2, <3>1 DEF Top
  <2> HIDE DEF q, T
  <2> QED BY <1>1, <2>2, <2>3, SeqEqual DEF q
<1>9. View' = Append(ViewOf(cache', p), EntryIn(cache', Top))
  <2> HIDE DEF p
  <2>1. p \in Seq(T) /\ Top \in T
    BY <1>1, <1>6
  <2> HIDE DEF T
  <2> QED BY <1>8, <2>1, ViewAppend, ViewIsOf
<1>10. ViewOf(cache, p) = Popped(View, 1)
  <2> HIDE DEF T
  <2> QED BY <1>1, ViewPopped, ViewIsOf
<1> QED BY <1>5, <1>7, <1>9, <1>10 DEF Values!AYield, Values!APop, Popped, EntryIn, Kind

LEMMA InvInPlaceValue ==
  ASSUME CacheInv, InvInPlace
  PROVE  Values!AInvInPlace
<1> DEFINE n == Kind(Top).rows
           x == Apply["inv", Datum(Top)]
<1>1. /\ stack # <<>> /\ Kind(Top).type = "matrix"
      /\ n \in Nat /\ x \in Data /\ Top \in Names \cup DOMAIN cache
      /\ user \in [Names -> Data] /\ cache \in Seq(Object)
  <2>1. stack # <<>> /\ Kind(Top).type = "matrix"
    BY DEF InvInPlace
  <2> QED BY <2>1, OperandFacts, KindFacts, DataAssumption DEF UnOps, CacheInv, TypeOK
<1>2. /\ View # <<>>
      /\ Values!AKind(Values!ATop) = Kind(Top)
      /\ Values!ADatum(Values!ATop) = Datum(Top)
      /\ Values!ATop \in Names <=> Top \in Names
      /\ Top \in Names => Values!ATop = Top
  BY <1>1, OperandViews
<1>3. Values!Invertible(Kind(Top), Datum(Top))
        <=> n = Kind(Top).cols /\ Datum(Top) \notin Singular
  BY DEF Values!Invertible
<1>4. CASE n # Kind(Top).cols
  <2>1. stack' = <<>> /\ user' = user
    BY <1>4, Zenon DEF InvInPlace, Throw
  <2>2. Values!AThrow
    BY <2>1, EmptyView
  <2> QED BY <1>1, <1>2, <1>3, <1>4, <2>1, <2>2 DEF Values!AInvInPlace
<1>5. CASE n = Kind(Top).cols /\ Datum(Top) \in Singular
  <2>1. /\ stack' = <<>>
        /\ IF Top \in Names
           THEN \E d \in Data : user' = [user EXCEPT ![Top] = d]
           ELSE UNCHANGED user
    BY <1>5, Zenon DEF InvInPlace, Throw
  <2>2. Values!AThrow
    BY <2>1, EmptyView
  <2> QED BY <1>1, <1>2, <1>3, <1>5, <2>1, <2>2 DEF Values!AInvInPlace
<1>6. CASE n = Kind(Top).cols /\ Datum(Top) \notin Singular /\ Top \in Names
  <2>1. /\ stack' = stack /\ user' = [user EXCEPT ![Top] = x]
        /\ cache' = Release(GetScratch(cache, n), ScratchSlots(cache, n))
    BY <1>6, Zenon DEF InvInPlace
  <2>2. Extends(cache, cache')
    <3>1. GetScratch(cache, n) \in Seq(Object) /\ Extends(cache, GetScratch(cache, n))
      BY <1>1, ScratchFacts
    <3>2. Extends(GetScratch(cache, n), cache')
      BY <2>1, <3>1, ReleaseFacts
    <3> QED BY <3>1, <3>2, ExtendsTransitive
  <2>3. View' = View
    BY <2>1, <2>2, LiveIsTaken, SameView, ViewIsOf DEF Extends
  <2>4. Values!ATop = Top /\ Datum(Top) = user[Top]
    BY <1>2, <1>6 DEF Datum
  <2> QED BY <1>1, <1>2, <1>3, <1>6, <2>1, <2>3, <2>4 DEF Values!AInvInPlace
<1>7. CASE n = Kind(Top).cols /\ Datum(Top) \notin Singular /\ Top \notin Names
  <2>1. /\ stack' = stack /\ user' = user
        /\ cache' = Release(Store(GetScratch(cache, n), Top, x), ScratchSlots(cache, n))
    BY <1>7, Zenon DEF InvInPlace
  <2>2. Values!AYield(1, Kind(Top), x)
    <3> HIDE DEF n, x
    <3> QED BY <1>1, <1>7, <2>1, InPlaceView
  <2> QED BY <1>1, <1>2, <1>3, <1>7, <2>1, <2>2 DEF Values!AInvInPlace
<1> QED BY <1>4, <1>5, <1>6, <1>7

\* Assignments and the copy constructors end the expression.
LEMMA AssignValue ==
  ASSUME CacheInv, NEW n \in Names
  PROVE  /\ Assign(n) => Values!AAssign(n)
         /\ AddAssign(n) => Values!AAddAssign(n)
         /\ Set(n) => Values!ASet(n)
         /\ Copy(n) => Values!ACopy(n)
<1>1. user \in [Names -> Data]
  BY DEF CacheInv, TypeOK
<1>2. Len(stack) = 1 => /\ Len(View) = 1
                        /\ Values!AKind(Values!ATop) = Kind(Top)
                        /\ Values!ADatum(Values!ATop) = Datum(Top)
  BY StackLength, OperandViews
<1>3. stack' = <<>> => View' = <<>> /\ Values!AThrow
  BY EmptyView
<1>4. ASSUME Assign(n) PROVE Values!AAssign(n)
  BY <1>1, <1>2, <1>3, <1>4 DEF Assign, Finish, Throw, Values!AAssign
<1>5. ASSUME AddAssign(n) PROVE Values!AAddAssign(n)
  BY <1>1, <1>2, <1>3, <1>5 DEF AddAssign, Finish, Throw, Values!AAddAssign
<1>6. ASSUME Set(n) PROVE Values!ASet(n)
  BY <1>1, <1>2, <1>3, <1>6 DEF Set, Finish, Values!ASet
<1>7. ASSUME Copy(n) PROVE Values!ACopy(n)
  BY <1>1, <1>2, <1>3, <1>7 DEF Copy, Finish, Values!ACopy
<1> QED BY <1>4, <1>5, <1>6, <1>7

LEMMA PrintValue ==
  ASSUME CacheInv, PrintOut
  PROVE  Values!APrint
<1>1. Len(stack) = 1 /\ stack' = <<>> /\ user' = user
  BY DEF PrintOut
<1> QED BY <1>1, StackLength, OperandViews, EmptyView DEF Values!APrint

LEMMA InitialValues == Init => Values!AInit
<1> SUFFICES ASSUME Init PROVE Values!AInit
  OBVIOUS
<1>1. CacheInv /\ stack = <<>>
  BY Initially DEF Init
<1>2. View = <<>>
  BY <1>1, OperandViews
<1> QED BY <1>2 DEF Init, Values!AInit

\* Every step of the code is a step of the evaluator, or leaves what it sees
\* as it is.
LEMMA StepValue == CacheInv /\ [Next]_vars => [Values!ANext]_(Values!avars)
<1> SUFFICES ASSUME CacheInv, [Next]_vars PROVE [Values!ANext]_(Values!avars)
  OBVIOUS
<1>1. CASE UNCHANGED vars
  BY <1>1 DEF vars, View, Values!avars
<1>2. CASE \E n \in Names : Use(n) \/ Assign(n) \/ AddAssign(n) \/ Set(n) \/ Copy(n)
  BY <1>2, UseValue, AssignValue DEF Values!ANext
<1>3. CASE \E r, c \in Dims, d \in Data : Make(r, c, d)
  BY <1>3, MakeValue DEF Values!ANext
<1>4. CASE \E n \in Dims, d \in Data : Skew(n, d)
  BY <1>4, SkewValue DEF Values!ANext
<1>5. CASE \E op \in BinOps : Binary(op)
  BY <1>5, BinaryValue, SameShapes DEF Values!ANext
<1>6. CASE Dot \/ Scale \/ Transpose \/ Conj \/ Inv \/ InvInPlace \/ PrintOut
  BY <1>6, DotValue, ScaleValue, TransValue, ConjValue, InvValue, InvInPlaceValue,
     PrintValue DEF Values!ANext
<1> QED BY <1>1, <1>2, <1>3, <1>4, <1>5, <1>6 DEF Next

\* The cache is invisible: whatever is reused, lost or left over, an expression
\* computes from the values of its operands what it would compute if every
\* intermediate result were a fresh object (cBaseMath.cpp:63-221 behind the
\* operators of cMatrix.cpp, cVector.cpp and cQuaternion.cpp).
THEOREM ValuesTheorem == Spec => ImplementsValues
BY InitialValues, StepValue, CacheCorrect, PTL DEF Spec, ImplementsValues, Values!ASpec

-----------------------------------------------------------------------------
(* The bound on the cache *)

\* The slots of one kind that are not lost, those of them that are withheld,
\* and the most there may be.
NotLost(c, l, k) == {i \in DOMAIN c \ l : c[i].kind = k}
Held(c, l, k) == {i \in Unavailable(c) \ l : c[i].kind = k}
Cap(k) == IF k.type = "array" THEN 3 ELSE MaxDepth + 2
Bounded(c, l) == \A k \in Kinds : Cardinality(NotLost(c, l, k)) <= Cap(k)

LEMMA CapFacts ==
  ASSUME NEW k
  PROVE  Cap(k) \in Nat
BY ClientAssumption DEF Cap

LEMMA SlotsAreFinite ==
  ASSUME NEW c \in Seq(Object)
  PROVE  /\ IsFiniteSet(DOMAIN c)
         /\ \A l, k : IsFiniteSet(NotLost(c, l, k)) /\ IsFiniteSet(Held(c, l, k))
         /\ \A l, k : /\ Cardinality(NotLost(c, l, k)) \in Nat
                      /\ Cardinality(Held(c, l, k)) \in Nat
<1>1. IsFiniteSet(DOMAIN c)
  BY LenProperties, FS_Interval
<1>2. \A l, k : NotLost(c, l, k) \in SUBSET DOMAIN c /\ Held(c, l, k) \in SUBSET DOMAIN c
  BY DEF NotLost, Held, Unavailable
<1>3. \A S \in SUBSET DOMAIN c : IsFiniteSet(S)
  BY <1>1, FS_Subset
<1> QED BY <1>1, <1>2, <1>3, FS_CardinalityType

\* getTmp makes an object only when every one of its kind is withheld or lost.
LEMMA GetTmpMakesLast ==
  ASSUME NEW c \in Seq(Object), NEW k \in Kinds, NEW l, l \subseteq DOMAIN c
  PROVE  /\ \A m : m # k => NotLost(GetTmp(c, k), l, m) = NotLost(c, l, m)
         /\ \/ NotLost(GetTmp(c, k), l, k) = NotLost(c, l, k)
            \/ NotLost(GetTmp(c, k), l, k) \subseteq Held(c, l, k) \cup {Slot(c, k)}
<1> DEFINE new == [kind |-> k, available |-> FALSE, data |-> Zero]
           s == Slot(c, k)
           d == GetTmp(c, k)
<1>1. DOMAIN c = 1 .. Len(c) /\ Len(c) \in Nat /\ \A i \in DOMAIN c : c[i] \in Object
  BY LenProperties
<1>2. Extends(c, d)
  BY GetTmpFacts
<1>3. CASE Candidates(c, k) = {}
  <2>1. s = Len(c) + 1 /\ d = Append(c, new)
    BY <1>3 DEF Slot, GetTmp
  <2>2. new \in Object
    BY DataAssumption DEF Object
  <2>3. DOMAIN d = DOMAIN c \cup {s} /\ d[s] = new /\ s \notin DOMAIN c
    <3> HIDE DEF new
    <3>1. d \in Seq(Object) /\ Len(d) = Len(c) + 1 /\ d[Len(c) + 1] = new
      BY <2>1, <2>2, AppendProperties
    <3>2. DOMAIN d = 1 .. Len(c) + 1
      <4> HIDE DEF d
      <4> QED BY <3>1, LenProperties
    <3> QED BY <1>1, <2>1, <3>1, <3>2
  <2>4. d[s].kind = k
    BY <2>3
  <2> HIDE DEF d, s, new
  <2>5. \A m : m # k => NotLost(d, l, m) = NotLost(c, l, m)
    BY <1>2, <2>3, <2>4 DEF NotLost, Extends
  <2>6. \A i \in NotLost(c, l, k) : ~c[i].available
    <3> SUFFICES ASSUME NEW i \in NotLost(c, l, k) PROVE ~c[i].available
      OBVIOUS
    <3>1. i \in DOMAIN c /\ c[i].kind = k /\ i \notin Candidates(c, k)
      BY <1>3 DEF NotLost
    <3>2. k.rows >= k.rows
      BY DEF Kinds
    <3> QED BY <3>1, <3>2 DEF Candidates, Fits
  <2>7. NotLost(d, l, k) \subseteq Held(c, l, k) \cup {s}
    BY <1>2, <2>3, <2>6 DEF NotLost, Held, Unavailable, Extends
  <2> QED BY <2>5, <2>7 DEF d, s
<1>4. CASE Candidates(c, k) # {}
  <2>1. d = [c EXCEPT ![s].available = FALSE]
    BY <1>4 DEF GetTmp
  <2>2. DOMAIN d = DOMAIN c
    BY <2>1
  <2> HIDE DEF d
  <2>3. \A m : NotLost(d, l, m) = NotLost(c, l, m)
    BY <1>2, <2>2 DEF NotLost, Extends
  <2> QED BY <2>3 DEF d
<1> QED BY <1>3, <1>4

\* So a bound that exceeds what is withheld is kept.
LEMMA GetTmpBounded ==
  ASSUME NEW c \in Seq(Object), NEW k \in Kinds, NEW l, l \subseteq DOMAIN c,
         Bounded(c, l), Cardinality(Held(c, l, k)) < Cap(k)
  PROVE  Bounded(GetTmp(c, k), l)
<1> DEFINE d == GetTmp(c, k)
           H == Held(c, l, k)
           i == Slot(c, k)
<1>1. d \in Seq(Object)
  BY GetTmpFacts
<1>2. /\ \A m : m # k => NotLost(d, l, m) = NotLost(c, l, m)
      /\ NotLost(d, l, k) = NotLost(c, l, k) \/ NotLost(d, l, k) \subseteq H \cup {i}
  BY GetTmpMakesLast
<1>3. IsFiniteSet(H) /\ Cardinality(H) \in Nat
  BY SlotsAreFinite
<1>4. IsFiniteSet(H \cup {i}) /\ Cardinality(H \cup {i}) \in Nat
      /\ Cardinality(H \cup {i}) <= Cardinality(H) + 1
  <2> HIDE DEF H, i
  <2> QED BY <1>3, FS_AddElement, FS_CardinalityType
<1>5. NotLost(d, l, k) \subseteq H \cup {i} => Cardinality(NotLost(d, l, k)) <= Cap(k)
  <2> DEFINE N == NotLost(d, l, k)
  <2>1. Cardinality(N) \in Nat
    <3> HIDE DEF d
    <3> QED BY <1>1, SlotsAreFinite
  <2>2. ASSUME N \in SUBSET (H \cup {i}) PROVE Cardinality(N) <= Cardinality(H \cup {i})
    <3> HIDE DEF N, H, i
    <3> QED BY <1>4, <2>2, FS_Subset
  <2>3. Cardinality(H) + 1 <= Cap(k)
    BY <1>3, CapFacts
  <2> HIDE DEF N, H, i
  <2> QED BY <1>3, <1>4, <2>1, <2>2, <2>3, CapFacts DEF N
<1> HIDE DEF d, H, i
<1> QED BY <1>2, <1>5 DEF Bounded, d

\* d has the objects of c, whatever they contain.
SameKinds(c, d) == DOMAIN d = DOMAIN c /\ \A i \in DOMAIN c : d[i].kind = c[i].kind

LEMMA SameKindsFacts ==
  /\ \A c : SameKinds(c, c)
  /\ \A c, d, e : SameKinds(c, d) /\ SameKinds(d, e) => SameKinds(c, e)
BY DEF SameKinds

LEMMA StoreSame ==
  ASSUME NEW c \in Seq(Object), NEW i \in DOMAIN c, NEW x \in Data
  PROVE  Store(c, i, x) \in Seq(Object) /\ SameKinds(c, Store(c, i, x))
<1> DEFINE h == Store(c, i, x)
<1>1. /\ h \in Seq(Object) /\ DOMAIN h = DOMAIN c
      /\ h[i].kind = c[i].kind
      /\ \A j \in DOMAIN c : j # i => h[j] = c[j]
  BY StoreFacts
<1> HIDE DEF h
<1> QED BY <1>1 DEF SameKinds, h

LEMMA ReleaseSame ==
  ASSUME NEW c \in Seq(Object), NEW S
  PROVE  Release(c, S) \in Seq(Object) /\ SameKinds(c, Release(c, S))
BY ReleaseFacts DEF SameKinds, Extends

\* Losing a slot, writing and releasing make no object.
LEMMA StillBounded ==
  ASSUME NEW c \in Seq(Object), NEW d \in Seq(Object), SameKinds(c, d),
         NEW l, NEW m, l \subseteq m, Bounded(c, l)
  PROVE  Bounded(d, m)
<1> SUFFICES ASSUME NEW k \in Kinds
             PROVE  Cardinality(NotLost(d, m, k)) <= Cap(k)
  BY DEF Bounded
<1> DEFINE N == NotLost(c, l, k)
           M == NotLost(d, m, k)
<1>1. M \in SUBSET N
  BY DEF NotLost, SameKinds
<1>2. IsFiniteSet(N) /\ Cardinality(N) \in Nat /\ Cardinality(M) \in Nat
  BY SlotsAreFinite
<1>3. Cardinality(M) <= Cardinality(N)
  <2> HIDE DEF M, N
  <2> QED BY <1>1, <1>2, FS_Subset
<1>4. Cardinality(N) <= Cap(k)
  BY DEF Bounded
<1> HIDE DEF M, N
<1> QED BY <1>2, <1>3, <1>4, CapFacts DEF M

\* Taking an object withholds at most one more, and none of another kind.
LEMMA HeldAfter ==
  ASSUME NEW c \in Seq(Object), NEW k \in Kinds, NEW l, NEW m
  PROVE  /\ Cardinality(Held(GetTmp(c, k), l, m)) <= Cardinality(Held(c, l, m)) + 1
         /\ k.type # "array" /\ m # k =>
              Cardinality(Held(GetTmp(c, k), l, m)) <= Cardinality(Held(c, l, m))
<1> DEFINE d == GetTmp(c, k)
           s == Slot(c, k)
           G == Held(d, l, m)
           H == Held(c, l, m)
<1>1. /\ d \in Seq(Object) /\ Extends(c, d) /\ Unavailable(d) = Unavailable(c) \cup {s}
      /\ k.type # "array" => d[s].kind = k
  BY GetTmpFacts
<1>2. IsFiniteSet(H) /\ Cardinality(H) \in Nat
  BY SlotsAreFinite
<1>3. Cardinality(G) \in Nat
  <2> HIDE DEF d
  <2> QED BY <1>1, SlotsAreFinite
<1>4. G \in SUBSET (H \cup {s})
  <2> HIDE DEF d, s
  <2> QED BY <1>1 DEF Held, Unavailable, Extends
<1>5. k.type # "array" /\ m # k => G \in SUBSET H
  <2> HIDE DEF d, s
  <2> QED BY <1>1 DEF Held, Unavailable, Extends
<1> HIDE DEF d, s, G, H
<1>6. /\ IsFiniteSet(H \cup {s}) /\ Cardinality(H \cup {s}) \in Nat
      /\ Cardinality(H \cup {s}) <= Cardinality(H) + 1
  <2>1. /\ IsFiniteSet(H \cup {s})
        /\ Cardinality(H \cup {s}) = IF s \in H THEN Cardinality(H) ELSE Cardinality(H) + 1
    BY <1>2, FS_AddElement
  <2>2. Cardinality(H \cup {s}) \in Nat
    BY <2>1, FS_CardinalityType
  <2> QED BY <1>2, <2>1, <2>2
<1>7. Cardinality(G) <= Cardinality(H \cup {s})
  BY <1>4, <1>6, FS_Subset
<1>8. k.type # "array" /\ m # k => Cardinality(G) <= Cardinality(H)
  BY <1>2, <1>5, FS_Subset
<1>9. Cardinality(G) <= Cardinality(H) + 1
  BY <1>2, <1>3, <1>6, <1>7
<1> QED BY <1>8, <1>9 DEF G, H, d

\* An inversion keeps the bound: its matrix is one more than an expression and
\* its result hold, and no array is withheld when it asks for three.
LEMMA ScratchBounded ==
  ASSUME NEW c \in Seq(Object), NEW n \in Nat, NEW l, l \subseteq DOMAIN c,
         Bounded(c, l), Cardinality(Held(c, l, Mat(n, n))) <= MaxDepth + 1,
         Cardinality(Held(c, l, Arr(n))) = 0
  PROVE  Bounded(GetScratch(c, n), l)
<1> DEFINE m == Mat(n, n)
           a == Arr(n)
           c1 == Scratch1(c, n)
           c2 == Scratch2(c, n)
           c3 == Scratch3(c, n)
<1>1. /\ m \in Kinds /\ a \in Kinds /\ m # a /\ m.type # "array" /\ MaxDepth \in Nat
      /\ Cap(m) = MaxDepth + 2 /\ Cap(a) = 3
  BY ClientAssumption DEF Mat, Arr, Kinds, Types, Cap
<1>2. /\ c1 = GetTmp(c, m) /\ c2 = GetTmp(c1, a) /\ c3 = GetTmp(c2, a)
      /\ GetScratch(c, n) = GetTmp(c3, a)
  BY DEF Scratch1, Scratch2, Scratch3, GetScratch
<1>3. Cardinality(Held(c, l, m)) <= MaxDepth + 1 /\ Cardinality(Held(c, l, a)) = 0
  OBVIOUS
<1> HIDE DEF m, a, c1, c2, c3
<1>4. /\ c1 \in Seq(Object) /\ Extends(c, c1)
      /\ c2 \in Seq(Object) /\ Extends(c1, c2)
      /\ c3 \in Seq(Object) /\ Extends(c2, c3)
  <2>1. c1 \in Seq(Object) /\ Extends(c, c1)
    BY <1>1, <1>2, GetTmpFacts
  <2>2. c2 \in Seq(Object) /\ Extends(c1, c2)
    BY <1>1, <1>2, <2>1, GetTmpFacts
  <2>3. c3 \in Seq(Object) /\ Extends(c2, c3)
    BY <1>1, <1>2, <2>2, GetTmpFacts
  <2> QED BY <2>1, <2>2, <2>3
<1>5. l \subseteq DOMAIN c1 /\ l \subseteq DOMAIN c2 /\ l \subseteq DOMAIN c3
  BY <1>4 DEF Extends
<1>6. /\ Cardinality(Held(c, l, m)) \in Nat /\ Cardinality(Held(c1, l, a)) \in Nat
      /\ Cardinality(Held(c2, l, a)) \in Nat /\ Cardinality(Held(c3, l, a)) \in Nat
  BY <1>4, SlotsAreFinite
<1>7. /\ Cardinality(Held(c1, l, a)) <= Cardinality(Held(c, l, a))
      /\ Cardinality(Held(c2, l, a)) <= Cardinality(Held(c1, l, a)) + 1
      /\ Cardinality(Held(c3, l, a)) <= Cardinality(Held(c2, l, a)) + 1
  <2>1. Cardinality(Held(c1, l, a)) <= Cardinality(Held(c, l, a))
    BY <1>1, <1>2, HeldAfter
  <2>2. Cardinality(Held(c2, l, a)) <= Cardinality(Held(c1, l, a)) + 1
    BY <1>1, <1>2, <1>4, HeldAfter
  <2>3. Cardinality(Held(c3, l, a)) <= Cardinality(Held(c2, l, a)) + 1
    BY <1>1, <1>2, <1>4, HeldAfter
  <2> QED BY <2>1, <2>2, <2>3
<1>8. /\ Cardinality(Held(c, l, m)) < Cap(m)
      /\ Cardinality(Held(c1, l, a)) < Cap(a)
      /\ Cardinality(Held(c2, l, a)) < Cap(a)
      /\ Cardinality(Held(c3, l, a)) < Cap(a)
  BY <1>1, <1>3, <1>6, <1>7
<1>9. Bounded(c1, l)
  BY <1>1, <1>2, <1>8, GetTmpBounded
<1>10. Bounded(c2, l)
  BY <1>1, <1>2, <1>4, <1>5, <1>8, <1>9, GetTmpBounded
<1>11. Bounded(c3, l)
  BY <1>1, <1>2, <1>4, <1>5, <1>8, <1>10, GetTmpBounded
<1> QED BY <1>1, <1>2, <1>4, <1>5, <1>8, <1>11, GetTmpBounded

\* No expression outgrows MaxDepth or has an array for an operand.
Narrow(v) == /\ Len(v) <= MaxDepth
             /\ \A i \in 1 .. Len(v) : v[i] \in Names \/ v[i].kind.type # "array"

BoundInv == CacheInv /\ Narrow(View) /\ Bounded(cache, lost)

\* An expression has at most as many live slots as operands.
LEMMA LiveCount ==
  ASSUME NEW T, NEW s \in Seq(T)
  PROVE  IsFiniteSet(LiveIn(s)) /\ Cardinality(LiveIn(s)) <= Len(s)
<1> DEFINE D == {i \in 1 .. Len(s) : s[i] \notin Names}
           f == [i \in D |-> s[i]]
<1>1. Len(s) \in Nat /\ DOMAIN s = 1 .. Len(s)
  BY LenProperties
<1>2. /\ IsFiniteSet(1 .. Len(s)) /\ Cardinality(1 .. Len(s)) = Len(s)
  BY <1>1, FS_Interval
<1>3. IsFiniteSet(D) /\ Cardinality(D) <= Len(s) /\ Cardinality(D) \in Nat
  <2>1. D \in SUBSET (1 .. Len(s))
    OBVIOUS
  <2> HIDE DEF D
  <2> QED BY <1>2, <2>1, FS_Subset, FS_CardinalityType
<1>4. f \in Surjection(D, LiveIn(s))
  BY <1>1 DEF Surjection, LiveIn
<1>5. IsFiniteSet(LiveIn(s)) /\ Cardinality(LiveIn(s)) <= Cardinality(D)
  <2> HIDE DEF D, f
  <2> QED BY <1>3, <1>4, FS_Surjection
<1>6. Cardinality(LiveIn(s)) \in Nat
  BY <1>5, FS_CardinalityType
<1> HIDE DEF D
<1> QED BY <1>1, <1>3, <1>5, <1>6

\* What an operator finds withheld.
LEMMA HeldFacts ==
  ASSUME BoundInv
  PROVE  /\ cache \in Seq(Object) /\ lost \subseteq DOMAIN cache
         /\ \A k \in Kinds : Cardinality(Held(cache, lost, k)) \in Nat
                             /\ Cardinality(Held(cache, lost, k)) <= MaxDepth
         /\ \A n \in Nat : Cardinality(Held(cache, lost, Arr(n))) = 0
<1> DEFINE T == Names \cup DOMAIN cache
<1>1. /\ cache \in Seq(Object) /\ stack \in Seq(T) /\ lost \subseteq DOMAIN cache
      /\ CacheInv /\ Narrow(View) /\ Len(stack) \in Nat
  BY LenProperties DEF BoundInv, CacheInv, TypeOK
<1>2. Unavailable(cache) \ lost = LiveIn(stack)
  BY <1>1, InvIsGood DEF Good
<1>3. IsFiniteSet(LiveIn(stack)) /\ Cardinality(LiveIn(stack)) <= Len(stack)
      /\ Cardinality(LiveIn(stack)) \in Nat
  <2> HIDE DEF T
  <2> QED BY <1>1, LiveCount, FS_CardinalityType
<1>4. Len(stack) <= MaxDepth /\ MaxDepth \in Nat
  BY <1>1, OperandViews, ClientAssumption DEF Narrow
<1>5. ASSUME NEW k \in Kinds
      PROVE  /\ Cardinality(Held(cache, lost, k)) \in Nat
             /\ Cardinality(Held(cache, lost, k)) <= MaxDepth
  <2> DEFINE H == Held(cache, lost, k)
             L == LiveIn(stack)
  <2>1. H \in SUBSET L
    BY <1>2 DEF Held
  <2>2. Cardinality(H) \in Nat
    BY <1>1, SlotsAreFinite
  <2>3. Cardinality(H) <= Cardinality(L)
    <3> HIDE DEF H, L
    <3> QED BY <1>3, <2>1, FS_Subset DEF L
  <2> HIDE DEF H
  <2> QED BY <1>1, <1>3, <1>4, <2>2, <2>3 DEF H
<1>6. ASSUME NEW x \in LiveIn(stack)
      PROVE  cache[x].kind.type # "array"
  <2>1. PICK i \in 1 .. Len(stack) : stack[i] = x /\ x \notin Names
    BY <1>1, LenProperties DEF LiveIn
  <2>2. View[i] = EntryIn(cache, x) /\ Len(View) = Len(stack)
    <3>1. View = ViewOf(cache, stack)
      BY ViewIsOf
    <3> HIDE DEF T
    <3> QED BY <1>1, <2>1, <3>1, ViewFacts
  <2>3. View[i] = [kind |-> cache[x].kind, data |-> cache[x].data]
    BY <2>1, <2>2 DEF EntryIn
  <2>4. View[i] \notin Names
    <3>1. x \in DOMAIN cache
      BY <1>1, LiveIsTaken
    <3>2. cache[x] \in Object
      BY <1>1, <3>1, ElementOfSeq, LenProperties
    <3> QED BY <2>3, <3>2, ClientAssumption DEF Object
  <2> QED BY <1>1, <2>2, <2>3, <2>4 DEF Narrow
<1>7. ASSUME NEW n \in Nat
      PROVE  Cardinality(Held(cache, lost, Arr(n))) = 0
  <2>1. Held(cache, lost, Arr(n)) = {}
    BY <1>2, <1>6 DEF Held, Arr
  <2> QED BY <2>1, FS_EmptySet
<1> QED BY <1>1, <1>5, <1>7

-----------------------------------------------------------------------------
(* Expressions stay narrow *)

\* A new operand on top of what is left of a narrow stack.
LEMMA NarrowYield ==
  ASSUME NEW v, NEW T, v \in Seq(T), Narrow(v), NEW n \in Nat, n <= Len(v),
         n >= 1 \/ Len(v) < MaxDepth, NEW x,
         x \in Names \/ x.kind.type # "array"
  PROVE  Narrow(Append(Popped(v, n), x))
<1> DEFINE p == Popped(v, n)
           q == Append(p, x)
           U == T \cup {x}
<1>1. Len(v) \in Nat /\ MaxDepth \in Nat /\ Len(v) <= MaxDepth
      /\ \A i \in 1 .. Len(v) : v[i] \in Names \/ v[i].kind.type # "array"
  BY LenProperties, ClientAssumption DEF Narrow
<1>2. /\ p \in Seq(T) /\ Len(p) = Len(v) - n
      /\ \A i \in 1 .. Len(v) - n : p[i] = v[i]
  BY PoppedFacts
<1>3. p \in Seq(U) /\ x \in U
  <2> HIDE DEF p
  <2>1. T \subseteq U
    OBVIOUS
  <2> HIDE DEF U
  <2> QED BY <1>2, <2>1, SeqMonotonic DEF U
<1>4. /\ Len(q) = Len(p) + 1
      /\ \A i \in 1 .. Len(p) : q[i] = p[i]
      /\ q[Len(p) + 1] = x
  <2> HIDE DEF p, U
  <2> QED BY <1>3, AppendProperties
<1> HIDE DEF p, q, U
<1>5. Len(q) <= MaxDepth
  BY <1>1, <1>2, <1>4
<1>6. ASSUME NEW i \in 1 .. Len(q)
      PROVE  q[i] \in Names \/ q[i].kind.type # "array"
  <2>1. i \in 1 .. Len(p) \/ i = Len(p) + 1
    BY <1>1, <1>2, <1>4
  <2>2. CASE i \in 1 .. Len(p)
    <3>1. i \in 1 .. Len(v) - n /\ i \in 1 .. Len(v)
      BY <1>1, <1>2, <2>2
    <3>2. q[i] = v[i]
      BY <1>2, <1>4, <2>2, <3>1
    <3> QED BY <1>1, <3>1, <3>2
  <2>3. CASE i = Len(p) + 1
    BY <1>4, <2>3
  <2> QED BY <2>1, <2>2, <2>3
<1> QED BY <1>5, <1>6 DEF Narrow, q, p

LEMMA NarrowPopped ==
  ASSUME NEW v, NEW T, v \in Seq(T), Narrow(v), NEW n \in Nat, n <= Len(v)
  PROVE  Narrow(Popped(v, n))
<1> DEFINE p == Popped(v, n)
<1>1. Len(v) \in Nat /\ MaxDepth \in Nat /\ Len(v) <= MaxDepth
      /\ \A i \in 1 .. Len(v) : v[i] \in Names \/ v[i].kind.type # "array"
  BY LenProperties, ClientAssumption DEF Narrow
<1>2. /\ Len(p) = Len(v) - n
      /\ \A i \in 1 .. Len(v) - n : p[i] = v[i]
  BY PoppedFacts
<1>3. \A i \in 1 .. Len(v) - n : i \in 1 .. Len(v)
  BY <1>1
<1> HIDE DEF p
<1> QED BY <1>1, <1>2, <1>3 DEF Narrow, p

\* A step of the evaluator keeps its expressions narrow.
LEMMA NarrowStep ==
  ASSUME CacheInv, Narrow(View), [Values!ANext]_(Values!avars)
  PROVE  Narrow(View')
<1> DEFINE T == {EntryIn(cache, stack[i]) : i \in 1 .. Len(stack)}
<1>1. /\ View \in Seq(T) /\ Len(View) = Len(stack) /\ Len(stack) \in Nat
      /\ View # <<>> => stack # <<>> /\ Len(View) >= 1
  <2>1. stack \in Seq(Names \cup DOMAIN cache)
    BY DEF CacheInv, TypeOK
  <2>2. ViewOf(cache, stack) \in Seq(T)
    BY <2>1, ViewFacts
  <2> HIDE DEF T
  <2> QED BY <2>2, ViewIsOf, OperandViews, StackLength
<1>2. /\ stack # <<>> => Values!AKind(Values!ATop) = Kind(Top) /\ Kind(Top) \in Kinds
      /\ Len(stack) >= 2 => /\ Values!AKind(Values!ASecond) = Kind(Second)
                            /\ Kind(Second) \in Kinds /\ stack # <<>>
  BY OperandViews, OperandFacts, StackLength
<1> HIDE DEF T
<1>3. ASSUME NEW n \in Nat, n <= Len(View), n >= 1 \/ Len(View) < MaxDepth,
             NEW k, k.type # "array", NEW x, Values!AYield(n, k, x)
      PROVE  Narrow(View')
  <2> DEFINE e == [kind |-> k, data |-> x]
  <2>1. e \in Names \/ e.kind.type # "array"
    BY <1>3
  <2>2. View' = Append(Popped(View, n), e)
    BY <1>3 DEF Values!AYield, Values!APop, Popped
  <2> HIDE DEF e
  <2> QED BY <1>1, <1>3, <2>1, <2>2, NarrowYield
<1>4. ASSUME Values!AThrow PROVE Narrow(View')
  <2>1. View' = <<>>
    BY <1>4 DEF Values!AThrow
  <2>2. Len(<<>>) = 0
    BY EmptySeq
  <2> QED BY <2>1, <2>2, ClientAssumption DEF Narrow
<1>5. CASE UNCHANGED Values!avars
  <2>1. View' = View
    BY <1>5 DEF Values!avars
  <2> QED BY <2>1
<1>6. ASSUME NEW n \in Names, Values!AUse(n) PROVE Narrow(View')
  <2>1. View' = Append(View, n) /\ Len(View) < MaxDepth
    BY <1>6 DEF Values!AUse
  <2>2. Popped(View, 0) = View
    BY <1>1, SubSeqFull DEF Popped
  <2>3. Narrow(Append(Popped(View, 0), n))
    BY <1>1, <2>1, NarrowYield
  <2> QED BY <2>1, <2>2, <2>3
<1>7. ASSUME NEW n \in Names, Values!AAssign(n) \/ Values!AAddAssign(n) PROVE Narrow(View')
  <2>1. Values!AThrow
    BY <1>7 DEF Values!AAssign, Values!AAddAssign, Values!AThrow
  <2> QED BY <1>4, <2>1
<1>8. ASSUME NEW n \in Names, Values!ASet(n) \/ Values!ACopy(n) PROVE Narrow(View')
  <2>1. Values!AThrow
    BY <1>8 DEF Values!ASet, Values!ACopy, Values!AThrow
  <2> QED BY <1>4, <2>1
<1>9. ASSUME NEW r, NEW c, NEW d, Values!AMake(r, c, d) PROVE Narrow(View')
  <2>1. Len(View) < MaxDepth /\ Values!AYield(0, Mat(r, c), d)
    BY <1>9, SameShapes DEF Values!AMake
  <2>2. Mat(r, c).type # "array"
    BY DEF Mat
  <2> QED BY <1>1, <1>3, <2>1, <2>2
<1>10. ASSUME NEW n, NEW d, Values!ASkew(n, d) PROVE Narrow(View')
  <2>1. Len(View) < MaxDepth /\ (Values!AYield(0, Mat(n, n), d) \/ Values!AThrow)
    BY <1>10, SameShapes DEF Values!ASkew
  <2>2. Mat(n, n).type # "array"
    BY DEF Mat
  <2> QED BY <1>1, <1>3, <1>4, <2>1, <2>2
<1>11. ASSUME NEW op \in BinOps, Values!ABinary(op) PROVE Narrow(View')
  <2> DEFINE k == Kind(Second)
             l == Kind(Top)
  <2>1. /\ Len(View) >= 2
        /\ <<Values!AKind(Values!ASecond).type, Values!AKind(Values!ATop).type>>
             \in Values!Overloads(op)
        /\ \/ Values!AThrow
           \/ Values!AYield(2, Values!ResultKind(op, Values!AKind(Values!ASecond),
                                                 Values!AKind(Values!ATop)),
                            Combine[op, Values!ADatum(Values!ASecond),
                                    Values!ADatum(Values!ATop)])
    BY <1>11, Zenon DEF Values!ABinary
  <2>2. k \in Kinds /\ l \in Kinds /\ <<k.type, l.type>> \in Overloads(op)
        /\ Values!AKind(Values!ASecond) = k /\ Values!AKind(Values!ATop) = l
    BY <1>1, <1>2, <2>1, SameShapes
  <2>3. ResultKind(op, k, l).type # "array"
    <3> HIDE DEF k, l
    <3> QED BY <2>2, ResultIsNoArray
  <2>4. Values!ResultKind(op, Values!AKind(Values!ASecond), Values!AKind(Values!ATop))
          = ResultKind(op, k, l)
    BY <2>2, SameShapes
  <2> DEFINE r == ResultKind(op, k, l)
             x == Combine[op, Values!ADatum(Values!ASecond), Values!ADatum(Values!ATop)]
  <2>5. Values!AThrow \/ Values!AYield(2, r, x)
    BY <2>1, <2>4, Zenon
  <2>6. r.type # "array" /\ 2 <= Len(View) /\ 2 \in Nat
    BY <1>1, <2>1, <2>3
  <2> HIDE DEF r, x
  <2> QED BY <1>3, <1>4, <2>5, <2>6
<1>12. ASSUME Values!ADot PROVE Narrow(View')
  <2>1. Len(View) >= 2 /\ (View' = Popped(View, 2) \/ Values!AThrow)
    BY <1>12 DEF Values!ADot, Values!APop, Popped
  <2>2. Narrow(Popped(View, 2))
    BY <1>1, <2>1, NarrowPopped
  <2> QED BY <1>4, <2>1, <2>2
<1>13. ASSUME Values!AScale \/ Values!ATrans \/ Values!AConj PROVE Narrow(View')
  <2>1. /\ View # <<>>
        /\ \E k, x : k.type # "array" /\ Values!AYield(1, k, x)
    <3>1. CASE Values!AScale
      BY <3>1 DEF Values!AScale
    <3>2. CASE Values!ATrans
      BY <3>2 DEF Values!ATrans, Values!Mat
    <3>3. CASE Values!AConj
      BY <3>3 DEF Values!AConj, Values!Quat
    <3> QED BY <1>13, <3>1, <3>2, <3>3
  <2> QED BY <1>1, <1>3, <2>1
<1>14. ASSUME Values!AInv \/ Values!AInvInPlace PROVE Narrow(View')
  <2>1. /\ View # <<>>
        /\ \/ Values!AThrow
           \/ View' = View
           \/ \E k, x : k.type # "array" /\ Values!AYield(1, k, x)
    <3>1. CASE Values!AInv
      BY <3>1 DEF Values!AInv
    <3>2. CASE Values!AInvInPlace
      BY <3>2 DEF Values!AInvInPlace
    <3> QED BY <1>14, <3>1, <3>2
  <2> QED BY <1>1, <1>3, <1>4, <2>1
<1>15. ASSUME Values!APrint PROVE Narrow(View')
  <2>1. Values!AThrow
    BY <1>15 DEF Values!APrint, Values!AThrow
  <2> QED BY <1>4, <2>1
<1> QED
  BY <1>5, <1>6, <1>7, <1>8, <1>9, <1>10, <1>11, <1>12, <1>13, <1>14, <1>15, SameShapes
     DEF Values!ANext

-----------------------------------------------------------------------------
(* No operator makes more objects than the bound allows *)

\* A cache that differs in nothing the bound is about.
LEMMA SameBound ==
  ASSUME BoundInv, cache' = cache, lost \subseteq lost'
  PROVE  Bounded(cache', lost')
<1>1. SameKinds(cache, cache') /\ cache \in Seq(Object)
  BY HeldFacts, SameKindsFacts
<1> QED BY <1>1, StillBounded DEF BoundInv

LEMMA ReleaseBounded ==
  ASSUME BoundInv, NEW S, cache' = Release(cache, S), lost \subseteq lost'
  PROVE  Bounded(cache', lost')
<1>1. cache \in Seq(Object)
  BY HeldFacts
<1>2. cache' \in Seq(Object) /\ SameKinds(cache, cache')
  BY <1>1, ReleaseSame
<1> QED BY <1>1, <1>2, StillBounded DEF BoundInv

\* One object for a result.
LEMMA TakeBounded ==
  ASSUME BoundInv, NEW k \in Kinds, k.type # "array"
  PROVE  Bounded(GetTmp(cache, k), lost)
<1>1. /\ cache \in Seq(Object) /\ lost \subseteq DOMAIN cache
      /\ Cardinality(Held(cache, lost, k)) \in Nat
      /\ Cardinality(Held(cache, lost, k)) <= MaxDepth
  BY HeldFacts
<1>2. Cap(k) = MaxDepth + 2 /\ MaxDepth \in Nat
  BY ClientAssumption DEF Cap
<1>3. Cardinality(Held(cache, lost, k)) < Cap(k)
  BY <1>1, <1>2
<1> QED BY <1>1, <1>3, GetTmpBounded DEF BoundInv

LEMMA YieldBounded ==
  ASSUME BoundInv, NEW n, NEW k \in Kinds, k.type # "array", NEW x \in Data, NEW S,
         Yield(n, k, x, S), lost \subseteq lost'
  PROVE  Bounded(cache', lost')
<1> DEFINE g == GetTmp(cache, k)
           i == Slot(cache, k)
           h == Store(g, i, x)
<1>1. g \in Seq(Object) /\ i \in DOMAIN g
  BY HeldFacts, GetTmpFacts
<1>2. Bounded(g, lost)
  BY TakeBounded
<1>3. h \in Seq(Object) /\ SameKinds(g, h)
  <2> HIDE DEF g, i
  <2> QED BY <1>1, StoreSame
<1>4. cache' = Release(h, S)
  BY DEF Yield
<1> HIDE DEF h, g
<1>5. cache' \in Seq(Object) /\ SameKinds(h, cache')
  BY <1>3, <1>4, ReleaseSame
<1>6. SameKinds(g, cache')
  BY <1>3, <1>5, SameKindsFacts
<1> QED BY <1>1, <1>2, <1>5, <1>6, StillBounded

\* A result and the scratch objects of an inversion.
LEMMA InvertBounded ==
  ASSUME BoundInv, NEW n \in Nat
  PROVE  Bounded(GetScratch(GetTmp(cache, Mat(n, n)), n), lost)
<1> DEFINE m == Mat(n, n)
           a == Arr(n)
           g == GetTmp(cache, m)
<1>1. m \in Kinds /\ m.type # "array" /\ a \in Kinds /\ m # a
  BY DEF Mat, Arr, Kinds, Types
<1>2. /\ cache \in Seq(Object) /\ lost \subseteq DOMAIN cache /\ MaxDepth \in Nat
      /\ Cardinality(Held(cache, lost, m)) \in Nat
      /\ Cardinality(Held(cache, lost, m)) <= MaxDepth
      /\ Cardinality(Held(cache, lost, a)) = 0
  BY <1>1, HeldFacts, ClientAssumption
<1>3. g \in Seq(Object) /\ Extends(cache, g)
  BY <1>1, <1>2, GetTmpFacts
<1>4. lost \subseteq DOMAIN g
  BY <1>2, <1>3 DEF Extends
<1>5. Bounded(g, lost)
  BY <1>1, TakeBounded
<1>6. /\ Cardinality(Held(g, lost, m)) <= Cardinality(Held(cache, lost, m)) + 1
      /\ Cardinality(Held(g, lost, a)) <= Cardinality(Held(cache, lost, a))
  <2> HIDE DEF m, a
  <2> QED BY <1>1, <1>2, HeldAfter
<1>7. Cardinality(Held(g, lost, m)) \in Nat /\ Cardinality(Held(g, lost, a)) \in Nat
  <2> HIDE DEF g
  <2> QED BY <1>3, SlotsAreFinite
<1>8. Cardinality(Held(g, lost, m)) <= MaxDepth + 1 /\ Cardinality(Held(g, lost, a)) = 0
  <2> HIDE DEF g, m, a
  <2> QED BY <1>2, <1>6, <1>7
<1> HIDE DEF g
<1>9. Bounded(GetScratch(g, n), lost)
  BY <1>3, <1>4, <1>5, <1>8, ScratchBounded
<1> QED BY <1>9 DEF g

LEMMA InPlaceBounded ==
  ASSUME BoundInv, NEW n \in Nat
  PROVE  Bounded(GetScratch(cache, n), lost)
<1>1. Mat(n, n) \in Kinds
  BY KindFacts
<1>2. /\ cache \in Seq(Object) /\ lost \subseteq DOMAIN cache /\ MaxDepth \in Nat
      /\ Cardinality(Held(cache, lost, Mat(n, n))) <= MaxDepth + 1
      /\ Cardinality(Held(cache, lost, Arr(n))) = 0
  BY <1>1, HeldFacts, ClientAssumption
<1> QED BY <1>2, ScratchBounded DEF BoundInv

LEMMA InvBounded ==
  ASSUME BoundInv, Inv
  PROVE  Bounded(cache', lost')
<1> DEFINE n    == Kind(Top).rows
           k    == Mat(Kind(Top).cols, Kind(Top).rows)
           ans  == Slot(cache, k)
           got  == GetTmp(cache, k)
           took == ScratchSlots(got, n)
           all  == GetScratch(got, n)
           x    == Apply["inv", Datum(Top)]
<1>1. /\ k \in Kinds /\ k.type # "array" /\ n \in Nat /\ x \in Data
      /\ cache \in Seq(Object) /\ Kind(Top) \in Kinds /\ k.rows = Kind(Top).cols
      /\ k.cols = Kind(Top).rows
  <2>1. stack # <<>> /\ CacheInv
    BY DEF Inv, BoundInv
  <2> QED BY <2>1, OperandFacts, KindFacts, HeldFacts, DataAssumption DEF UnOps, Mat
<1>2. got \in Seq(Object) /\ ans \in DOMAIN got /\ Bounded(got, lost)
  BY <1>1, GetTmpFacts, TakeBounded
<1>3. k.rows = k.cols => k = Mat(n, n)
  BY <1>1
<1>4. all \in Seq(Object) /\ Extends(got, all)
  <2> HIDE DEF got
  <2> QED BY <1>1, <1>2, ScratchFacts DEF got
<1>5. k.rows = k.cols => Bounded(all, lost)
  BY <1>1, <1>3, InvertBounded
<1>6. CASE k.rows # k.cols
  <2>1. cache' = got /\ lost \subseteq lost'
    BY <1>6, Zenon DEF Inv, Throw
  <2>2. SameKinds(got, got)
    BY SameKindsFacts
  <2> HIDE DEF got
  <2> QED BY <1>2, <2>1, <2>2, StillBounded
<1>7. CASE k.rows = k.cols /\ Datum(Top) \in Singular
  <2>1. cache' = all /\ lost \subseteq lost'
    BY <1>7, Zenon DEF Inv, Throw
  <2>2. SameKinds(all, all)
    BY SameKindsFacts
  <2> HIDE DEF all
  <2> QED BY <1>4, <1>5, <1>7, <2>1, <2>2, StillBounded
<1>8. CASE k.rows = k.cols /\ Datum(Top) \notin Singular
  <2> DEFINE h == Store(all, ans, x)
  <2>1. cache' = Release(h, {Top} \cup took) /\ lost' = lost
    BY <1>8, Zenon DEF Inv
  <2>2. ans \in DOMAIN all
    BY <1>2, <1>4 DEF Extends
  <2>3. h \in Seq(Object) /\ SameKinds(all, h)
    <3> HIDE DEF all, ans, x
    <3> QED BY <1>1, <1>4, <2>2, StoreSame
  <2> HIDE DEF h, all
  <2>4. cache' \in Seq(Object) /\ SameKinds(h, cache')
    BY <2>1, <2>3, ReleaseSame
  <2>5. SameKinds(all, cache')
    BY <2>3, <2>4, SameKindsFacts
  <2> QED BY <1>4, <1>5, <1>8, <2>1, <2>4, <2>5, StillBounded
<1> QED BY <1>6, <1>7, <1>8

LEMMA InvInPlaceBounded ==
  ASSUME BoundInv, InvInPlace
  PROVE  Bounded(cache', lost')
<1> DEFINE n == Kind(Top).rows
           c == GetScratch(cache, n)
           x == Apply["inv", Datum(Top)]
<1>1. /\ n \in Nat /\ x \in Data /\ cache \in Seq(Object)
      /\ Top \in Names \cup DOMAIN cache
  <2>1. stack # <<>> /\ CacheInv
    BY DEF InvInPlace, BoundInv
  <2> QED BY <2>1, OperandFacts, KindFacts, HeldFacts, DataAssumption DEF UnOps
<1>2. c \in Seq(Object) /\ Extends(cache, c) /\ Bounded(c, lost)
  BY <1>1, ScratchFacts, InPlaceBounded
<1>3. ASSUME NEW h \in Seq(Object), SameKinds(c, h), NEW S,
             cache' = Release(h, S), lost' = lost
      PROVE  Bounded(cache', lost')
  <2> HIDE DEF c
  <2>1. cache' \in Seq(Object) /\ SameKinds(h, cache')
    BY <1>3, ReleaseSame
  <2>2. SameKinds(c, cache')
    BY <1>3, <2>1, SameKindsFacts
  <2> QED BY <1>2, <1>3, <2>1, <2>2, StillBounded
<1>4. SameKinds(c, c)
  BY SameKindsFacts
<1>5. CASE Throw(cache, {})
  BY <1>5, SameBound DEF Throw
<1>6. CASE Throw(c, ScratchSlots(cache, n))
  <2>1. cache' = c /\ lost \subseteq lost'
    BY <1>6 DEF Throw
  <2> HIDE DEF c
  <2> QED BY <1>2, <1>4, <2>1, StillBounded
<1>7. CASE cache' = Release(c, ScratchSlots(cache, n)) /\ lost' = lost
  <2> HIDE DEF c
  <2> QED BY <1>2, <1>3, <1>4, <1>7
<1>8. CASE Top \notin Names /\ cache' = Release(Store(c, Top, x), ScratchSlots(cache, n))
           /\ lost' = lost
  <2> DEFINE h == Store(c, Top, x)
  <2>1. Top \in DOMAIN c
    BY <1>1, <1>2, <1>8 DEF Extends
  <2>2. h \in Seq(Object) /\ SameKinds(c, h)
    <3> HIDE DEF c, x
    <3> QED BY <1>1, <1>2, <2>1, StoreSame
  <2>3. cache' = Release(h, ScratchSlots(cache, n))
    BY <1>8
  <2> HIDE DEF h, c
  <2> QED BY <1>3, <1>8, <2>2, <2>3
<1> QED BY <1>5, <1>6, <1>7, <1>8, Zenon DEF InvInPlace

LEMMA NextBounded ==
  ASSUME BoundInv, Next
  PROVE  Bounded(cache', lost')
<1>0. /\ CacheInv
      /\ stack # <<>> => Kind(Top) \in Kinds /\ Datum(Top) \in Data
      /\ Len(stack) >= 2 => Kind(Second) \in Kinds /\ Datum(Second) \in Data /\ stack # <<>>
  BY OperandFacts, StackLength DEF BoundInv
<1>1. ASSUME NEW n \in Names, Use(n) PROVE Bounded(cache', lost')
  BY <1>1, SameBound DEF Use
<1>2. ASSUME NEW n \in Names, Assign(n) \/ AddAssign(n) \/ Set(n) \/ Copy(n)
      PROVE  Bounded(cache', lost')
  <2>1. \/ cache' = cache /\ lost \subseteq lost'
        \/ cache' = Release(cache, {Top}) /\ lost \subseteq lost'
    <3>1. CASE Assign(n)
      BY <3>1 DEF Assign, Finish, Throw
    <3>2. CASE AddAssign(n)
      BY <3>2 DEF AddAssign, Finish, Throw
    <3>3. CASE Set(n)
      BY <3>3 DEF Set, Finish
    <3>4. CASE Copy(n)
      BY <3>4 DEF Copy, Finish, Forget
    <3> QED BY <1>2, <3>1, <3>2, <3>3, <3>4
  <2> QED BY <2>1, SameBound, ReleaseBounded
<1>3. ASSUME NEW r \in Dims, NEW c \in Dims, NEW d \in Data, Make(r, c, d)
      PROVE  Bounded(cache', lost')
  <2>1. Mat(r, c) \in Kinds /\ Mat(r, c).type # "array"
    BY ClientAssumption, KindFacts
  <2> QED BY <1>3, <2>1, YieldBounded DEF Make
<1>4. ASSUME NEW n \in Dims, NEW d \in Data, Skew(n, d)
      PROVE  Bounded(cache', lost')
  <2>1. Mat(n, n) \in Kinds /\ Mat(n, n).type # "array"
    BY ClientAssumption, KindFacts
  <2>2. CASE n \in {3, 4}
    BY <1>4, <2>1, <2>2, YieldBounded DEF Skew
  <2>3. CASE n \notin {3, 4}
    <3> DEFINE g == GetTmp(cache, Mat(n, n))
    <3>1. cache' = g /\ lost \subseteq lost'
      BY <1>4, <2>3 DEF Skew, Throw
    <3>2. g \in Seq(Object) /\ Bounded(g, lost)
      BY <2>1, HeldFacts, GetTmpFacts, TakeBounded
    <3> HIDE DEF g
    <3> QED BY <3>1, <3>2, SameKindsFacts, StillBounded
  <2> QED BY <2>2, <2>3
<1>5. ASSUME NEW op \in BinOps, Binary(op) PROVE Bounded(cache', lost')
  <2> DEFINE k == Kind(Second)
             l == Kind(Top)
             r == ResultKind(op, k, l)
             x == Combine[op, Datum(Second), Datum(Top)]
  <2>1. /\ Len(stack) >= 2 /\ <<k.type, l.type>> \in Overloads(op)
        /\ \/ Yield(2, r, x, {Second, Top}) /\ lost' = lost
           \/ Throw(cache, {})
    BY <1>5, Zenon DEF Binary
  <2>2. k \in Kinds /\ l \in Kinds /\ r \in Kinds /\ x \in Data
    BY <1>0, <2>1, KindFacts, DataAssumption
  <2>3. r.type # "array"
    <3> HIDE DEF k, l
    <3> QED BY <2>1, <2>2, ResultIsNoArray
  <2>4. CASE Throw(cache, {})
    BY <2>4, SameBound DEF Throw
  <2> HIDE DEF r, x
  <2> QED BY <2>1, <2>2, <2>3, <2>4, YieldBounded
<1>6. CASE Dot \/ PrintOut
  <2>1. \/ cache' = cache /\ lost \subseteq lost'
        \/ \E S : cache' = Release(cache, S) /\ lost \subseteq lost'
    BY <1>6 DEF Dot, PrintOut, Throw
  <2> QED BY <2>1, SameBound, ReleaseBounded
<1>7. CASE Scale \/ Transpose \/ Conj
  <2>1. \E k \in Kinds, x \in Data : \E S :
           k.type # "array" /\ Yield(1, k, x, S) /\ lost \subseteq lost'
    <3>1. CASE Scale
      <4>1. Kind(Top) \in Kinds /\ Apply["scale", Datum(Top)] \in Data
        BY <1>0, <3>1, DataAssumption DEF Scale, UnOps
      <4> QED BY <3>1, <4>1 DEF Scale
    <3>2. CASE Transpose
      <4> DEFINE k == Mat(Kind(Top).cols, Kind(Top).rows)
                 x == Apply["trans", Datum(Top)]
      <4>1. k \in Kinds /\ k.type # "array" /\ x \in Data
        BY <1>0, <3>2, KindFacts, DataAssumption DEF Transpose, UnOps
      <4>2. Yield(1, k, x, {}) /\ lost \subseteq lost'
        BY <3>2 DEF Transpose, Forget
      <4> HIDE DEF k, x
      <4> QED BY <4>1, <4>2
    <3>3. CASE Conj
      <4> DEFINE x == Apply["conj", Datum(Top)]
      <4>1. Quat \in Kinds /\ Quat.type # "array" /\ x \in Data
        BY <1>0, <3>3, KindFacts, DataAssumption DEF Conj, UnOps, Quat
      <4>2. Yield(1, Quat, x, {}) /\ lost \subseteq lost'
        BY <3>3 DEF Conj, Forget
      <4> HIDE DEF x
      <4> QED BY <4>1, <4>2
    <3> QED BY <1>7, <3>1, <3>2, <3>3
  <2> QED BY <2>1, YieldBounded
<1> QED
  BY <1>1, <1>2, <1>3, <1>4, <1>5, <1>6, <1>7, InvBounded, InvInPlaceBounded DEF Next

LEMMA InitialBound == Init => BoundInv
<1> SUFFICES ASSUME Init PROVE BoundInv
  OBVIOUS
<1>1. CacheInv /\ cache = <<>> /\ stack = <<>>
  BY Initially DEF Init
<1>2. View = <<>> /\ Len(View) = 0
  BY <1>1, OperandViews, EmptySeq
<1>3. Narrow(View)
  BY <1>2, ClientAssumption DEF Narrow
<1>4. ASSUME NEW k \in Kinds PROVE Cardinality(NotLost(cache, lost, k)) <= Cap(k)
  <2>1. DOMAIN cache = {}
    BY <1>1
  <2>2. NotLost(cache, lost, k) = {}
    BY <2>1 DEF NotLost
  <2> QED BY <2>2, FS_EmptySet, CapFacts
<1> QED BY <1>1, <1>3, <1>4 DEF BoundInv, Bounded

LEMMA InductiveBound == BoundInv /\ [Next]_vars => BoundInv'
<1> SUFFICES ASSUME BoundInv, [Next]_vars PROVE BoundInv'
  OBVIOUS
<1>1. CacheInv /\ Narrow(View)
  BY DEF BoundInv
<1>2. CacheInv'
  BY <1>1, Inductive
<1>3. Narrow(View)'
  <2>1. [Values!ANext]_(Values!avars)
    BY <1>1, StepValue
  <2>2. Narrow(View')
    BY <1>1, <2>1, NarrowStep
  <2> QED BY <2>2 DEF Narrow
<1>4. Bounded(cache, lost)'
  <2>1. CASE Next
    BY <2>1, NextBounded DEF Bounded, NotLost, Cap
  <2>2. CASE UNCHANGED vars
    BY <2>2, SameBound DEF vars, Bounded, NotLost, Cap
  <2> QED BY <2>1, <2>2
<1> QED BY <1>2, <1>3, <1>4 DEF BoundInv

\* The cache grows with the depth of expressions and with what is lost, and
\* with nothing else: getTmp makes an object only when every one that would do
\* is an operand, the result or scratch of the operator that asks.
THEOREM BoundTheorem == Spec => []BoundedCache
<1>1. BoundInv => BoundedCache
  <2> SUFFICES ASSUME BoundInv, NEW j \in DOMAIN cache
               PROVE  Cardinality(NotLost(cache, lost, cache[j].kind)) <= Cap(cache[j].kind)
    BY DEF BoundedCache, NotLost, Cap
  <2>1. cache[j] \in Object
    BY HeldFacts, ElementOfSeq, LenProperties
  <2> QED BY <2>1 DEF BoundInv, Bounded, Object
<1> QED BY InitialBound, InductiveBound, <1>1, PTL DEF Spec
=============================================================================
